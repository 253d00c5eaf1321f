---------------------------- MODULE ObjectGraph ----------------------------
(***************************************************************************)
(* What the local object database promises to the screens that read it:    *)
(* a set of stored objects, each holding foreign keys, in which every link *)
(* (posting.host, booking.posting, message.sender ...) is exactly the      *)
(* object its foreign key names, whenever that object is stored.  Links    *)
(* are derived here; RealmStore maintains them incrementally and is shown  *)
(* to implement this module.                                               *)
(***************************************************************************)
CONSTANTS Ref,        \* every <<type, id>> an object can have
          Property,   \* names of link properties
          NoId,       \* a null foreign key or a null link
          Key,        \* values a foreign key can take, NoId among them
          Target(_, _, _)  \* Target(r, p, k): the Ref that key k names in
                           \* property p of an object r

VARIABLES objects, fk, link

vars == <<objects, fk, link>>

\* The link the promise demands for property p of object r in a store that
\* holds the objects objs.
Resolve(objs, r, p, k) ==
    IF k # NoId /\ Target(r, p, k) \in objs THEN k ELSE NoId

ResolveAll(objs, keys) ==
    [r \in Ref |-> [p \in Property |-> Resolve(objs, r, p, keys[r][p])]]

Init == /\ objects = {}
        /\ fk = [r \in Ref |-> [p \in Property |-> NoId]]
        /\ link = fk

\* Links always follow from what is stored after the step.
Relink == link' = ResolveAll(objects', fk')

\* Store the object r, new or not, with any foreign keys.
Put(r) == /\ objects' = objects \union {r}
          /\ fk' \in [Ref -> [Property -> Key]]
          /\ \A o \in Ref \ {r} : fk'[o] = fk[o]
          /\ Relink

\* Forget some of the objects.
Forget == /\ objects' \subseteq objects
          /\ fk' = [o \in Ref |-> IF o \in objects \ objects'
                                  THEN [p \in Property |-> NoId]
                                  ELSE fk[o]]
          /\ Relink

Next == (\E r \in Ref : Put(r)) \/ Forget

Spec == Init /\ [][Next]_vars
=============================================================================
