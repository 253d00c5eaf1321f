----------------------------- MODULE RealmStore -----------------------------
(***************************************************************************)
(* The local object database (lib/data/services/realm).  Each entity type  *)
(* stores foreign keys (hostId, postingId, userId, senderId) next to a     *)
(* link property (host, posting, user, sender).  Entities arrive from      *)
(* Firestore in any order, so createFromEntity resolves the links of the   *)
(* entity it stores and, when the entity is new, back-fills the links of   *)
(* the objects that were waiting for it.                                   *)
(*                                                                         *)
(* An object is identified by <<type, id>>.  A link property p stands for  *)
(* the two fields "pId" and "p" of the model class: fk is the stored key,  *)
(* link the id of the object the link points at.  The other columns carry  *)
(* no control and are abstracted.                                          *)
(***************************************************************************)
CONSTANTS Type,   \* the object types in play
          Id,     \* document ids
          NoId    \* a null (or empty) foreign key, and a null link

\* The object types of RealmService.config.
SchemaTypes == {"User", "Posting", "Booking", "FavouritePosting", "Message",
                "Review", "Conversation"}

ASSUME TypeAssumption == Type \subseteq SchemaTypes
ASSUME NoIdAssumption == NoId \notin Id

VARIABLES objects,  \* the <<type, id>> stored
          fk,       \* foreign keys of each object
          link      \* what each link property points at

vars == <<objects, fk, link>>

Ref == Type \X Id

Key == Id \union {NoId}

\* The link properties of the model classes, and the class each is declared
\* to point at.
Property == {"host", "posting", "user", "sender"}

LinkType(p) == IF p = "posting" THEN "Posting" ELSE "User"

\* The link properties each model class declares.
FieldsOf(t) ==
    CASE t = "Posting" -> {"host"}
      [] t \in {"Booking", "FavouritePosting"} -> {"posting", "user"}
      [] t = "Review" -> {"user"}
      [] t = "Message" -> {"sender"}
      [] t \in {"User", "Conversation"} -> {}

NoKeys == [p \in Property |-> NoId]

\* Foreign keys an entity of type t can carry.
Keys(t) == {f \in [Property -> Key] :
                \A p \in Property \ FieldsOf(t) : f[p] = NoId}
-----------------------------------------------------------------------------
(* RealmRelationshipRegistry.                                              *)

\* RealmRelationship<t>("pId", "p").
Relationship(t, p) == [type |-> t, property |-> p]

\* getOutgoingRelationships: what objects of type t refer to.
Outgoing(t) ==
    CASE t = "Posting" -> {Relationship("User", "host")}
      [] t \in {"Booking", "FavouritePosting"} ->
            {Relationship("Posting", "posting"), Relationship("User", "user")}
      [] t = "Review" -> {Relationship("User", "user")}
      [] t = "Message" -> {Relationship("User", "sender")}
      [] t \in {"User", "Conversation"} -> {}

\* Mutant of Incoming: the registry of User lacks its messages.
IncomingWithoutMessage(t) ==
    CASE t = "User" -> {Relationship("Posting", "host"),
                        Relationship("Booking", "user"),
                        Relationship("FavouritePosting", "user"),
                        Relationship("Review", "user")}
      [] t = "Posting" -> {Relationship("Booking", "posting"),
                           Relationship("FavouritePosting", "posting")}
      [] t \in {"Booking", "FavouritePosting", "Review", "Message",
                "Conversation"} -> {}

\* getIncomingRelationships: which objects refer to type t.
Incoming(t) ==
    CASE t = "User" -> {Relationship("Posting", "host"),
                        Relationship("Booking", "user"),
                        Relationship("FavouritePosting", "user"),
                        Relationship("Review", "user"),
                        Relationship("Message", "sender")}
      [] t = "Posting" -> {Relationship("Booking", "posting"),
                           Relationship("FavouritePosting", "posting")}
      [] t \in {"Booking", "FavouritePosting", "Review", "Message",
                "Conversation"} -> {}
-----------------------------------------------------------------------------
(* RealmService.                                                           *)

\* getReferencedEntity for every outgoing relationship of an entity of type t
\* with the keys f: the links the entity carries into realm.add.  The
\* constructor has set the other links to null.
ForwardLinks(t, f) ==
    [p \in Property |->
        IF \E r \in Outgoing(t) : /\ r.property = p
                                  /\ f[p] # NoId
                                  /\ <<r.type, f[p]>> \in objects
        THEN f[p] ELSE NoId]

\* getReferencingEntities: o holds the key id in property p and a null link.
Waiting(keys, links, o, p, id) == keys[o][p] = id /\ links[o][p] = NoId

\* Link every object waiting for the new entity <<t, id>> to it.
BackFill(t, id, objs, keys, links) ==
    [o \in Ref |->
        [p \in Property |->
            IF /\ o \in objs
               /\ Relationship(o[1], p) \in Incoming(t)
               /\ Waiting(keys, links, o, p, id)
            THEN id ELSE links[o][p]]]

\* Mutant of CreateFromEntity: the test of isNew is made after realm.add, so
\* nothing is ever back-filled.
CreateLateFind(t, id, f, update) ==
    LET e == <<t, id>>
    IN /\ update \/ e \notin objects
       /\ objects' = objects \union {e}
       /\ fk' = [fk EXCEPT ![e] = f]
       /\ link' = [link EXCEPT ![e] = ForwardLinks(t, f)]

\* createFromEntity: one write transaction.  realm.add throws for a stored id
\* unless update is set; the transaction is then rolled back and nothing
\* changes.
CreateFromEntity(t, id, f, update) ==
    LET e     == <<t, id>>
        isNew == e \notin objects
        added == [link EXCEPT ![e] = ForwardLinks(t, f)]
    IN /\ update \/ isNew
       /\ objects' = objects \union {e}
       /\ fk' = [fk EXCEPT ![e] = f]
       /\ link' = IF isNew THEN BackFill(t, id, objects', fk', added) ELSE added

\* Mutant of Remove: the deleted rows' columns survive in the database.
RemoveKeepingColumns(gone) ==
    /\ objects' = objects \ gone
    /\ UNCHANGED <<fk, link>>

\* External (Realm): deleting objects drops their columns and sets every link
\* that points at one of them to null.
Remove(gone) ==
    /\ objects' = objects \ gone
    /\ fk' = [o \in Ref |-> IF o \in gone THEN NoKeys ELSE fk[o]]
    /\ link' = [o \in Ref |->
                  IF o \in gone THEN NoKeys
                  ELSE [p \in Property |->
                          IF <<LinkType(p), link[o][p]>> \in gone
                          THEN NoId ELSE link[o][p]]]

\* deleteEntity: find, then delete if present.
DeleteEntity(t, id) == <<t, id>> \in objects /\ Remove({<<t, id>>})

\* deleteAll: every type in one transaction; if it fails it is rolled back and
\* the exception is only logged, so nothing changes.
DeleteAll == objects # {} /\ Remove(objects)
-----------------------------------------------------------------------------
Init == /\ objects = {}
        /\ fk = [o \in Ref |-> NoKeys]
        /\ link = [o \in Ref |-> NoKeys]

Next == \/ \E t \in Type, id \in Id, update \in BOOLEAN :
              \E f \in Keys(t) : CreateFromEntity(t, id, f, update)
        \/ \E t \in Type, id \in Id : DeleteEntity(t, id)
        \/ DeleteAll

Spec == Init /\ [][Next]_vars
-----------------------------------------------------------------------------
(* Properties.                                                             *)

\* Keys and links have their types, an object holds keys only in the fields
\* its class declares, and nothing is kept of an object that is not stored
\* (deleteEntity and deleteAll leave no columns behind).
TypeOK ==
    /\ objects \subseteq Ref
    /\ fk \in [Ref -> [Property -> Key]]
    /\ link \in [Ref -> [Property -> Key]]
    /\ \A o \in objects : fk[o] \in Keys(o[1])
    /\ \A o \in Ref \ objects : fk[o] = NoKeys /\ link[o] = NoKeys

\* Whatever the order in which entities are stored, re-stored with other keys
\* and deleted, a link of a stored object points at the object its foreign key
\* names if that object is stored, and is null otherwise: createFromEntity
\* misses no waiting object and leaves no link to an earlier key's object.
LinkIntegrity ==
    \A o \in objects, p \in Property :
        link[o][p] = IF /\ fk[o][p] # NoId
                        /\ <<LinkType(p), fk[o][p]>> \in objects
                     THEN fk[o][p] ELSE NoId

\* The object a key names depends only on the property that holds it.
KeyTarget(o, p, k) == <<LinkType(p), k>>

Graph == INSTANCE ObjectGraph WITH Target <- KeyTarget

\* The incremental link maintenance of RealmService implements a store whose
\* links are computed afresh from the foreign keys after every operation.
ImplementsObjectGraph == Graph!Spec
=============================================================================
