-------------------------- MODULE RealmStoreProofs --------------------------
(***************************************************************************)
(* Proofs about RealmStore, for any set of ids and any of the schema's     *)
(* types.  The argument: the registry lists every link property in both    *)
(* directions (OutgoingRegistry, IncomingRegistry); so the links of a      *)
(* stored entity are resolved and the objects waiting for a new one are    *)
(* exactly those its incoming relationships find.  TypeOK and              *)
(* LinkIntegrity are inductive together.                                   *)
(***************************************************************************)
EXTENDS RealmStore, TLAPS

\* The link a store holding objs demands for property p with key k.
Resolved(objs, p, k) ==
    IF k # NoId /\ <<LinkType(p), k>> \in objs THEN k ELSE NoId

\* The outgoing registry names, for every declared link property and no other,
\* the type the property points at.
LEMMA OutgoingRegistry ==
    ASSUME NEW s \in SchemaTypes, NEW p \in Property
    PROVE  /\ p \in FieldsOf(s) => Relationship(LinkType(p), p) \in Outgoing(s)
           /\ \A r \in Outgoing(s) : r.property \in FieldsOf(s)
                                     /\ r.type = LinkType(r.property)
BY DEF SchemaTypes, Property, FieldsOf, LinkType, Outgoing, Relationship

\* The incoming registry of the type a property points at lists every class
\* that declares the property, and lists nothing else.
LEMMA IncomingRegistry ==
    ASSUME NEW s \in SchemaTypes, NEW t \in SchemaTypes, NEW p \in Property
    PROVE  Relationship(s, p) \in Incoming(t)
             <=> p \in FieldsOf(s) /\ t = LinkType(p)
BY DEF SchemaTypes, Property, FieldsOf, LinkType, Incoming, Relationship

\* getReferencedEntity resolves every key of the entity to be stored.
LEMMA ForwardLinksResolve ==
    ASSUME NEW t \in Type, NEW f \in Keys(t)
    PROVE  /\ ForwardLinks(t, f) \in [Property -> Key]
           /\ \A p \in Property :
                 ForwardLinks(t, f)[p] = Resolved(objects, p, f[p])
<1>1. f \in [Property -> Key] /\ \A p \in Property \ FieldsOf(t) : f[p] = NoId
  BY DEF Keys
<1>2. t \in SchemaTypes
  BY TypeAssumption
<1>3. ForwardLinks(t, f) \in [Property -> Key]
  BY <1>1 DEF ForwardLinks, Key
<1>4. ASSUME NEW p \in Property
      PROVE  ForwardLinks(t, f)[p] = Resolved(objects, p, f[p])
  <2>1. \A r \in Outgoing(t) : r.property = p => r.type = LinkType(p)
    BY <1>2, OutgoingRegistry
  <2>2. f[p] # NoId => Relationship(LinkType(p), p) \in Outgoing(t)
    BY <1>1, <1>2, OutgoingRegistry
  <2>3. /\ Relationship(LinkType(p), p).property = p
        /\ Relationship(LinkType(p), p).type = LinkType(p)
    BY DEF Relationship
  <2> QED
    BY <2>1, <2>2, <2>3 DEF ForwardLinks, Resolved
<1> QED
  BY <1>3, <1>4

\* Initially nothing is stored and nothing is linked.
LEMMA InitInv == Init => TypeOK /\ LinkIntegrity
BY DEF Init, TypeOK, LinkIntegrity, NoKeys, Key

\* Storing an entity keeps the types.
LEMMA CreateTypeOK ==
    ASSUME TypeOK, NEW t \in Type, NEW id \in Id, NEW f \in Keys(t),
           NEW update \in BOOLEAN, CreateFromEntity(t, id, f, update)
    PROVE  TypeOK'
<1> DEFINE e == <<t, id>>
           added == [link EXCEPT ![e] = ForwardLinks(t, f)]
<1>1. e \in Ref /\ f \in [Property -> Key] /\ id \in Key
  BY DEF Ref, Keys, Key
<1>2. added \in [Ref -> [Property -> Key]]
  BY <1>1, ForwardLinksResolve DEF TypeOK
<1>3. link' \in [Ref -> [Property -> Key]]
  <2>1. CASE e \notin objects
    <3>1. link' = BackFill(t, id, objects', fk', added)
      BY <2>1 DEF CreateFromEntity
    <3> QED
      BY <3>1, <1>1, <1>2 DEF BackFill
  <2>2. CASE e \in objects
    BY <2>2, <1>2 DEF CreateFromEntity
  <2> QED
    BY <2>1, <2>2
<1>4. objects' \subseteq Ref /\ fk' \in [Ref -> [Property -> Key]]
  BY <1>1 DEF TypeOK, CreateFromEntity
<1>5. ASSUME NEW o \in objects'
      PROVE  fk'[o] \in Keys(o[1])
  <2>1. /\ fk \in [Ref -> [Property -> Key]]
        /\ fk' = [fk EXCEPT ![e] = f]
        /\ o \in Ref /\ (o = e \/ o \in objects)
    BY <1>4 DEF TypeOK, CreateFromEntity
  <2>2. CASE o = e
    <3>1. fk'[o] = f /\ o[1] = t
      BY <2>1, <2>2
    <3> QED
      BY <3>1
  <2>3. CASE o # e
    <3>1. fk'[o] = fk[o] /\ o \in objects
      BY <2>1, <2>3
    <3> QED
      BY <3>1 DEF TypeOK
  <2> QED
    BY <2>2, <2>3
<1>6. ASSUME NEW o \in Ref \ objects'
      PROVE  fk'[o] = NoKeys /\ link'[o] = NoKeys
  <2>1. o \in Ref \ objects /\ o # e
    BY DEF CreateFromEntity
  <2>2. fk'[o] = NoKeys /\ added[o] = NoKeys
    BY <2>1, <1>1 DEF TypeOK, CreateFromEntity
  <2>3. CASE e \notin objects
    <3>1. link' = BackFill(t, id, objects', fk', added)
      BY <2>3 DEF CreateFromEntity
    <3>2. link'[o] = [p \in Property |-> added[o][p]]
      BY <3>1 DEF BackFill
    <3> QED
      BY <3>2, <2>2 DEF NoKeys
  <2>4. CASE e \in objects
    BY <2>4, <2>2 DEF CreateFromEntity
  <2> QED
    BY <2>2, <2>3, <2>4
<1> QED
  BY <1>3, <1>4, <1>5, <1>6 DEF TypeOK

\* Storing an entity keeps every link what its foreign key demands: its own
\* links are resolved, the objects waiting for it are linked, no other changes.
LEMMA CreateLinkIntegrity ==
    ASSUME TypeOK, LinkIntegrity,
           NEW t \in Type, NEW id \in Id, NEW f \in Keys(t),
           NEW update \in BOOLEAN, CreateFromEntity(t, id, f, update)
    PROVE  LinkIntegrity'
<1> DEFINE e == <<t, id>>
           added == [link EXCEPT ![e] = ForwardLinks(t, f)]
<1>1. /\ e \in Ref /\ f \in [Property -> Key] /\ id # NoId
      /\ objects' = objects \union {e}
      /\ fk' = [fk EXCEPT ![e] = f]
      /\ t \in SchemaTypes
  BY NoIdAssumption, TypeAssumption DEF Ref, Keys, CreateFromEntity
<1>2. SUFFICES ASSUME NEW o \in objects', NEW p \in Property
               PROVE  link'[o][p] = Resolved(objects', p, fk'[o][p])
  BY DEF LinkIntegrity, Resolved
<1>3. o \in Ref /\ o[1] \in SchemaTypes /\ fk'[o] \in Keys(o[1])
  <2>1. TypeOK'
    BY CreateTypeOK
  <2> QED
    BY <2>1, TypeAssumption DEF TypeOK, Ref
<1>4. added[o][p] = Resolved(objects, p, fk'[o][p])
  <2>1. CASE o = e
    BY <2>1, <1>1, ForwardLinksResolve DEF TypeOK
  <2>2. CASE o # e
    <3>1. o \in objects /\ added[o] = link[o] /\ fk'[o] = fk[o]
      BY <2>2, <1>1, <1>3 DEF TypeOK
    <3> QED
      BY <3>1 DEF LinkIntegrity, Resolved
  <2> QED
    BY <2>1, <2>2
<1>5. CASE e \in objects
  <2>1. objects' = objects /\ link' = added
    BY <1>5, <1>1 DEF CreateFromEntity
  <2> QED
    BY <2>1, <1>4
<1>6. CASE e \notin objects
  <2>1. link' = BackFill(t, id, objects', fk', added)
    BY <1>6 DEF CreateFromEntity
  <2>2. link'[o][p] = IF /\ Relationship(o[1], p) \in Incoming(t)
                         /\ fk'[o][p] = id /\ added[o][p] = NoId
                      THEN id ELSE added[o][p]
    BY <2>1, <1>3 DEF BackFill, Waiting
  <2>3. fk'[o][p] # NoId => p \in FieldsOf(o[1])
    BY <1>3 DEF Keys
  <2>4. Relationship(o[1], p) \in Incoming(t)
          <=> p \in FieldsOf(o[1]) /\ t = LinkType(p)
    BY <1>1, <1>3, IncomingRegistry
  <2>5. CASE fk'[o][p] = id /\ t = LinkType(p)
    <3>1. added[o][p] = NoId
      BY <2>5, <1>4, <1>6 DEF Resolved
    <3>2. link'[o][p] = id
      BY <2>2, <2>3, <2>4, <2>5, <3>1, <1>1
    <3> QED
      BY <3>2, <2>5, <1>1 DEF Resolved
  <2>6. CASE ~(fk'[o][p] = id /\ t = LinkType(p))
    <3>1. link'[o][p] = added[o][p]
      BY <2>2, <2>4, <2>6
    <3>2. <<LinkType(p), fk'[o][p]>> # e
      BY <2>6
    <3> QED
      BY <3>1, <3>2, <1>1, <1>4 DEF Resolved
  <2> QED
    BY <2>5, <2>6
<1> QED
  BY <1>5, <1>6

\* Deleting stored objects keeps types and links: the links that pointed at
\* them are null afterwards, and no key can find them.
LEMMA RemoveInv ==
    ASSUME TypeOK, LinkIntegrity, NEW gone \in SUBSET objects, Remove(gone)
    PROVE  TypeOK' /\ LinkIntegrity'
<1>1. NoKeys \in [Property -> Key]
  BY DEF NoKeys, Key
<1>2. /\ objects' = objects \ gone
      /\ objects \subseteq Ref
      /\ fk' \in [Ref -> [Property -> Key]]
  BY <1>1 DEF Remove, TypeOK
<1>3. link' \in [Ref -> [Property -> Key]]
  BY <1>1 DEF Remove, TypeOK, Key
<1>4. \A o \in objects' : fk'[o] \in Keys(o[1])
  BY <1>2 DEF Remove, TypeOK
<1>5. ASSUME NEW o \in Ref \ objects'
      PROVE  fk'[o] = NoKeys /\ link'[o] = NoKeys
  <2>1. CASE o \in gone
    BY <2>1 DEF Remove
  <2>2. CASE o \notin gone
    <3>1. o \notin objects
      BY <2>2, <1>2
    <3>2. fk[o] = NoKeys /\ link[o] = NoKeys
      BY <3>1 DEF TypeOK
    <3>3. link'[o] = [p \in Property |-> IF <<LinkType(p), link[o][p]>> \in gone
                                         THEN NoId ELSE link[o][p]]
      BY <2>2 DEF Remove
    <3> QED
      BY <2>2, <3>2, <3>3 DEF Remove, NoKeys
  <2> QED
    BY <2>1, <2>2
<1>6. ASSUME NEW o \in objects', NEW p \in Property
      PROVE  link'[o][p] = Resolved(objects', p, fk'[o][p])
  <2>1. o \in Ref /\ o \in objects /\ o \notin gone
    BY <1>2
  <2>2. /\ fk'[o] = fk[o]
        /\ link'[o][p] = IF <<LinkType(p), link[o][p]>> \in gone
                         THEN NoId ELSE link[o][p]
    BY <2>1 DEF Remove
  <2>3. link[o][p] = Resolved(objects, p, fk[o][p])
    BY <2>1 DEF LinkIntegrity, Resolved
  <2> QED
    BY <2>2, <2>3, <1>2 DEF Resolved
<1> QED
  BY <1>2, <1>3, <1>4, <1>5, <1>6 DEF TypeOK, LinkIntegrity, Resolved

\* Every step of the database preserves types and link integrity.
LEMMA NextInv ==
    ASSUME TypeOK, LinkIntegrity, [Next]_vars
    PROVE  TypeOK' /\ LinkIntegrity'
<1>1. CASE \E t \in Type, id \in Id, update \in BOOLEAN :
              \E f \in Keys(t) : CreateFromEntity(t, id, f, update)
  BY <1>1, CreateTypeOK, CreateLinkIntegrity
<1>2. CASE \E t \in Type, id \in Id : DeleteEntity(t, id)
  <2>1. PICK t \in Type, id \in Id : DeleteEntity(t, id)
    BY <1>2
  <2>2. {<<t, id>>} \in SUBSET objects /\ Remove({<<t, id>>})
    BY <2>1 DEF DeleteEntity
  <2> QED
    BY <2>2, RemoveInv
<1>3. CASE DeleteAll
  BY <1>3, RemoveInv DEF DeleteAll
<1>4. CASE UNCHANGED vars
  BY <1>4 DEF vars, TypeOK, LinkIntegrity
<1> QED
  BY <1>1, <1>2, <1>3, <1>4 DEF Next

\* The database is type correct in every reachable state.
THEOREM TypeCorrect == Spec => []TypeOK
<1>1. TypeOK /\ LinkIntegrity /\ [Next]_vars => (TypeOK /\ LinkIntegrity)'
  BY NextInv
<1> QED
  BY <1>1, InitInv, PTL DEF Spec

\* In every reachable state each link is what its foreign key demands,
\* whatever the order of stores, re-stores and deletes.
THEOREM LinksCorrect == Spec => []LinkIntegrity
<1>1. TypeOK /\ LinkIntegrity /\ [Next]_vars => (TypeOK /\ LinkIntegrity)'
  BY NextInv
<1> QED
  BY <1>1, InitInv, PTL DEF Spec

\* After a step that keeps LinkIntegrity, the links are the derived ones.
LEMMA LinksAreDerived ==
    ASSUME TypeOK', LinkIntegrity'
    PROVE  Graph!Relink
<1>1. ASSUME NEW o \in Ref, NEW p \in Property
      PROVE  link'[o][p] = Graph!Resolve(objects', o, p, fk'[o][p])
  <2>1. CASE o \in objects'
    BY <2>1 DEF LinkIntegrity, Graph!Resolve, KeyTarget
  <2>2. CASE o \notin objects'
    BY <2>2 DEF TypeOK, NoKeys, Graph!Resolve
  <2> QED
    BY <2>1, <2>2
<1>2. link' \in [Ref -> [Property -> Key]]
  BY DEF TypeOK
<1>3. \A o \in Ref : link'[o] = [p \in Property |->
                                   Graph!Resolve(objects', o, p, fk'[o][p])]
  BY <1>1, <1>2
<1> QED
  BY <1>2, <1>3 DEF Graph!Relink, Graph!ResolveAll

\* A step of RealmService is a step of the abstract store.
LEMMA StepSimulation ==
    ASSUME TypeOK, LinkIntegrity, [Next]_vars
    PROVE  [Graph!Next]_(Graph!vars)
<1>1. TypeOK' /\ LinkIntegrity'
  BY NextInv
<1>2. Graph!Relink
  BY <1>1, LinksAreDerived
<1>3. ASSUME NEW gone \in SUBSET objects, Remove(gone)
      PROVE  Graph!Forget
  <2>1. objects' \subseteq objects /\ objects \ objects' = gone
    BY <1>3 DEF Remove
  <2>2. fk' = [o \in Ref |-> IF o \in gone THEN NoKeys ELSE fk[o]]
    BY <1>3 DEF Remove
  <2> QED
    BY <1>2, <2>1, <2>2 DEF Graph!Forget, NoKeys
<1>4. ASSUME NEW t \in Type, NEW id \in Id, NEW update \in BOOLEAN,
             NEW f \in Keys(t), CreateFromEntity(t, id, f, update)
      PROVE  \E r \in Ref : Graph!Put(r)
  <2>1. <<t, id>> \in Ref
    BY DEF Ref
  <2>2. objects' = objects \union {<<t, id>>} /\ fk' = [fk EXCEPT ![<<t, id>>] = f]
    BY <1>4 DEF CreateFromEntity
  <2>3. fk \in [Ref -> [Property -> Key]] /\ fk' \in [Ref -> [Property -> Key]]
    BY <1>1 DEF TypeOK
  <2>4. Graph!Put(<<t, id>>)
    BY <1>2, <2>1, <2>2, <2>3 DEF Graph!Put
  <2> QED
    BY <2>1, <2>4
<1>5. CASE \E t \in Type, id \in Id, update \in BOOLEAN :
              \E f \in Keys(t) : CreateFromEntity(t, id, f, update)
  BY <1>4, <1>5 DEF Graph!Next
<1>6. CASE \E t \in Type, id \in Id : DeleteEntity(t, id)
  <2>1. PICK t \in Type, id \in Id : DeleteEntity(t, id)
    BY <1>6
  <2>2. {<<t, id>>} \in SUBSET objects /\ Remove({<<t, id>>})
    BY <2>1 DEF DeleteEntity
  <2> QED
    BY <2>2, <1>3 DEF Graph!Next
<1>7. CASE DeleteAll
  BY <1>7, <1>3 DEF DeleteAll, Graph!Next
<1>8. CASE UNCHANGED vars
  BY <1>8 DEF vars, Graph!vars
<1> QED
  BY <1>5, <1>6, <1>7, <1>8 DEF Next

\* RealmService's incremental linking implements the store whose links are
\* recomputed from the foreign keys after every operation.
THEOREM RefinesObjectGraph == Spec => ImplementsObjectGraph
<1>1. Init => Graph!Init
  BY DEF Init, Graph!Init, NoKeys
<1>2. TypeOK /\ LinkIntegrity /\ [Next]_vars => (TypeOK /\ LinkIntegrity)'
  BY NextInv
<1>3. TypeOK /\ LinkIntegrity /\ [Next]_vars => [Graph!Next]_(Graph!vars)
  BY StepSimulation
<1> QED
  BY <1>1, <1>2, <1>3, InitInv, PTL DEF Spec, ImplementsObjectGraph, Graph!Spec
=============================================================================
