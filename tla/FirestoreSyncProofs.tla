------------------------ MODULE FirestoreSyncProofs ------------------------
(***************************************************************************)
(* Proofs about FirestoreSync, for any keys, observers, documents, calls   *)
(* of signOut and bounds, in three parts, each resting on the one before.  *)
(*                                                                         *)
(* The listeners.  The maps hold at most one subscription per key,         *)
(* removeAllListeners moves the subscriptions of one map into a local list *)
(* before its first await, and only then can a key be observed again.  A   *)
(* subscription that begins while a list is worked through is therefore    *)
(* another one, and stays in the map; a second sign-out finds it there, or *)
(* nothing.                                                                *)
(*                                                                         *)
(* The data.  A snapshot comes from a live subscription and is about       *)
(* documents of its key, and every write and copy is a document's content. *)
(*                                                                         *)
(* The copies.  Whatever is on its way about an undamaged document that is *)
(* listened to, and differs from the document as the SDK sees it, is       *)
(* followed by a snapshot of the listener itself.                          *)
(***************************************************************************)
EXTENDS FirestoreSync, FiniteSetTheorems, WellFoundedInduction, TLAPS

\* Types of what the listeners are kept in.
ListenersTyped ==
    /\ live \subseteq Sub /\ late \subseteq live /\ IsFiniteSet(live)
    /\ observed \in [Key -> Sub \union {NoSub}]
    /\ watching \in [Observer -> Key \union {NoKey}]
    /\ teardown \in [SignOut -> {"none", "docs", "colls"}]
    /\ toCancel \in [SignOut -> SUBSET Sub]

\* A map entry is a subscription to its own key.
OwnKey == \A k \in Key : observed[k] # NoSub => observed[k][1] = k

\* A call has nothing to cancel when it is not running.
IdleIsDone == \A c \in SignOut : teardown[c] = "none" => toCancel[c] = {}

\* A live subscription is in a map or on the list of one call.
EachOnce ==
    /\ \A s \in live : \/ \E k \in Key : observed[k] = s
                       \/ \E c \in SignOut : s \in toCancel[c]
    /\ \A k \in Key : observed[k] # NoSub =>
          observed[k] \in live /\ \A c \in SignOut : observed[k] \notin toCancel[c]
    /\ \A c \in SignOut : \A s \in toCancel[c] :
          s \in live /\ \A e \in SignOut : s \in toCancel[e] => e = c

AreLate(keys) == \A k \in keys : observed[k] # NoSub => observed[k] \in late

\* Once a call's loop over a map has begun, what the map holds began later.
ClearedAreLate ==
    \A c \in SignOut : /\ teardown[c] # "none" => AreLate(Key \cap DocKey)
                       /\ teardown[c] = "colls" => AreLate(Key \cap QueryKey)

\* The inductive invariant.
Inv == ListenersTyped /\ OwnKey /\ IdleIsDone /\ EachOnce /\ ClearedAreLate
-----------------------------------------------------------------------------
\* Nothing is observed at first.
LEMMA InitInv == Init => Inv
BY FS_EmptySet DEF Init, Inv, ListenersTyped, OwnKey, IdleIsDone, EachOnce,
       ClearedAreLate, AreLate

\* Writes, reads, answers and snapshots leave the listeners alone.
LEMMA ListenersFrame ==
    ASSUME Inv, UNCHANGED <<listeners, wiping>>
    PROVE  Inv'
BY DEF listeners, wiping, Inv, ListenersTyped, OwnKey, IdleIsDone, EachOnce,
       ClearedAreLate, AreLate

\* What the maps hold.
LEMMA RegisteredSubs ==
    ASSUME Inv
    PROVE  /\ \A keys \in SUBSET Key : \A s :
                 s \in Registered(keys) <=>
                    s # NoSub /\ \E k \in keys : s = observed[k]
           /\ \A k \in Key : observed[k] # NoSub =>
                 /\ observed[k] \in live /\ \A c \in SignOut : observed[k] \notin toCancel[c]
                 /\ observed[k] \in Sub /\ observed[k][1] = k
<1>1. \A keys \in SUBSET Key : \A s :
         s \in Registered(keys) <=> s # NoSub /\ \E k \in keys : s = observed[k]
  BY DEF Registered
<1>2. \A k \in Key : observed[k] # NoSub =>
         observed[k] \in Sub /\ observed[k][1] = k
  BY DEF Inv, ListenersTyped, OwnKey
<1> QED
  BY <1>1, <1>2 DEF Inv, EachOnce

\* Among as many numbers and one more there is one that no live subscription has.
LEMMA FreshIsNew ==
    ASSUME Inv, NEW k \in Key
    PROVE  Fresh(k) \in Sub /\ Fresh(k)[1] = k /\ Fresh(k) \notin live
<1> DEFINE N == Cardinality(live)
           f == [n \in 0..N |-> <<k, n>>]
<1>1. IsFiniteSet(live) /\ N \in Nat
  BY FS_CardinalityType DEF Inv, ListenersTyped
<1>2. \E n \in 0..N : <<k, n>> \notin live
  <2> SUFFICES ASSUME \A n \in 0..N : <<k, n>> \in live PROVE FALSE
    OBVIOUS
  <2>1. f \in Injection(0..N, live)
    BY DEF Injection, IsInjective
  <2>2. Cardinality(0..N) <= N
    BY <1>1, <2>1, FS_Injection
  <2>3. Cardinality(0..N) = N + 1
    BY <1>1, FS_Interval
  <2> QED
    BY <1>1, <2>2, <2>3
<1>3. PICK n \in 0..N : Fresh(k) = <<k, n>> /\ <<k, n>> \notin live
  BY <1>2 DEF Fresh
<1> QED
  BY <1>1, <1>3 DEF Sub

\* A map entry that is added, for a key that has none, is a new subscription.
LEMMA ObserveInv ==
    ASSUME Inv, NEW o \in Observer, NEW k \in Key, Observe(o, k)
    PROVE  Inv'
<1>1. watching' \in [Observer -> Key \union {NoKey}]
  BY DEF Inv, ListenersTyped, Observe
<1>2. teardown' = teardown /\ toCancel' = toCancel
  BY DEF Observe, wiping
<1>3. CASE observed[k] # NoSub
  <2>1. UNCHANGED <<observed, live, late>>
    BY <1>3 DEF Observe
  <2> QED
    BY <1>1, <1>2, <2>1 DEF Inv, ListenersTyped, OwnKey, IdleIsDone, EachOnce,
       ClearedAreLate, AreLate
<1>4. CASE observed[k] = NoSub
  <2> DEFINE s == Fresh(k)
  <2>1. /\ observed' = [observed EXCEPT ![k] = s]
        /\ live' = live \union {s}
        /\ late' = IF SigningOut THEN late \union {s} ELSE late
    BY <1>4 DEF Observe
  <2>2. s \in Sub /\ s[1] = k /\ s # NoSub /\ s \notin live
    BY FreshIsNew, NoSubAssumption
  <2> HIDE DEF s
  <2>3. observed' \in [Key -> Sub \union {NoSub}]
    BY <2>1, <2>2 DEF Inv, ListenersTyped
  <2>4. \A j \in Key : observed'[j] = IF j = k THEN s ELSE observed[j]
    BY <2>1 DEF Inv, ListenersTyped
  <2>5. IsFiniteSet(live')
    BY <2>1, FS_AddElement DEF Inv, ListenersTyped
  <2>6. ListenersTyped'
    BY <1>1, <1>2, <2>1, <2>2, <2>3, <2>5 DEF Inv, ListenersTyped
  <2>7. OwnKey' /\ IdleIsDone'
    BY <1>2, <2>2, <2>4 DEF Inv, OwnKey, IdleIsDone
  <2>8. EachOnce'
    <3>1. \A c \in SignOut : s \notin toCancel[c]
      BY <2>2 DEF Inv, EachOnce
    <3>2. \A t \in live' : (\E j \in Key : observed'[j] = t)
                             \/ \E c \in SignOut : t \in toCancel'[c]
      <4>1. ASSUME NEW j \in Key, observed[j] \in live PROVE observed'[j] = observed[j]
        BY <1>4, <2>4, <4>1, NoSubAssumption DEF Inv, ListenersTyped
      <4> QED
        BY <1>2, <2>1, <2>4, <4>1 DEF Inv, EachOnce
    <3> QED
      BY <1>2, <2>1, <2>4, <3>1, <3>2 DEF Inv, EachOnce
  <2>9. ClearedAreLate'
    BY <1>2, <2>1, <2>4 DEF Inv, ClearedAreLate, AreLate, SigningOut
  <2> QED
    BY <2>6, <2>7, <2>8, <2>9 DEF Inv
<1> QED
  BY <1>3, <1>4

\* What removeDocListener and removeCollectionListener take out of the map they
\* also cancel.
LEMMA StopObservingInv ==
    ASSUME Inv, NEW o \in Observer, StopObserving(o)
    PROVE  Inv'
<1> DEFINE k == watching[o]
           gone == {observed[k]} \ {NoSub}
<1>1. k \in Key
  BY DEF Inv, ListenersTyped, StopObserving
<1>2. /\ watching' \in [Observer -> Key \union {NoKey}]
      /\ teardown' = teardown /\ toCancel' = toCancel
  BY DEF Inv, ListenersTyped, StopObserving, wiping
<1>3. live' = live \ gone /\ late' = late \ gone
  BY DEF StopObserving
<1>4. /\ observed' \in [Key -> Sub \union {NoSub}]
      /\ \A j \in Key : observed'[j] = IF j = k THEN NoSub ELSE observed[j]
  BY <1>1 DEF StopObserving, Inv, ListenersTyped
<1>5. \A j \in Key : j # k => observed[j] \notin gone
  BY <1>1, RegisteredSubs
<1>6. \A c \in SignOut : \A s \in toCancel[c] : s \notin gone
  BY <1>1, RegisteredSubs
<1>7. \A s \in live : s \notin gone => s # observed[k]
  BY NoSubAssumption DEF Inv, ListenersTyped
<1> HIDE DEF k, gone
<1>8. ListenersTyped'
  <2>1. IsFiniteSet(live')
    BY <1>3, FS_Subset DEF Inv, ListenersTyped
  <2> QED
    BY <1>2, <1>3, <1>4, <2>1 DEF Inv, ListenersTyped
<1>9. OwnKey' /\ IdleIsDone'
  BY <1>2, <1>4 DEF Inv, OwnKey, IdleIsDone
<1>10. EachOnce'
  <2>1. \A s \in live' : (\E j \in Key : observed'[j] = s)
                            \/ \E c \in SignOut : s \in toCancel'[c]
    BY <1>2, <1>3, <1>4, <1>7 DEF Inv, EachOnce
  <2> QED
    BY <1>2, <1>3, <1>4, <1>5, <1>6, <2>1 DEF Inv, EachOnce
<1>11. ClearedAreLate'
  BY <1>2, <1>3, <1>4, <1>5 DEF Inv, ClearedAreLate, AreLate
<1> QED
  BY <1>8, <1>9, <1>10, <1>11 DEF Inv

\* Emptying one map and cancelling the first of what it held moves the rest to
\* the list of the call.
LEMMA ClearInv ==
    ASSUME Inv, NEW c \in SignOut, NEW keys \in SUBSET Key, NEW phase \in {"docs", "colls"},
           toCancel[c] = {}, watching' = watching,
           CancelOneOf(c, Registered(keys), phase), Clear(keys),
           \/ phase = "docs" /\ keys = Key \cap DocKey
           \/ phase = "colls" /\ keys = Key \cap QueryKey /\ AreLate(Key \cap DocKey)
    PROVE  Inv'
<1> DEFINE subs == Registered(keys)
<1>1. PICK s \in subs : /\ live' = live \ {s} /\ late' = late \ {s}
                        /\ toCancel' = [toCancel EXCEPT ![c] = subs \ {s}]
                        /\ teardown' = [teardown EXCEPT ![c] = phase]
  BY DEF CancelOneOf
<1>2. /\ observed' \in [Key -> Sub \union {NoSub}]
      /\ \A k \in Key : observed'[k] = IF k \in keys THEN NoSub ELSE observed[k]
  BY DEF Clear, Inv, ListenersTyped
<1>3. \A t \in subs : t \in Sub /\ t \in live /\ \A e \in SignOut : t \notin toCancel[e]
  BY RegisteredSubs
<1>4. \A k \in Key : k \in keys \/ observed[k] \notin subs
  BY RegisteredSubs
<1>5. \A k \in keys : observed[k] # NoSub => observed[k] \in subs
  BY RegisteredSubs
<1>6. \A e \in SignOut : /\ toCancel'[e] = IF e = c THEN subs \ {s} ELSE toCancel[e]
                         /\ teardown'[e] = IF e = c THEN phase ELSE teardown[e]
  BY <1>1 DEF Inv, ListenersTyped
<1> HIDE DEF subs
<1>7. ListenersTyped'
  <2>1. IsFiniteSet(live')
    BY <1>1, FS_Subset DEF Inv, ListenersTyped
  <2>2. subs \ {s} \in SUBSET Sub
    BY <1>3
  <2> QED
    BY <1>1, <1>2, <2>1, <2>2 DEF Inv, ListenersTyped
<1>8. OwnKey' /\ IdleIsDone'
  BY <1>2, <1>6 DEF Inv, OwnKey, IdleIsDone
<1>9. EachOnce'
  <2>1. ASSUME NEW t \in live' PROVE (\E k \in Key : observed'[k] = t)
                                        \/ \E e \in SignOut : t \in toCancel'[e]
    <3>1. t \in live /\ t # s /\ t # NoSub
      BY <1>1, <2>1, NoSubAssumption DEF Inv, ListenersTyped
    <3>2. CASE t \in subs
      BY <1>6, <3>1, <3>2
    <3>3. ASSUME NEW k \in Key, observed[k] = t, t \notin subs PROVE observed'[k] = t
      BY <1>2, <1>5, <3>1, <3>3
    <3>4. ASSUME NEW e \in SignOut, t \in toCancel[e] PROVE t \in toCancel'[e]
      BY <1>6, <3>4
    <3> QED
      BY <3>1, <3>2, <3>3, <3>4 DEF Inv, EachOnce
  <2>2. ASSUME NEW k \in Key, observed'[k] # NoSub
        PROVE  observed'[k] \in live' /\ \A e \in SignOut : observed'[k] \notin toCancel'[e]
    <3>1. k \notin keys /\ observed'[k] = observed[k] /\ observed[k] \notin subs
      BY <1>2, <1>4, <2>2
    <3> QED
      BY <1>1, <1>6, <2>2, <3>1 DEF Inv, EachOnce
  <2>3. ASSUME NEW e \in SignOut, NEW t \in toCancel'[e]
        PROVE  t \in live' /\ \A g \in SignOut : t \in toCancel'[g] => g = e
    <3>1. CASE e = c
      BY <1>1, <1>3, <1>6, <2>3, <3>1
    <3>2. CASE e # c
      <4>1. t \in toCancel[e] /\ t \notin subs
        BY <1>3, <1>6, <2>3, <3>2
      <4> QED
        BY <1>1, <1>6, <4>1 DEF Inv, EachOnce
    <3> QED
      BY <3>1, <3>2
  <2> QED
    BY <2>1, <2>2, <2>3 DEF EachOnce
<1>10. ClearedAreLate'
  <2>1. \A k \in Key : /\ observed'[k] # NoSub
                       /\ observed[k] \in late
                       => observed'[k] \in late'
    BY <1>1, <1>2, <1>4
  <2>2. \A k \in Key : observed'[k] # NoSub => observed'[k] = observed[k] /\ k \notin keys
    BY <1>2
  <2>3. \A ks \in SUBSET Key : AreLate(ks) => AreLate(ks)'
    BY <2>1, <2>2 DEF AreLate
  <2>4. AreLate(keys)'
    BY <2>2 DEF AreLate
  <2> QED
    BY <1>6, <2>3, <2>4 DEF Inv, ClearedAreLate
<1> QED
  BY <1>7, <1>8, <1>9, <1>10 DEF Inv

\* The wipe ends a call, which has nothing left to cancel.
LEMMA WipeInv ==
    ASSUME Inv, NEW c \in SignOut, toCancel[c] = {}, watching' = watching, Wipe(c)
    PROVE  Inv'
<1>1. UNCHANGED <<toCancel, observed, live, late>>
  BY DEF Wipe
<1>2. /\ teardown' \in [SignOut -> {"none", "docs", "colls"}]
      /\ \A e \in SignOut : teardown'[e] = IF e = c THEN "none" ELSE teardown[e]
  BY DEF Wipe, Inv, ListenersTyped
<1> QED
  BY <1>1, <1>2 DEF Inv, ListenersTyped, OwnKey, IdleIsDone, EachOnce, ClearedAreLate, AreLate

\* The second half of removeAllListeners.
LEMMA RemoveCollectionsInv ==
    ASSUME Inv, NEW c \in SignOut, toCancel[c] = {}, watching' = watching,
           AreLate(Key \cap DocKey), RemoveCollections(c)
    PROVE  Inv'
<1>1. Key \cap QueryKey \in SUBSET Key
  OBVIOUS
<1>2. CASE Registered(Key \cap QueryKey) # {}
  BY <1>1, <1>2, ClearInv DEF RemoveCollections
<1>3. CASE Registered(Key \cap QueryKey) = {}
  BY <1>3, WipeInv DEF RemoveCollections
<1> QED
  BY <1>2, <1>3

\* The first half; an empty map holds only late subscriptions.
LEMMA RemoveAllListenersInv ==
    ASSUME Inv, NEW c \in SignOut, RemoveAllListeners(c)
    PROVE  Inv'
<1>1. toCancel[c] = {} /\ watching' = watching
  BY DEF Inv, IdleIsDone, RemoveAllListeners
<1>2. Key \cap DocKey \in SUBSET Key
  OBVIOUS
<1>3. CASE Registered(Key \cap DocKey) # {}
  BY <1>1, <1>2, <1>3, ClearInv DEF RemoveAllListeners
<1>4. CASE Registered(Key \cap DocKey) = {}
  <2>1. AreLate(Key \cap DocKey)
    BY <1>2, <1>4, RegisteredSubs DEF AreLate
  <2> QED
    BY <1>1, <1>4, <2>1, RemoveCollectionsInv DEF RemoveAllListeners
<1> QED
  BY <1>3, <1>4

\* The rest of removeAllListeners, one await at a time.
LEMMA TeardownContinuesInv ==
    ASSUME Inv, NEW c \in SignOut, TeardownContinues(c)
    PROVE  Inv'
<1>1. teardown[c] # "none" /\ watching' = watching
  BY DEF TeardownContinues
<1>2. AreLate(Key \cap DocKey)
  BY <1>1 DEF Inv, ClearedAreLate
<1>3. ASSUME CancelOneOf(c, toCancel[c], teardown[c]), observed' = observed
      PROVE  Inv'
  <2>1. PICK s \in toCancel[c] : /\ live' = live \ {s} /\ late' = late \ {s}
                                 /\ toCancel' = [toCancel EXCEPT ![c] = toCancel[c] \ {s}]
                                 /\ teardown' = [teardown EXCEPT ![c] = teardown[c]]
    BY <1>3 DEF CancelOneOf
  <2>2. teardown' = teardown
    BY <2>1 DEF Inv, ListenersTyped
  <2>3. \A e \in SignOut : toCancel'[e] = IF e = c THEN toCancel[c] \ {s} ELSE toCancel[e]
    BY <2>1 DEF Inv, ListenersTyped
  <2>4. \A k \in Key : observed[k] # s
    BY <2>1, RegisteredSubs, NoSubAssumption DEF Inv, ListenersTyped
  <2>5. \A e \in SignOut : toCancel'[e] = toCancel[e] \ {s}
    BY <2>1, <2>3 DEF Inv, EachOnce
  <2>6. ListenersTyped'
    <3>1. IsFiniteSet(live')
      BY <2>1, FS_Subset DEF Inv, ListenersTyped
    <3>2. toCancel' \in [SignOut -> SUBSET Sub]
      BY <2>1 DEF Inv, ListenersTyped
    <3> QED
      BY <1>1, <1>3, <2>1, <2>2, <3>1, <3>2 DEF Inv, ListenersTyped
  <2>7. OwnKey' /\ IdleIsDone'
    BY <1>3, <2>2, <2>5 DEF Inv, OwnKey, IdleIsDone
  <2>8. EachOnce'
    BY <1>3, <2>1, <2>4, <2>5 DEF Inv, EachOnce
  <2>9. ClearedAreLate'
    BY <1>3, <2>1, <2>2, <2>4 DEF Inv, ClearedAreLate, AreLate
  <2> QED
    BY <2>6, <2>7, <2>8, <2>9 DEF Inv
<1> QED
  BY <1>1, <1>2, <1>3, RemoveCollectionsInv, WipeInv DEF TeardownContinues

\* Every step of the service, the SDK and the screens keeps the invariant.
LEMMA NextInv ==
    ASSUME Inv, [Next]_vars
    PROVE  Inv'
<1>1. ASSUME NEW w, Issue(w) PROVE Inv'
  BY <1>1, ListenersFrame DEF Issue
<1>2. ASSUME NEW d \in Doc, NEW c \in Data, CreateDoc(d, c) PROVE Inv'
  BY <1>1, <1>2 DEF CreateDoc
<1>3. ASSUME NEW d \in Doc, NEW p \in Patch, UpdateDoc(d, p) PROVE Inv'
  BY <1>1, <1>3 DEF UpdateDoc
<1>4. ASSUME NEW d \in Doc, DeleteDoc(d) PROVE Inv'
  BY <1>1, <1>4 DEF DeleteDoc
<1>5. CASE Commit
  BY <1>5, ListenersFrame DEF Commit
<1>6. CASE Reject
  BY <1>6, ListenersFrame DEF Reject
<1>7. ASSUME NEW k \in Key, Get(k) \/ GetReturns(k) \/ GetFails(k) PROVE Inv'
  BY <1>7, ListenersFrame DEF Get, GetReturns, GetFails
<1>8. ASSUME NEW d \in Doc, NEW c \in {Absent} \union Data, OtherClientWrites(d, c)
      PROVE  Inv'
  BY <1>8, ListenersFrame DEF OtherClientWrites
<1>9. CASE Deliver
  BY <1>9, ListenersFrame DEF Deliver
<1>10. CASE UNCHANGED vars
  BY <1>10, ListenersFrame DEF vars, listeners, wiping
<1> QED
  BY <1>2, <1>3, <1>4, <1>5, <1>6, <1>7, <1>8, <1>9, <1>10, ObserveInv,
     StopObservingInv, RemoveAllListenersInv, TeardownContinuesInv DEF Next

\* The invariant holds of every behaviour of the service.
LEMMA AlwaysInv == Spec => []Inv
<1> QED
  BY InitInv, NextInv, PTL DEF Spec

\* No listener leaks: in every state a subscription that has not been
\* cancelled is in one of the maps of FireStoreService or on the list that
\* one call of removeAllListeners works through, and never in two of these,
\* however observations, cancellations and other sign-outs fall between its
\* awaits.
THEOREM NoListenerLeaks == Spec => []SubscriptionsReachable
<1>1. Inv => SubscriptionsReachable
  <2> SUFFICES ASSUME Inv PROVE SubscriptionsReachable
    OBVIOUS
  <2>1. \A s : s \in Registered(Key) <=> s # NoSub /\ \E k \in Key : s = observed[k]
    BY RegisteredSubs
  <2>2. \A s : s \in UNION {toCancel[c] : c \in SignOut}
                  <=> \E c \in SignOut : s \in toCancel[c]
    OBVIOUS
  <2>3. NoSub \notin live
    BY NoSubAssumption DEF Inv, ListenersTyped
  <2>4. live = Registered(Key) \union UNION {toCancel[c] : c \in SignOut}
    BY <2>1, <2>2, <2>3 DEF Inv, EachOnce
  <2>5. ASSUME NEW c \in SignOut
        PROVE  toCancel[c] \cap (Registered(Key) \union LeftToOthers(c)) = {}
    BY <2>1 DEF Inv, EachOnce, LeftToOthers
  <2> QED
    BY <2>4, <2>5 DEF SubscriptionsReachable
<1> QED
  BY <1>1, AlwaysInv, PTL

\* When a call of removeAllListeners is through, whatever is registered is late.
LEMMA FinishedAreLate ==
    ASSUME Inv, NEW c \in SignOut, Finishes(c)
    PROVE  toCancel[c] = {} /\ AreLate(Key)
<1>1. teardown[c] \in {"none", "docs", "colls"} /\ teardown'[c] = "none"
  BY DEF Inv, ListenersTyped, Finishes
<1>2. ASSUME NEW subs, NEW phase, CancelOneOf(c, subs, phase) PROVE phase = "none"
  BY <1>1, <1>2 DEF CancelOneOf, Inv, ListenersTyped
<1>3. RemoveCollections(c) => Registered(Key \cap QueryKey) = {}
  BY <1>2 DEF RemoveCollections
<1>4. \A keys \in SUBSET Key : Registered(keys) = {} => AreLate(keys)
  BY RegisteredSubs DEF AreLate
<1>5. AreLate(Key \cap DocKey) /\ AreLate(Key \cap QueryKey) => AreLate(Key)
  BY KeyAssumption DEF AreLate
<1>6. CASE RemoveAllListeners(c)
  <2>1. toCancel[c] = {}
    BY <1>6 DEF RemoveAllListeners, Inv, IdleIsDone
  <2>2. Registered(Key \cap DocKey) = {} /\ Registered(Key \cap QueryKey) = {}
    BY <1>2, <1>3, <1>6 DEF RemoveAllListeners
  <2> QED
    BY <1>4, <1>5, <2>1, <2>2
<1>7. CASE TeardownContinues(c)
  <2>1. teardown[c] # "none" /\ AreLate(Key \cap DocKey)
    BY <1>7 DEF TeardownContinues, Inv, ClearedAreLate
  <2>2. /\ toCancel[c] = {}
        /\ teardown[c] = "colls" \/ Registered(Key \cap QueryKey) = {}
    BY <1>2, <1>3, <1>7, <2>1 DEF TeardownContinues
  <2>3. AreLate(Key \cap QueryKey)
    BY <1>4, <2>2 DEF Inv, ClearedAreLate
  <2> QED
    BY <1>5, <2>1, <2>2, <2>3
<1> QED
  BY <1>6, <1>7 DEF Finishes

\* removeAllListeners misses none of the listeners it was called for: whatever
\* outlives the wipe of Realm began while a sign-out waited for a cancel, or is on
\* the list of another sign-out, for any number of sign-outs at once.
THEOREM SignOutCancels == Spec => WipeSparesOnlyLate
<1>1. ASSUME Inv, NEW c \in SignOut, Finishes(c)
      PROVE  live \subseteq (late \cap Registered(Key)) \union LeftToOthers(c)
  <2>1. toCancel[c] = {} /\ AreLate(Key)
    BY <1>1, FinishedAreLate
  <2>2. \A k \in Key : observed[k] # NoSub => observed[k] \in late \cap Registered(Key)
    BY <1>1, <2>1, RegisteredSubs DEF AreLate
  <2>3. \A e \in SignOut : e # c => toCancel[e] \subseteq LeftToOthers(c)
    BY DEF LeftToOthers
  <2>4. NoSub \notin live
    BY <1>1, NoSubAssumption DEF Inv, ListenersTyped
  <2> QED
    BY <1>1, <2>1, <2>2, <2>3, <2>4 DEF Inv, EachOnce
<1>2. Inv => [\A c \in SignOut : Finishes(c) =>
                 live \subseteq (late \cap Registered(Key)) \union LeftToOthers(c)]_vars
  BY <1>1
<1> QED
  BY <1>2, AlwaysInv, PTL DEF WipeSparesOnlyLate
-----------------------------------------------------------------------------
(* What is written, sent and stored.                                       *)

\* The documents a key is about.
Covers(k) == IF k.kind = "doc" THEN {k.doc} ELSE k.docs

Contents == [Doc -> MaybeContent]
WriteType == [doc : Doc, op : {"set"}, data : Content]
                \union [doc : Doc, op : {"update"}, data : Patch]
                \union [doc : Doc, op : {"delete"}, data : {Absent}]
ChangesType == UNION {[docs -> MaybeContent] : docs \in SUBSET Doc}
Message == [kind : {"snapshot", "write", "read"}, changes : ChangesType,
            from : Sub \union {NoSub}]

\* A snapshot comes from a subscription that is alive and tells of documents of
\* its key.
From(m, subs) == m.from # NoSub => /\ m.from \in subs
                                   /\ DOMAIN m.changes \subseteq Covers(m.from[1])

\* The invariant of the data.
DataInv ==
    /\ remote \in Contents /\ local \in Contents
    /\ pending \in Seq(WriteType) /\ gets \subseteq Key /\ ops \in 0..MaxOps
    /\ channel \in Seq(Message) /\ \A i \in DOMAIN channel : From(channel[i], live)
    /\ damaged \subseteq Doc

\* Some positions have a last one.
LEMMA LatestOf ==
    ASSUME NEW n \in Nat, NEW S \in SUBSET (1..n)
    PROVE  /\ Latest(S) \in S \union {0}
           /\ \A i \in S : i <= Latest(S)
           /\ Latest(S) = 0 => S = {}
<1> DEFINE T == S \union {0}
           D == {n - i : i \in T}
<1>1. \A i \in T : i \in Nat /\ i <= n /\ n - i \in Nat /\ n - i \in D
  OBVIOUS
<1>2. D \subseteq Nat /\ D # {}
  BY <1>1
<1>3. PICK x \in D : \A y \in D : ~(<<y, x>> \in OpToRel(<, Nat))
  BY <1>2, NatLessThanWellFounded, WFMin
<1>4. \A y \in D : ~(y < x)
  BY <1>2, <1>3 DEF OpToRel
<1>5. PICK m \in T : x = n - m
  OBVIOUS
<1> HIDE DEF D, T
<1>6. \A i \in T : m >= i
  BY <1>1, <1>4, <1>5
<1>7. Max(T) \in T /\ \A i \in T : Max(T) >= i
  BY <1>6 DEF Max
<1> QED
  BY <1>1, <1>7 DEF Latest, T

\* The view holds documents.
LEMMA ViewType ==
    ASSUME NEW docs \in Contents, NEW writes \in Seq(WriteType)
    PROVE  View(docs, writes) \in Contents
<1> SUFFICES ASSUME NEW d \in Doc PROVE View(docs, writes)[d] \in MaybeContent
  BY DEF View, Contents
<1> DEFINE own == {i \in DOMAIN writes : writes[i].doc = d}
           whole == {i \in own : writes[i].op # "update"}
           start == Latest(whole)
           base == IF start = 0 THEN docs[d] ELSE writes[start].data
           patches(f) == {i \in own : i > start /\ writes[i].data[f] # NoValue}
<1>1. Len(writes) \in Nat /\ DOMAIN writes = 1..Len(writes)
  OBVIOUS
<1>2. \A i \in DOMAIN writes : writes[i] \in WriteType
  OBVIOUS
<1>3. start \in whole \union {0} /\ \A i \in whole : i <= start
  <2>1. whole \in SUBSET (1..Len(writes))
    BY <1>1
  <2> QED
    BY <1>1, <2>1, LatestOf
<1>4. base \in MaybeContent
  <2>1. CASE start = 0
    BY <2>1 DEF Contents
  <2>2. CASE start # 0
    BY <1>2, <1>3, <2>2 DEF WriteType, MaybeContent
  <2> QED
    BY <2>1, <2>2
<1> HIDE DEF base
<1>5. ASSUME NEW f \in Field
      PROVE  Latest(patches(f)) # 0 =>
                writes[Latest(patches(f))].data[f] \in Value \union {NoValue}
  <2>1. patches(f) \in SUBSET (1..Len(writes))
    BY <1>1
  <2>2. Latest(patches(f)) \in patches(f) \union {0}
    BY <1>1, <2>1, LatestOf
  <2>3. \A i \in patches(f) : writes[i].op = "update"
    <3>1. start \in Nat
      BY <1>1, <1>3
    <3> HIDE DEF start
    <3> QED
      BY <1>1, <1>3, <3>1
  <2>4. \A i \in patches(f) : writes[i].data \in Content
    BY <1>2, <2>3, PatchAssumption DEF WriteType
  <2> QED
    BY <2>2, <2>4 DEF Content
<1>6. View(docs, writes)[d] =
         IF base = Absent THEN Absent
         ELSE [f \in Field |-> IF Latest(patches(f)) = 0 THEN base[f]
                               ELSE writes[Latest(patches(f))].data[f]]
  BY DEF View, base
<1> HIDE DEF patches
<1> QED
  BY <1>4, <1>5, <1>6 DEF MaybeContent, Content

\* What a listener on k reports on: its document, there or not, or the results.
Reported(k, v) == IF k.kind = "doc" THEN {k.doc} ELSE Results(k, v)

\* A key is about documents, and reports on those.
LEMMA KeyCovers ==
    ASSUME NEW k \in Key
    PROVE  /\ Covers(k) \subseteq Doc
           /\ \A v \in Contents : Results(k, v) \subseteq Reported(k, v)
                                  /\ Reported(k, v) \subseteq Covers(k)
<1>1. k \in DocKey \/ k \in QueryKey
  BY KeyAssumption
<1>2. CASE k \in DocKey
  BY <1>2 DEF DocKey, Covers, Reported, Results
<1>3. CASE k \in QueryKey
  <2>1. k.kind = "query" /\ k.docs \subseteq Doc
    BY <1>3 DEF QueryKey
  <2>2. \A v : Results(k, v) \subseteq k.docs
    BY <2>1 DEF Results
  <2> QED
    BY <2>1, <2>2 DEF Covers, Reported
<1> QED
  BY <1>1, <1>2, <1>3

\* A function from documents to contents is a set of changes.
LEMMA ChangesTyped ==
    ASSUME NEW docs \in SUBSET Doc, NEW changes \in [docs -> MaybeContent]
    PROVE  changes \in ChangesType
BY DEF ChangesType

\* What a listener is sent when the view changes brings what it reports on up
\* to date.
LEMMA ChangesOf ==
    ASSUME NEW k \in Key, NEW v \in Contents, NEW w \in Contents
    PROVE  /\ Changes(k, v, w) \in ChangesType
           /\ DOMAIN Changes(k, v, w) \subseteq Covers(k)
           /\ \A d \in Reported(k, w) :
                 IF d \in DOMAIN Changes(k, v, w) THEN Changes(k, v, w)[d] = w[d]
                 ELSE v[d] = w[d] /\ d \in Reported(k, v)
<1> DEFINE R(x) == Results(k, x)
           upserts == {d \in R(w) : d \notin R(v) \/ v[d] # w[d]}
           docs == upserts \union (R(v) \ R(w))
           changes == [d \in docs |-> IF d \in upserts THEN w[d] ELSE Absent]
<1>1. Changes(k, v, w) = changes
  BY DEF Changes
<1>2. /\ Covers(k) \subseteq Doc /\ R(v) \subseteq Covers(k) /\ R(w) \subseteq Covers(k)
      /\ Reported(k, w) \subseteq Doc
  BY KeyCovers
<1>3. k.kind = "doc" => \A x : R(x) = {k.doc} \cap {d \in Doc : x[d] # Absent}
  BY DEF Results
<1>4. k.kind # "doc" => \A x : R(x) = Reported(k, x)
  BY DEF Reported
<1>5. k.kind = "doc" => \A x : Reported(k, x) = {k.doc}
  BY DEF Reported
<1> HIDE DEF R
<1>6. docs \in SUBSET Doc /\ docs \subseteq Covers(k)
  BY <1>2
<1>7. changes \in [docs -> MaybeContent]
  BY <1>6 DEF MaybeContent, Contents
<1>8. changes \in ChangesType
  BY <1>6, <1>7, ChangesTyped
<1>9. \A d \in Reported(k, w) : d \in docs => changes[d] = w[d]
  BY <1>2, <1>3, <1>4, <1>5
<1>10. \A d \in Reported(k, w) : d \notin docs => v[d] = w[d] /\ d \in Reported(k, v)
  BY <1>2, <1>3, <1>4, <1>5
<1> QED
  BY <1>1, <1>6, <1>8, <1>9, <1>10

\* The first snapshot brings all of it.
LEMMA FirstSnapshotOf ==
    ASSUME NEW k \in Key, NEW v \in Contents
    PROVE  /\ FirstSnapshot(k, v) \in ChangesType
           /\ DOMAIN FirstSnapshot(k, v) \subseteq Covers(k)
           /\ Reported(k, v) \subseteq DOMAIN FirstSnapshot(k, v)
           /\ \A d \in DOMAIN FirstSnapshot(k, v) : FirstSnapshot(k, v)[d] = v[d]
<1>1. Reported(k, v) \in SUBSET Doc /\ Reported(k, v) \subseteq Covers(k)
  BY KeyCovers
<1>2. FirstSnapshot(k, v) = [d \in Reported(k, v) |-> v[d]]
  BY DEF FirstSnapshot, Reported
<1>3. FirstSnapshot(k, v) \in [Reported(k, v) -> MaybeContent]
  BY <1>1, <1>2 DEF Contents
<1> QED
  BY <1>1, <1>2, <1>3, ChangesTyped

\* Messages that are sent on behalf of live subscriptions.
LEMMA SendTyped ==
    ASSUME DataInv, NEW new \in Seq(Message), channel' = channel \o new,
           live \subseteq live', \A i \in DOMAIN new : From(new[i], live')
    PROVE  /\ channel' \in Seq(Message)
           /\ \A i \in DOMAIN channel' : From(channel'[i], live')
<1>1. channel \in Seq(Message) /\ \A i \in DOMAIN channel : From(channel[i], live')
  BY DEF DataInv, From
<1>2. /\ channel' \in Seq(Message)
      /\ \A i \in DOMAIN channel' : \/ i \in DOMAIN channel /\ channel'[i] = channel[i]
                                    \/ \E j \in DOMAIN new : channel'[i] = new[j]
  <2>1. \A i \in 1..(Len(channel) + Len(new)) : i > Len(channel) => i - Len(channel) \in 1..Len(new)
    BY <1>1
  <2> QED
    BY <1>1, <2>1
<1> QED
  BY <1>1, <1>2

\* Every live subscription whose results changed is sent its changes, and
\* nobody else anything.
LEMMA NotifySends ==
    ASSUME Inv, DataInv, NEW v \in Contents, NEW w \in Contents, Notify(v, w)
    PROVE  \E new \in Seq(Message) :
              /\ channel' = channel \o new
              /\ \A i \in DOMAIN new :
                    \E s \in live : new[i] = Snapshot(s, Changes(s[1], v, w))
              /\ \A s \in live : DOMAIN Changes(s[1], v, w) # {} =>
                    \E i \in DOMAIN new : new[i] = Snapshot(s, Changes(s[1], v, w))
<1> DEFINE told == {s \in live : DOMAIN Changes(s[1], v, w) # {}}
           n == Cardinality(told)
<1>1. PICK order \in SetToSeqs(told) :
         channel' = channel \o [i \in DOMAIN order |->
                       Snapshot(order[i], Changes(order[i][1], v, w))]
  BY DEF Notify
<1>2. IsFiniteSet(told) /\ n \in Nat
  BY FS_Subset, FS_CardinalityType DEF Inv, ListenersTyped
<1> HIDE DEF told
<1>3. order \in [1..n -> told] /\ \A i, j \in 1..n : i # j => order[i] # order[j]
  BY DEF SetToSeqs
<1>4. \A s \in told : \E i \in 1..n : order[i] = s
  <2>1. order \in Injection(1..n, told)
    BY <1>3 DEF Injection, IsInjective
  <2>2. Cardinality(1..n) = n
    BY <1>2, FS_Interval
  <2>3. order \in Surjection(1..n, told)
    BY <1>2, <2>1, <2>2, FS_Injection
  <2> QED
    BY <2>3 DEF Surjection
<1> DEFINE new == [i \in 1..n |-> Snapshot(order[i], Changes(order[i][1], v, w))]
<1>5. \A s \in live : s \in Sub /\ s[1] \in Key
  BY DEF Inv, ListenersTyped, Sub
<1>6. \A s \in live : Snapshot(s, Changes(s[1], v, w)) \in Message
  BY <1>5, ChangesOf DEF Snapshot, Message
<1>7. told \subseteq live /\ \A s \in live : DOMAIN Changes(s[1], v, w) # {} => s \in told
  BY DEF told
<1>8. new \in Seq(Message)
  BY <1>2, <1>3, <1>6, <1>7
<1>9. channel' = channel \o new /\ DOMAIN new = 1..n
  BY <1>1, <1>3
<1> WITNESS new \in Seq(Message)
<1> QED
  BY <1>3, <1>4, <1>7, <1>9

\* Such snapshots are of live subscriptions.
LEMMA NotifyTyped ==
    ASSUME Inv, DataInv, NEW v \in Contents, NEW w \in Contents, Notify(v, w), live' = live
    PROVE  /\ channel' \in Seq(Message)
           /\ \A i \in DOMAIN channel' : From(channel'[i], live')
<1>1. PICK new \in Seq(Message) :
         /\ channel' = channel \o new
         /\ \A i \in DOMAIN new : \E s \in live : new[i] = Snapshot(s, Changes(s[1], v, w))
  BY NotifySends
<1>2. \A s \in live : s[1] \in Key
  BY DEF Inv, ListenersTyped, Sub
<1>3. \A s \in live : From(Snapshot(s, Changes(s[1], v, w)), live')
  BY <1>2, ChangesOf DEF From, Snapshot
<1> QED
  BY <1>1, <1>3, SendTyped

\* One message is sent.
LEMMA AppendTyped ==
    ASSUME DataInv, NEW m \in Message, channel' = Append(channel, m),
           live \subseteq live', From(m, live')
    PROVE  /\ channel' \in Seq(Message)
           /\ \A i \in DOMAIN channel' : From(channel'[i], live')
<1>1. <<m>> \in Seq(Message) /\ channel' = channel \o <<m>>
  BY DEF DataInv
<1>2. \A i \in DOMAIN <<m>> : From(<<m>>[i], live')
  OBVIOUS
<1> QED
  BY <1>1, <1>2, SendTyped

\* An answer is a message.
LEMMA AnswerTyped ==
    ASSUME NEW kind \in {"write", "read"}, NEW changes \in ChangesType
    PROVE  Answer(kind, changes) \in Message /\ From(Answer(kind, changes), live')
BY DEF Answer, Message, From

\* A write makes documents of documents.
LEMMA ApplyType ==
    ASSUME NEW w \in WriteType, NEW c \in MaybeContent
    PROVE  Apply(w, c) \in MaybeContent
<1>1. CASE w \in [doc : Doc, op : {"set"}, data : Content]
  BY <1>1 DEF Apply, MaybeContent
<1>2. CASE w \in [doc : Doc, op : {"delete"}, data : {Absent}]
  BY <1>2 DEF Apply, MaybeContent
<1>3. CASE w \in [doc : Doc, op : {"update"}, data : Patch]
  <2>1. w.op = "update" /\ w.data \in Content
    BY <1>3, PatchAssumption
  <2> QED
    BY <2>1 DEF Apply, MaybeContent, Content
<1> QED
  BY <1>1, <1>2, <1>3 DEF WriteType

\* What is kept of the channel when subscriptions are cancelled.
LEMMA UndeliverKeeps ==
    ASSUME DataInv, NEW gone, Undeliver(gone)
    PROVE  \E order :
              /\ DOMAIN channel' = 1..Len(channel') /\ Len(channel') \in Nat
              /\ channel' \in Seq(Message)
              /\ \A i \in DOMAIN channel' :
                    /\ order[i] \in DOMAIN channel /\ channel'[i] = channel[order[i]]
                    /\ channel'[i].from \notin gone
              /\ \A i, j \in DOMAIN channel' : i < j => order[i] < order[j]
              /\ \A n \in DOMAIN channel : channel[n].from \notin gone =>
                    \E i \in DOMAIN channel' : order[i] = n
<1> DEFINE kept == {i \in DOMAIN channel : channel[i].from \notin gone}
           n == Cardinality(kept)
<1>0. CASE kept = DOMAIN channel
  <2> DEFINE order == [i \in DOMAIN channel |-> i]
  <2>1. channel' = channel /\ channel \in Seq(Message)
    BY <1>0 DEF Undeliver, DataInv
  <2>2. /\ DOMAIN channel = 1..Len(channel) /\ Len(channel) \in Nat
        /\ \A i \in DOMAIN channel : order[i] = i /\ channel[i].from \notin gone
    BY <1>0, <2>1
  <2> WITNESS order
  <2> HIDE DEF order
  <2> QED
    BY <2>1, <2>2
<1> SUFFICES ASSUME kept # DOMAIN channel
             PROVE  \E order :
              /\ DOMAIN channel' = 1..Len(channel') /\ Len(channel') \in Nat
              /\ channel' \in Seq(Message)
              /\ \A i \in DOMAIN channel' :
                    /\ order[i] \in DOMAIN channel /\ channel'[i] = channel[order[i]]
                    /\ channel'[i].from \notin gone
              /\ \A i, j \in DOMAIN channel' : i < j => order[i] < order[j]
              /\ \A m \in DOMAIN channel : channel[m].from \notin gone =>
                    \E i \in DOMAIN channel' : order[i] = m
  BY <1>0
<1>1. PICK order \in [1..n -> kept] :
         /\ \A i, j \in 1..n : i < j => order[i] < order[j]
         /\ \A m \in kept : \E i \in 1..n : order[i] = m
         /\ channel' = [i \in 1..n |-> channel[order[i]]]
  <2>1. \E order \in [1..n -> kept] :
           /\ \A i, j \in DOMAIN order : i < j => order[i] < order[j]
           /\ \A m \in kept : \E i \in DOMAIN order : order[i] = m
           /\ channel' = [i \in DOMAIN order |-> channel[order[i]]]
    BY Zenon DEF Undeliver
  <2> HIDE DEF n, kept
  <2> QED
    BY <2>1
<1>2. channel \in Seq(Message) /\ Len(channel) \in Nat /\ DOMAIN channel = 1..Len(channel)
  BY DEF DataInv
<1>3. n \in Nat
  <2>1. IsFiniteSet(1..Len(channel))
    BY <1>2, FS_Interval
  <2>2. kept \in SUBSET (1..Len(channel))
    BY <1>2
  <2> QED
    BY <2>1, <2>2, FS_Subset, FS_CardinalityType
<1>4. \A i \in kept : channel[i] \in Message
  BY <1>2
<1>5. \A m \in DOMAIN channel : channel[m].from \notin gone <=> m \in kept
  OBVIOUS
<1>6. kept \subseteq DOMAIN channel
  OBVIOUS
<1> HIDE DEF kept, n
<1>7. channel' \in Seq(Message) /\ DOMAIN channel' = 1..n /\ Len(channel') = n
  BY <1>1, <1>3, <1>4
<1>8. \A i \in 1..n : channel'[i] = channel[order[i]] /\ order[i] \in kept
  BY <1>1
<1> QED
  BY <1>1, <1>3, <1>5, <1>6, <1>7, <1>8

\* What is kept comes from the subscriptions that are left.
LEMMA UndeliverTyped ==
    ASSUME DataInv, NEW gone, Undeliver(gone), live' = live \ gone
    PROVE  /\ channel' \in Seq(Message)
           /\ \A i \in DOMAIN channel' : From(channel'[i], live')
<1>1. PICK order : \A i \in DOMAIN channel' :
         /\ order[i] \in DOMAIN channel /\ channel'[i] = channel[order[i]]
         /\ channel'[i].from \notin gone
  BY UndeliverKeeps
<1>2. \A i \in DOMAIN channel : From(channel[i], live)
  BY DEF DataInv
<1>3. \A i \in DOMAIN channel' : From(channel'[i], live')
  BY <1>1, <1>2 DEF From
<1> QED
  BY <1>3, UndeliverKeeps

\* Nothing has been written, sent or stored.
LEMMA InitData == Init => DataInv
<1> SUFFICES ASSUME Init PROVE DataInv
  OBVIOUS
<1>1. remote \in Contents /\ local \in Contents /\ damaged = {}
  BY DataAssumption DEF Init, Contents, MaybeContent, Content
<1>2. pending \in Seq(WriteType) /\ channel \in Seq(Message) /\ DOMAIN channel = {}
  BY DEF Init
<1> QED
  BY <1>1, <1>2, MaxOpsAssumption DEF Init, DataInv

\* The view changes: the listeners hear of it, and only documents are damaged.
LEMMA ChangedTyped ==
    ASSUME Inv, DataInv, NEW docs \in Contents, NEW writes \in Seq(WriteType),
           Changed(docs, writes), live' = live
    PROVE  /\ channel' \in Seq(Message) /\ damaged' \subseteq Doc
           /\ \A i \in DOMAIN channel' : From(channel'[i], live')
<1> DEFINE v == View(remote, pending)
           w == View(docs, writes)
<1>1. v \in Contents /\ w \in Contents /\ Notify(v, w) /\ Damage(v, w, writes)
  BY ViewType DEF DataInv, Changed
<1> HIDE DEF v, w
<1>2. /\ channel' \in Seq(Message)
      /\ \A i \in DOMAIN channel' : From(channel'[i], live')
  BY <1>1, NotifyTyped
<1>3. Careless(writes) \subseteq Doc
  <2>1. \A i \in DOMAIN writes : writes[i] \in WriteType
    OBVIOUS
  <2>2. \A i \in DOMAIN writes : writes[i].doc \in Doc
    BY <2>1 DEF WriteType
  <2> QED
    BY <2>2 DEF Careless
<1>4. Dropped(v, w) \subseteq Doc
  <2>1. \A t \in Registered(Key) : t[1] \in Key
    BY RegisteredSubs
  <2>2. \A t \in Registered(Key) : Results(t[1], w) \subseteq Doc
    BY <1>1, <2>1, KeyCovers
  <2> QED
    BY <2>2 DEF Dropped
<1> QED
  BY <1>1, <1>2, <1>3, <1>4 DEF Damage, DataInv

\* A write begins.
LEMMA IssueData ==
    ASSUME Inv, DataInv, NEW w \in WriteType, Issue(w)
    PROVE  DataInv'
<1>1. /\ pending' \in Seq(WriteType) /\ ops' \in 0..MaxOps
      /\ UNCHANGED <<remote, gets, local, live>>
  BY MaxOpsAssumption DEF Issue, DataInv, listeners
<1>2. /\ channel' \in Seq(Message) /\ damaged' \subseteq Doc
      /\ \A i \in DOMAIN channel' : From(channel'[i], live')
  BY <1>1, ChangedTyped DEF Issue, DataInv
<1> QED
  BY <1>1, <1>2 DEF DataInv

\* The server takes a write or refuses it.
LEMMA AnswerData ==
    ASSUME Inv, DataInv, Commit \/ Reject
    PROVE  DataInv'
<1>1. /\ pending' \in Seq(WriteType) /\ Head(pending) \in WriteType
      /\ UNCHANGED <<gets, local, live, ops>>
  <2>1. pending # <<>> /\ pending' = Tail(pending) /\ UNCHANGED <<gets, local, live, ops>>
    BY DEF Commit, Reject, listeners
  <2> QED
    BY <2>1 DEF DataInv
<1>2. CASE Commit
  <2> DEFINE w == Head(pending)
  <2>1. /\ w.doc \in Doc /\ w.data \in MaybeContent
    BY <1>1, PatchAssumption DEF WriteType, MaybeContent
  <2>2. Apply(w, remote[w.doc]) \in MaybeContent
    BY <1>1, <2>1, ApplyType DEF DataInv, Contents
  <2>3. remote' \in Contents
    BY <1>2, <2>1, <2>2 DEF Commit, DataInv, Contents
  <2>4. AfterWrite(w) \in ChangesType
    <3>1. {w.doc} \in SUBSET Doc /\ AfterWrite(w) \in [{w.doc} -> MaybeContent]
      BY <2>1 DEF AfterWrite
    <3> QED
      BY <3>1, ChangesTyped
  <2>5. /\ channel' \in Seq(Message)
        /\ \A i \in DOMAIN channel' : From(channel'[i], live')
    BY <1>1, <1>2, <2>4, AnswerTyped, AppendTyped DEF Commit
  <2>6. damaged' = damaged
    BY <1>2 DEF Commit
  <2> QED
    BY <1>1, <2>3, <2>5, <2>6 DEF DataInv
<1>3. CASE Reject
  <2>1. /\ channel' \in Seq(Message) /\ remote' = remote /\ damaged' \subseteq Doc
        /\ \A i \in DOMAIN channel' : From(channel'[i], live')
    BY <1>1, <1>3, ChangedTyped DEF Reject, DataInv
  <2> QED
    BY <1>1, <2>1 DEF DataInv
<1> QED
  BY <1>2, <1>3

\* A read begins, returns or fails.
LEMMA GetData ==
    ASSUME Inv, DataInv, NEW k \in Key, Get(k) \/ GetReturns(k) \/ GetFails(k)
    PROVE  DataInv'
<1>1. /\ gets' \subseteq Key /\ ops' \in 0..MaxOps
      /\ UNCHANGED <<remote, pending, local, damaged, live>>
  BY MaxOpsAssumption DEF Get, GetReturns, GetFails, DataInv, listeners
<1>2. CASE Get(k) \/ GetFails(k)
  BY <1>1, <1>2 DEF Get, GetFails, DataInv
<1>3. CASE GetReturns(k)
  <2> DEFINE v == View(remote, pending)
             found == [d \in Results(k, v) |-> v[d]]
  <2>1. v \in Contents /\ Results(k, v) \in SUBSET Doc
    BY ViewType, KeyCovers DEF DataInv
  <2>2. channel' = Append(channel, Answer("read", found))
    BY <1>3 DEF GetReturns
  <2> HIDE DEF v
  <2>3. found \in [Results(k, v) -> MaybeContent]
    BY <2>1 DEF Contents
  <2>4. found \in ChangesType
    BY <2>1, <2>3, ChangesTyped
  <2> HIDE DEF found
  <2>5. /\ channel' \in Seq(Message)
        /\ \A i \in DOMAIN channel' : From(channel'[i], live')
    BY <1>1, <2>2, <2>4, AnswerTyped, AppendTyped
  <2> QED
    BY <1>1, <2>5 DEF DataInv
<1> QED
  BY <1>2, <1>3

\* Another client writes.
LEMMA OtherData ==
    ASSUME Inv, DataInv, NEW d \in Doc, NEW c \in {Absent} \union Data,
           OtherClientWrites(d, c)
    PROVE  DataInv'
<1>1. c \in MaybeContent
  BY DataAssumption DEF MaybeContent, Content
<1>2. /\ remote' \in Contents /\ ops' \in 0..MaxOps
      /\ UNCHANGED <<pending, gets, local, live>>
  BY <1>1, MaxOpsAssumption DEF OtherClientWrites, DataInv, Contents, listeners
<1>3. /\ channel' \in Seq(Message) /\ damaged' \subseteq Doc
      /\ \A i \in DOMAIN channel' : From(channel'[i], live')
  BY <1>2, ChangedTyped DEF OtherClientWrites, DataInv
<1> QED
  BY <1>2, <1>3 DEF DataInv

\* A handler runs.
LEMMA DeliverData ==
    ASSUME Inv, DataInv, Deliver
    PROVE  DataInv'
<1> DEFINE changes == channel[1].changes
<1>1. /\ channel # <<>> /\ channel' = Tail(channel)
      /\ local' = [d \in Doc |-> IF d \in DOMAIN changes THEN changes[d] ELSE local[d]]
      /\ UNCHANGED <<remote, pending, gets, damaged, live, ops>>
  BY DEF Deliver, server, listeners
<1>2. /\ channel' \in Seq(Message) /\ channel[1] \in Message
      /\ \A i \in DOMAIN channel' : i + 1 \in DOMAIN channel /\ channel'[i] = channel[i + 1]
  BY <1>1 DEF DataInv
<1>3. \A d \in DOMAIN changes : changes[d] \in MaybeContent
  BY <1>2 DEF Message, ChangesType
<1>4. local' \in Contents
  BY <1>1, <1>3 DEF DataInv, Contents
<1> QED
  BY <1>1, <1>2, <1>4 DEF DataInv

\* A stream is observed.
LEMMA ObserveData ==
    ASSUME Inv, DataInv, NEW o \in Observer, NEW k \in Key, Observe(o, k)
    PROVE  DataInv'
<1>1. ops' \in 0..MaxOps /\ UNCHANGED <<remote, pending, gets, local, damaged>>
  BY MaxOpsAssumption DEF Observe, DataInv, server
<1>2. CASE observed[k] # NoSub
  BY <1>1, <1>2 DEF Observe, DataInv
<1>3. CASE observed[k] = NoSub
  <2> DEFINE s == Fresh(k)
             first == FirstSnapshot(k, View(remote, pending))
  <2>1. live' = live \union {s} /\ channel' = Append(channel, Snapshot(s, first))
    BY <1>3 DEF Observe
  <2>2. s \in Sub /\ s[1] = k
    BY FreshIsNew
  <2>3. first \in ChangesType /\ DOMAIN first \subseteq Covers(k)
    BY ViewType, FirstSnapshotOf DEF DataInv
  <2> HIDE DEF s, first
  <2>4. Snapshot(s, first) \in Message /\ From(Snapshot(s, first), live')
    BY <2>1, <2>2, <2>3 DEF Snapshot, Message, From
  <2>5. /\ channel' \in Seq(Message)
        /\ \A i \in DOMAIN channel' : From(channel'[i], live')
    BY <2>1, <2>4, AppendTyped
  <2> QED
    BY <1>1, <2>5 DEF DataInv
<1> QED
  BY <1>2, <1>3

\* Subscriptions are cancelled.
LEMMA CancelData ==
    ASSUME DataInv, NEW gone, Undeliver(gone), live' = live \ gone,
           UNCHANGED <<remote, pending, gets, local, damaged>>, ops' \in 0..MaxOps
    PROVE  DataInv'
BY UndeliverTyped DEF DataInv

\* Realm is wiped, or not.
LEMMA WipeData ==
    ASSUME DataInv, NEW c, Wipe(c), UNCHANGED <<server, damaged>>, ops' \in 0..MaxOps
    PROVE  DataInv'
<1>1. local' \in Contents
  BY DEF Wipe, Contents, MaybeContent, DataInv
<1> QED
  BY <1>1 DEF Wipe, server, DataInv

\* Screens stop observing and users sign out.
LEMMA TeardownData ==
    ASSUME Inv, DataInv,
           \/ \E o \in Observer : StopObserving(o)
           \/ \E c \in SignOut : RemoveAllListeners(c) \/ TeardownContinues(c)
    PROVE  DataInv'
<1>1. ASSUME NEW o \in Observer, StopObserving(o) PROVE DataInv'
  BY <1>1, CancelData DEF StopObserving, server, DataInv
<1>2. ASSUME NEW c, NEW subs, NEW phase, CancelOneOf(c, subs, phase), local' = local,
             UNCHANGED <<server, damaged>>, ops' \in 0..MaxOps
      PROVE  DataInv'
  BY <1>2, CancelData DEF CancelOneOf, server
<1>3. ASSUME NEW c, RemoveCollections(c), UNCHANGED <<server, damaged>>, ops' \in 0..MaxOps
      PROVE  DataInv'
  BY <1>2, <1>3, WipeData DEF RemoveCollections
<1>4. ASSUME NEW c \in SignOut, RemoveAllListeners(c) PROVE DataInv'
  <2>1. UNCHANGED <<server, damaged>> /\ ops' \in 0..MaxOps
    BY <1>4, MaxOpsAssumption DEF RemoveAllListeners, DataInv
  <2> QED
    BY <1>2, <1>3, <1>4, <2>1 DEF RemoveAllListeners
<1>5. ASSUME NEW c \in SignOut, TeardownContinues(c) PROVE DataInv'
  <2>1. UNCHANGED <<server, damaged>> /\ ops' \in 0..MaxOps
    BY <1>5 DEF TeardownContinues, DataInv
  <2> QED
    BY <1>2, <1>3, <1>5, <2>1, WipeData DEF TeardownContinues
<1> QED
  BY <1>1, <1>4, <1>5

\* The writes that are begun.
LEMMA WritesTyped ==
    ASSUME NEW d \in Doc
    PROVE  /\ \A c \in Data : Write("set", d, c) \in WriteType
           /\ \A p \in Patch : Write("update", d, p) \in WriteType
           /\ Write("delete", d, Absent) \in WriteType
<1>1. Data \subseteq Content
  BY DataAssumption DEF Content
<1> QED
  BY <1>1 DEF Write, WriteType

\* Every step keeps the invariant of the data.
LEMMA NextData ==
    ASSUME Inv, DataInv, [Next]_vars
    PROVE  DataInv'
<1>1. ASSUME NEW d \in Doc, NEW c \in Data, CreateDoc(d, c) PROVE DataInv'
  BY <1>1, WritesTyped, IssueData DEF CreateDoc
<1>2. ASSUME NEW d \in Doc, NEW p \in Patch, UpdateDoc(d, p) PROVE DataInv'
  BY <1>2, WritesTyped, IssueData DEF UpdateDoc
<1>3. ASSUME NEW d \in Doc, DeleteDoc(d) PROVE DataInv'
  BY <1>3, WritesTyped, IssueData DEF DeleteDoc
<1>4. CASE UNCHANGED vars
  BY <1>4 DEF vars, DataInv
<1> QED
  BY <1>1, <1>2, <1>3, <1>4, AnswerData, GetData, OtherData, DeliverData, ObserveData,
     TeardownData DEF Next

\* The invariants hold of every behaviour of the service.
LEMMA AlwaysData == Spec => [](Inv /\ DataInv)
<1>1. Inv /\ DataInv /\ [Next]_vars => (Inv /\ DataInv)'
  BY NextInv, NextData
<1> QED
  BY <1>1, InitInv, InitData, PTL DEF Spec

\* Types of the service and of what is on its way: a message is an answer or comes
\* from a subscription that has not been cancelled.
THEOREM TypeCorrect == Spec => []TypeOK
<1>1. Inv /\ DataInv => TypeOK
  <2> SUFFICES ASSUME Inv, DataInv PROVE TypeOK
    OBVIOUS
  <2>1. \A i \in DOMAIN pending : pending[i].doc \in Doc
    <3>1. \A i \in DOMAIN pending : pending[i] \in WriteType
      BY DEF DataInv
    <3> QED
      BY <3>1 DEF WriteType
  <2>2. \A i \in DOMAIN channel : channel[i].from \in live \union {NoSub}
    BY DEF DataInv, From
  <2> QED
    BY <2>1, <2>2 DEF TypeOK, Inv, ListenersTyped, DataInv, Contents
<1> QED
  BY <1>1, AlwaysData, PTL

-----------------------------------------------------------------------------
(* What Realm ends up with.                                                *)

\* The copy of d will be c: a message that says otherwise is followed by a
\* snapshot of subscription s about d, and so is a copy that is not c.
Settles(s, d, c, messages, copies) ==
    LET own == {i \in DOMAIN messages : /\ messages[i].from = s
                                        /\ d \in DOMAIN messages[i].changes}
    IN /\ \A i \in DOMAIN messages :
             d \in DOMAIN messages[i].changes /\ messages[i].changes[d] # c
                => \E j \in own : j > i
       /\ copies[d] # c => own # {}

\* What a listener reports on settles as the SDK sees it.
Coherent(k) ==
    LET v == View(remote, pending)
    IN \A d \in Reported(k, v) \ damaged : Settles(observed[k], d, v[d], channel, local)

\* The invariant of the copies.
CopyInv == Careless(pending) \subseteq damaged /\ \A k \in Key : Watched(k) => Coherent(k)

\* New messages about d that agree leave it settled, and one of s settles it.
LEMMA SendSettles ==
    ASSUME DataInv, NEW new \in Seq(Message), NEW s, NEW d, NEW c,
           channel' = channel \o new, local' = local,
           \A i \in DOMAIN new : d \in DOMAIN new[i].changes => new[i].changes[d] = c,
           \/ \E i \in DOMAIN new : new[i].from = s /\ d \in DOMAIN new[i].changes
           \/ Settles(s, d, c, channel, local)
    PROVE  Settles(s, d, c, channel', local')
<1>1. /\ channel \in Seq(Message) /\ Len(channel) \in Nat /\ Len(new) \in Nat
      /\ DOMAIN channel = 1..Len(channel) /\ DOMAIN new = 1..Len(new)
  BY DEF DataInv
<1>2. /\ DOMAIN channel' = 1..(Len(channel) + Len(new))
      /\ \A i \in DOMAIN channel : i \in DOMAIN channel' /\ channel'[i] = channel[i]
      /\ \A i \in DOMAIN new : /\ Len(channel) + i \in DOMAIN channel'
                               /\ channel'[Len(channel) + i] = new[i]
  BY <1>1
<1>3. \A i \in DOMAIN channel' : i \notin DOMAIN channel =>
         i - Len(channel) \in DOMAIN new /\ channel'[i] = new[i - Len(channel)]
  <2>1. \A i \in DOMAIN channel' : i \notin DOMAIN channel =>
           i - Len(channel) \in DOMAIN new /\ i = Len(channel) + (i - Len(channel))
    BY <1>1, <1>2
  <2> QED
    BY <1>2, <2>1
<1>4. \A i \in DOMAIN channel' :
         d \in DOMAIN channel'[i].changes /\ channel'[i].changes[d] # c =>
            i \in DOMAIN channel
  BY <1>3
<1>5. CASE \E i \in DOMAIN new : new[i].from = s /\ d \in DOMAIN new[i].changes
  <2>1. PICK i \in DOMAIN new : new[i].from = s /\ d \in DOMAIN new[i].changes
    BY <1>5
  <2> DEFINE j == Len(channel) + i
  <2>2. j \in DOMAIN channel' /\ channel'[j] = new[i] /\ \A n \in DOMAIN channel : j > n
    BY <1>1, <1>2
  <2> QED
    BY <1>2, <1>4, <2>1, <2>2 DEF Settles
<1>6. CASE Settles(s, d, c, channel, local)
  BY <1>2, <1>4, <1>6 DEF Settles
<1> QED
  BY <1>5, <1>6

\* One message.
LEMMA AppendSettles ==
    ASSUME DataInv, NEW m \in Message, NEW s, NEW d, NEW c,
           channel' = Append(channel, m), local' = local,
           d \in DOMAIN m.changes => m.changes[d] = c,
           \/ m.from = s /\ d \in DOMAIN m.changes
           \/ Settles(s, d, c, channel, local)
    PROVE  Settles(s, d, c, channel', local')
<1>1. <<m>> \in Seq(Message) /\ channel' = channel \o <<m>>
  BY DEF DataInv
<1>2. 1 \in DOMAIN <<m>> /\ <<m>>[1] = m /\ \A i \in DOMAIN <<m>> : <<m>>[i] = m
  OBVIOUS
<1> QED
  BY <1>1, <1>2, SendSettles

\* The snapshots of cancelled subscriptions are not missed, those of s are kept.
LEMMA UndeliverSettles ==
    ASSUME DataInv, NEW gone, Undeliver(gone), local' = local, NEW s, NEW d, NEW c,
           s \notin gone, Settles(s, d, c, channel, local)
    PROVE  Settles(s, d, c, channel', local')
<1>1. PICK order :
         /\ DOMAIN channel' = 1..Len(channel') /\ Len(channel') \in Nat
         /\ \A i \in DOMAIN channel' : /\ order[i] \in DOMAIN channel
                                       /\ channel'[i] = channel[order[i]]
         /\ \A i, j \in DOMAIN channel' : i < j => order[i] < order[j]
         /\ \A n \in DOMAIN channel : channel[n].from \notin gone =>
               \E i \in DOMAIN channel' : order[i] = n
  BY UndeliverKeeps
<1>2. DOMAIN channel \subseteq Nat
  BY DEF DataInv
<1>3. \A n \in DOMAIN channel : channel[n].from = s =>
         \E i \in DOMAIN channel' : order[i] = n /\ channel'[i] = channel[n]
  BY <1>1
<1>4. ASSUME NEW i \in DOMAIN channel', d \in DOMAIN channel'[i].changes,
             channel'[i].changes[d] # c
      PROVE  \E j \in DOMAIN channel' : /\ channel'[j].from = s /\ j > i
                                        /\ d \in DOMAIN channel'[j].changes
  <2>1. PICK n \in DOMAIN channel : /\ channel[n].from = s /\ n > order[i]
                                    /\ d \in DOMAIN channel[n].changes
    BY <1>1, <1>4 DEF Settles
  <2>2. PICK j \in DOMAIN channel' : order[j] = n /\ channel'[j] = channel[n]
    BY <1>3, <2>1
  <2>3. ~(j < i) /\ j # i
    BY <1>1, <1>2, <2>1, <2>2
  <2>4. j > i
    BY <1>1, <2>3
  <2> QED
    BY <2>1, <2>2, <2>4
<1>5. ASSUME local'[d] # c
      PROVE  \E j \in DOMAIN channel' : channel'[j].from = s /\ d \in DOMAIN channel'[j].changes
  BY <1>3, <1>5 DEF Settles
<1> QED
  BY <1>4, <1>5 DEF Settles

\* Handling a message settles nothing otherwise.
LEMMA DeliverSettles ==
    ASSUME DataInv, Deliver, NEW s, NEW d \in Doc, NEW c, Settles(s, d, c, channel, local)
    PROVE  Settles(s, d, c, channel', local')
<1> DEFINE changes == channel[1].changes
<1>1. /\ channel # <<>> /\ channel' = Tail(channel)
      /\ local' = [e \in Doc |-> IF e \in DOMAIN changes THEN changes[e] ELSE local[e]]
  BY DEF Deliver
<1>2. /\ channel \in Seq(Message) /\ Len(channel) \in Nat /\ Len(channel) > 0
      /\ DOMAIN channel = 1..Len(channel)
  BY <1>1 DEF DataInv
<1>3. /\ DOMAIN channel' = 1..(Len(channel) - 1)
      /\ \A i \in DOMAIN channel' : i + 1 \in DOMAIN channel /\ channel'[i] = channel[i + 1]
  BY <1>1, <1>2
<1>4. \A i \in DOMAIN channel : i # 1 => /\ i - 1 \in DOMAIN channel'
                                         /\ channel'[i - 1] = channel[i]
  <2>1. \A i \in DOMAIN channel : i # 1 => i - 1 \in DOMAIN channel' /\ (i - 1) + 1 = i
    BY <1>2, <1>3
  <2> QED
    BY <1>3, <2>1
<1>5. ASSUME NEW i \in DOMAIN channel', d \in DOMAIN channel'[i].changes,
             channel'[i].changes[d] # c
      PROVE  \E j \in DOMAIN channel' : /\ channel'[j].from = s /\ j > i
                                        /\ d \in DOMAIN channel'[j].changes
  <2>1. PICK n \in DOMAIN channel : /\ channel[n].from = s /\ n > i + 1
                                    /\ d \in DOMAIN channel[n].changes
    BY <1>3, <1>5 DEF Settles
  <2>2. n # 1 /\ n - 1 > i
    BY <1>2, <1>3, <2>1
  <2> QED
    BY <1>4, <2>1, <2>2
<1>6. ASSUME local'[d] # c
      PROVE  \E j \in DOMAIN channel' : channel'[j].from = s /\ d \in DOMAIN channel'[j].changes
  <2>1. PICK n \in DOMAIN channel : /\ n # 1 /\ channel[n].from = s
                                    /\ d \in DOMAIN channel[n].changes
    <3>1. CASE d \in DOMAIN changes
      <4>1. 1 \in DOMAIN channel /\ changes[d] # c
        BY <1>1, <1>2, <1>6, <3>1
      <4>2. \E n \in DOMAIN channel : /\ channel[n].from = s /\ n > 1
                                      /\ d \in DOMAIN channel[n].changes
        BY <3>1, <4>1 DEF Settles
      <4> QED
        BY <1>2, <4>2
    <3>2. CASE d \notin DOMAIN changes
      BY <1>1, <1>6, <3>2 DEF Settles
    <3> QED
      BY <3>1, <3>2
  <2> QED
    BY <1>4, <2>1
<1> QED
  BY <1>5, <1>6 DEF Settles

\* A change that is not the document as it now is drops it from the results.
LEMMA ChangesWrong ==
    ASSUME NEW k, NEW v, NEW w, NEW d \in DOMAIN Changes(k, v, w), Changes(k, v, w)[d] # w[d]
    PROVE  d \in Results(k, v) \ Results(k, w) /\ w[d] # Absent
<1> DEFINE upserts == {e \in Results(k, w) : e \notin Results(k, v) \/ v[e] # w[e]}
           removed == Results(k, v) \ Results(k, w)
<1>1. Changes(k, v, w) = [e \in upserts \union removed |-> IF e \in upserts THEN w[e] ELSE Absent]
  BY DEF Changes
<1>2. d \notin upserts /\ d \in removed /\ w[d] # Absent
  BY <1>1
<1> QED
  BY <1>2

\* A change of the view that is told to the listeners settles what they report on.
LEMMA NotifySettles ==
    ASSUME Inv, DataInv, NEW v \in Contents, NEW w \in Contents, Notify(v, w),
           local' = local, NEW k \in Key, observed[k] # NoSub,
           NEW d \in Reported(k, w), d \notin Dropped(v, w),
           d \in Reported(k, v) /\ v[d] = w[d]
              => Settles(observed[k], d, v[d], channel, local)
    PROVE  Settles(observed[k], d, w[d], channel', local')
<1> DEFINE s == observed[k]
<1>1. PICK new \in Seq(Message) :
         /\ channel' = channel \o new
         /\ \A i \in DOMAIN new : \E t \in live : new[i] = Snapshot(t, Changes(t[1], v, w))
         /\ \A t \in live : DOMAIN Changes(t[1], v, w) # {} =>
               \E i \in DOMAIN new : new[i] = Snapshot(t, Changes(t[1], v, w))
  BY NotifySends
<1>2. s \in live /\ s[1] = k /\ s \in Registered(Key)
  BY RegisteredSubs
<1>3. \A t, c : Snapshot(t, c).changes = c /\ Snapshot(t, c).from = t
  BY DEF Snapshot
<1> HIDE DEF s
<1>4. \A i \in DOMAIN new : d \in DOMAIN new[i].changes => new[i].changes[d] = w[d]
  <2> SUFFICES ASSUME NEW i \in DOMAIN new, d \in DOMAIN new[i].changes,
                      new[i].changes[d] # w[d]
               PROVE  FALSE
    OBVIOUS
  <2>1. PICK t \in live : new[i] = Snapshot(t, Changes(t[1], v, w))
    BY <1>1
  <2>2. d \in DOMAIN Changes(t[1], v, w) /\ Changes(t[1], v, w)[d] # w[d]
    BY <1>3, <2>1
  <2>3. d \in Results(t[1], v) \ Results(t[1], w) /\ w[d] # Absent
    BY <2>2, ChangesWrong
  <2>4. d \in Results(k, w)
    <3>1. d \in Doc
      BY KeyCovers
    <3> QED
      BY <2>3, <3>1 DEF Reported, Results
  <2> DEFINE lost(x, y) == (Results(x[1], v) \ Results(x[1], w)) \cap Results(y[1], w)
  <2>5. d \in lost(t, s)
    BY <1>2, <2>3, <2>4
  <2>6. lost(t, s) \in {lost(x, y) : x \in live, y \in Registered(Key)}
    BY <1>2
  <2>7. Dropped(v, w) = UNION {lost(x, y) : x \in live, y \in Registered(Key)}
    BY DEF Dropped
  <2> HIDE DEF lost
  <2> QED
    BY <2>5, <2>6, <2>7
<1>5. \/ \E i \in DOMAIN new : new[i].from = s /\ d \in DOMAIN new[i].changes
      \/ Settles(s, d, w[d], channel, local)
  <2>1. CASE d \in DOMAIN Changes(k, v, w)
    <3>1. DOMAIN Changes(s[1], v, w) # {}
      BY <1>2, <2>1
    <3>2. PICK i \in DOMAIN new : new[i] = Snapshot(s, Changes(s[1], v, w))
      BY <1>1, <1>2, <3>1
    <3>3. new[i].from = s /\ new[i].changes = Changes(k, v, w)
      BY <1>2, <1>3, <3>2
    <3> QED
      BY <2>1, <3>3
  <2>2. CASE d \notin DOMAIN Changes(k, v, w)
    BY <2>2, ChangesOf DEF s
  <2> QED
    BY <2>1, <2>2
<1>6. Settles(s, d, w[d], channel', local')
  BY <1>1, <1>4, <1>5, SendSettles
<1> QED
  BY <1>6 DEF s

\* Without a pending write of d the view has the server's document.
LEMMA ViewNone ==
    ASSUME NEW docs \in Contents, NEW writes \in Seq(WriteType), NEW d \in Doc,
           \A i \in DOMAIN writes : writes[i].doc # d
    PROVE  View(docs, writes)[d] = docs[d]
<1>1. Latest({}) = 0
  BY LatestOf
<1>2. docs[d] \in MaybeContent
  BY DEF Contents
<1>3. View(docs, writes)[d] = IF docs[d] = Absent THEN Absent
                              ELSE [f \in Field |-> docs[d][f]]
  <2>1. {i \in DOMAIN writes : writes[i].doc = d} = {}
    OBVIOUS
  <2> QED
    BY <1>1, <2>1 DEF View
<1> QED
  BY <1>2, <1>3 DEF MaybeContent, Content

\* With one, it has what the write makes of it.
LEMMA ViewOne ==
    ASSUME NEW docs \in Contents, NEW writes \in Seq(WriteType),
           NEW n \in DOMAIN writes,
           \A i \in DOMAIN writes : writes[i].doc = writes[n].doc => i = n
    PROVE  View(docs, writes)[writes[n].doc] = Apply(writes[n], docs[writes[n].doc])
<1> DEFINE w == writes[n]
           d == w.doc
           own == {i \in DOMAIN writes : writes[i].doc = d}
           start == Latest({i \in own : writes[i].op # "update"})
           base == IF start = 0 THEN docs[d] ELSE writes[start].data
           patches(f) == {i \in own : i > start /\ writes[i].data[f] # NoValue}
<1>1. w \in WriteType /\ d \in Doc /\ n \in Nat /\ n > 0 /\ n \in 1..Len(writes) /\ Len(writes) \in Nat
  BY DEF WriteType
<1>2. own = {n}
  OBVIOUS
<1>3. Latest({}) = 0 /\ Latest({n}) = n
  <2>1. {} \in SUBSET (1..Len(writes)) /\ {n} \in SUBSET (1..Len(writes))
    BY <1>1
  <2>2. Latest({}) \in {} \union {0}
    BY <1>1, <2>1, LatestOf
  <2>3. Latest({n}) \in {n} \union {0} /\ n <= Latest({n})
    BY <1>1, <2>1, LatestOf
  <2> QED
    BY <1>1, <2>2, <2>3
<1>4. View(docs, writes)[d] =
         IF base = Absent THEN Absent
         ELSE [f \in Field |-> IF Latest(patches(f)) = 0 THEN base[f]
                               ELSE writes[Latest(patches(f))].data[f]]
  BY <1>1 DEF View
<1>5. CASE w.op # "update"
  <2>1. start = n
    <3>1. {i \in own : writes[i].op # "update"} = {n}
      BY <1>2, <1>5
    <3> QED
      BY <1>3, <3>1
  <2>2. base = w.data /\ w.data \in MaybeContent
    BY <1>1, <1>5, <2>1 DEF WriteType, MaybeContent
  <2>3. \A f \in Field : Latest(patches(f)) = 0
    <3> HIDE DEF start, own
    <3>1. \A i \in own : ~(i > start)
      BY <1>1, <1>2, <2>1
    <3>2. \A f \in Field : patches(f) = {}
      BY <3>1
    <3> QED
      BY <1>3, <3>2
  <2>4. View(docs, writes)[d] = w.data
    <3> HIDE DEF base, patches, w
    <3> QED
      BY <1>4, <2>2, <2>3 DEF MaybeContent, Content
  <2>5. Apply(w, docs[d]) = w.data
    BY <1>1, <1>5 DEF Apply, WriteType
  <2> QED
    BY <2>4, <2>5
<1>6. CASE w.op = "update"
  <2>1. start = 0
    <3>1. {i \in own : writes[i].op # "update"} = {}
      BY <1>2, <1>6
    <3> QED
      BY <1>3, <3>1
  <2>2. base = docs[d]
    BY <2>1
  <2>3. \A f \in Field : Latest(patches(f)) = IF w.data[f] = NoValue THEN 0 ELSE n
    <3> SUFFICES ASSUME NEW f \in Field
                 PROVE  Latest(patches(f)) = IF w.data[f] = NoValue THEN 0 ELSE n
      OBVIOUS
    <3>1. patches(f) = IF w.data[f] = NoValue THEN {} ELSE {n}
      BY <1>1, <1>2, <2>1
    <3> QED
      BY <1>3, <3>1
  <2>4. View(docs, writes)[d] =
           IF docs[d] = Absent THEN Absent
           ELSE [f \in Field |-> IF w.data[f] = NoValue THEN docs[d][f] ELSE w.data[f]]
    <3>1. n # 0
      BY <1>1
    <3> HIDE DEF base, patches
    <3> QED
      BY <1>4, <2>2, <2>3, <3>1
  <2> QED
    BY <1>6, <2>4 DEF Apply
<1> QED
  BY <1>5, <1>6

\* The writes that replace d, and those after them that replace field f.
Whole(d, writes) == {i \in DOMAIN writes : writes[i].doc = d /\ writes[i].op # "update"}
Patches(d, f, writes) == {i \in DOMAIN writes : /\ writes[i].doc = d /\ writes[i].data[f] # NoValue
                                                /\ i > Latest(Whole(d, writes))}
Base(d, docs, writes) == LET start == Latest(Whole(d, writes))
                         IN IF start = 0 THEN docs[d] ELSE writes[start].data

\* The view in these terms.
LEMMA ViewOf ==
    ASSUME NEW docs, NEW writes, NEW d \in Doc
    PROVE  View(docs, writes)[d] =
              IF Base(d, docs, writes) = Absent THEN Absent
              ELSE [f \in Field |->
                      IF Latest(Patches(d, f, writes)) = 0 THEN Base(d, docs, writes)[f]
                      ELSE writes[Latest(Patches(d, f, writes))].data[f]]
<1> DEFINE own == {i \in DOMAIN writes : writes[i].doc = d}
           start == Latest({i \in own : writes[i].op # "update"})
           patches(f) == {i \in own : i > start /\ writes[i].data[f] # NoValue}
<1>1. {i \in own : writes[i].op # "update"} = Whole(d, writes)
  BY DEF Whole
<1>2. \A f : patches(f) = Patches(d, f, writes)
  BY <1>1 DEF Patches
<1>3. View(docs, writes)[d] =
         LET base == IF start = 0 THEN docs[d] ELSE writes[start].data
         IN IF base = Absent THEN Absent
            ELSE [f \in Field |-> IF Latest(patches(f)) = 0 THEN base[f]
                                  ELSE writes[Latest(patches(f))].data[f]]
  BY DEF View
<1> QED
  BY <1>1, <1>2, <1>3 DEF Base

\* Positions in the tail of a sequence.
LEMMA LatestTail ==
    ASSUME NEW n \in Nat, NEW S \in SUBSET (1..n), NEW T \in SUBSET (1..n),
           \A i \in 1..n : i \in T <=> i + 1 \in S
    PROVE  /\ Latest(T) = IF Latest(S) > 1 THEN Latest(S) - 1 ELSE 0
           /\ Latest(S) \in 0..n
<1>1. /\ Latest(S) \in S \union {0} /\ \A i \in S : i <= Latest(S)
      /\ Latest(T) \in T \union {0} /\ \A i \in T : i <= Latest(T)
  BY LatestOf
<1>2. Latest(S) \in 0..n /\ Latest(T) \in 0..n
  <2>1. S \union {0} \subseteq 0..n /\ T \union {0} \subseteq 0..n
    OBVIOUS
  <2>2. Latest(S) \in S \union {0} /\ Latest(T) \in T \union {0}
    BY <1>1
  <2> QED
    BY <2>1, <2>2
<1>3. Latest(T) # 0 => Latest(T) + 1 <= Latest(S)
  BY <1>1, <1>2
<1>4. Latest(S) > 1 => Latest(S) - 1 \in T
  <2>1. ASSUME Latest(S) > 1
        PROVE  Latest(S) - 1 \in 1..n /\ (Latest(S) - 1) + 1 \in S
    BY <1>1, <1>2, <2>1
  <2> QED
    BY <2>1
<1>5. Latest(S) > 1 => Latest(S) - 1 <= Latest(T)
  BY <1>1, <1>4
<1> QED
  BY <1>2, <1>3, <1>5

\* The server taking the oldest write changes nothing of the view.
LEMMA ViewCommit ==
    ASSUME DataInv, DataInv', Commit
    PROVE  View(remote', pending') = View(remote, pending)
<1> DEFINE w == Head(pending)
           n == Len(pending)
<1>1. /\ pending # <<>> /\ pending' = Tail(pending)
      /\ w.op = "update" => remote[w.doc] # Absent
      /\ remote' = [remote EXCEPT ![w.doc] = Apply(w, remote[w.doc])]
  BY DEF Commit
<1>2. /\ pending \in Seq(WriteType) /\ n \in Nat /\ n > 0 /\ DOMAIN pending = 1..n
      /\ w \in WriteType /\ w = pending[1]
      /\ DOMAIN pending' = 1..(n - 1)
      /\ \A i \in DOMAIN pending' : i + 1 \in DOMAIN pending /\ pending'[i] = pending[i + 1]
  BY <1>1 DEF DataInv
<1>3. w.doc \in Doc /\ remote \in Contents
  BY <1>2 DEF WriteType, DataInv
<1>4. \A d \in Doc : remote'[d] = IF d = w.doc THEN Apply(w, remote[d]) ELSE remote[d]
  BY <1>1, <1>3 DEF Contents
<1> HIDE DEF w, n
<1>5. ASSUME NEW d \in Doc
      PROVE  View(remote', pending')[d] = View(remote, pending)[d]
  <2> DEFINE start == Latest(Whole(d, pending))
             last(f) == Latest(Patches(d, f, pending))
  <2>1. /\ Latest(Whole(d, pending')) = IF start > 1 THEN start - 1 ELSE 0
        /\ start \in 0..n /\ start \in Whole(d, pending) \union {0}
    <3>1. /\ Whole(d, pending) \in SUBSET (1..n) /\ Whole(d, pending') \in SUBSET (1..n)
          /\ \A i \in 1..n : i \in Whole(d, pending') <=> i + 1 \in Whole(d, pending)
      BY <1>2 DEF Whole
    <3> QED
      BY <1>2, <3>1, LatestTail, LatestOf
  <2>2. ASSUME NEW f \in Field
        PROVE  /\ Latest(Patches(d, f, pending')) = IF last(f) > 1 THEN last(f) - 1 ELSE 0
               /\ last(f) \in 0..n /\ last(f) \in Patches(d, f, pending) \union {0}
               /\ last(f) = 0 => Patches(d, f, pending) = {}
    <3>1. Patches(d, f, pending) \in SUBSET (1..n) /\ Patches(d, f, pending') \in SUBSET (1..n)
      BY <1>2 DEF Patches
    <3>2. \A i \in 1..n : i > Latest(Whole(d, pending')) <=> i + 1 > start
      BY <1>2, <2>1
    <3> HIDE DEF start
    <3>3. ASSUME NEW i \in 1..n
          PROVE  i \in Patches(d, f, pending') <=> i + 1 \in Patches(d, f, pending)
      <4>1. i \in DOMAIN pending' <=> i + 1 \in DOMAIN pending
        BY <1>2
      <4>2. i \in DOMAIN pending' => pending'[i] = pending[i + 1]
        BY <1>2
      <4> QED
        BY <3>2, <4>1, <4>2 DEF Patches, start
    <3> QED
      BY <1>2, <3>1, <3>3, LatestTail, LatestOf
  <2>3. 1 \in Whole(d, pending) <=> w.doc = d /\ w.op # "update"
    BY <1>2 DEF Whole
  <2>4. \A f \in Field : 1 \in Patches(d, f, pending)
                            <=> w.doc = d /\ start = 0 /\ w.data[f] # NoValue
    <3>1. 1 \in DOMAIN pending /\ (1 > start <=> start = 0)
      BY <1>2, <2>1
    <3> HIDE DEF start
    <3> QED
      BY <1>2, <3>1 DEF Patches, start
  <2>5. \A i \in 2..n : i - 1 \in DOMAIN pending' /\ pending'[i - 1] = pending[i]
    <3>1. \A i \in 2..n : i - 1 \in DOMAIN pending' /\ (i - 1) + 1 = i
      BY <1>2
    <3> QED
      BY <1>2, <3>1
  <2>6. \A f \in Field : last(f) > 1 => last(f) - 1 # 0 /\ pending'[last(f) - 1] = pending[last(f)]
    BY <1>2, <2>2, <2>5
  <2> DEFINE base == Base(d, remote, pending)
             after == Base(d, remote', pending')
  <2>7. after = IF start > 1 THEN pending[start].data ELSE remote'[d]
    BY <1>2, <2>1, <2>5 DEF Base
  <2>8. base = IF start = 0 THEN remote[d] ELSE pending[start].data
    BY DEF Base
  <2>9. View(remote', pending')[d] =
           IF after = Absent THEN Absent
           ELSE [f \in Field |-> IF last(f) > 1 THEN pending[last(f)].data[f] ELSE after[f]]
    BY <2>2, <2>6, ViewOf
  <2>10. View(remote, pending)[d] =
            IF base = Absent THEN Absent
            ELSE [f \in Field |-> IF last(f) = 0 THEN base[f] ELSE pending[last(f)].data[f]]
    BY ViewOf
  <2> HIDE DEF start, last, base, after
  <2>11. CASE start > 1 \/ (start = 0 /\ d # w.doc)
    <3>1. after = base
      BY <1>4, <2>1, <2>7, <2>8, <2>11
    <3>2. \A f \in Field : last(f) # 1
      BY <2>1, <2>2, <2>4, <2>11
    <3>3. \A f \in Field : last(f) > 1 <=> last(f) # 0
      BY <1>2, <2>2, <3>2
    <3> QED
      BY <2>9, <2>10, <3>1, <3>3
  <2>12. CASE start = 1
    <3>1. w.doc = d /\ w.op # "update"
      BY <2>1, <2>3, <2>12
    <3>2. Apply(w, remote[d]) = w.data
      BY <1>2, <3>1 DEF Apply, WriteType
    <3>3. after = base
      BY <1>2, <1>4, <2>7, <2>8, <2>12, <3>1, <3>2
    <3>4. \A f \in Field : last(f) # 1
      BY <2>2, <2>4, <2>12
    <3>5. \A f \in Field : last(f) > 1 <=> last(f) # 0
      BY <1>2, <2>2, <3>4
    <3> QED
      BY <2>9, <2>10, <3>3, <3>5
  <2>13. CASE start = 0 /\ d = w.doc
    <3>1. w.op = "update" /\ base = remote[d] /\ base # Absent
      <4>1. 1 \notin Whole(d, pending)
        <5>1. Whole(d, pending) \in SUBSET (1..n)
          BY <1>2 DEF Whole
        <5> QED
          BY <1>2, <2>13, <5>1, LatestOf DEF start
      <4> QED
        BY <1>1, <2>3, <2>8, <2>13, <4>1
    <3>2. after = [f \in Field |-> IF w.data[f] = NoValue THEN base[f] ELSE w.data[f]]
      BY <1>4, <2>7, <2>13, <3>1 DEF Apply
    <3>3. after # Absent
      <4>1. after \in Content
        <5>1. w.data \in Content /\ base \in Content
          BY <1>2, <1>3, <3>1, PatchAssumption DEF WriteType, Contents, MaybeContent
        <5> QED
          BY <3>2, <5>1 DEF Content
      <4> QED
        BY <4>1, AbsentAssumption
    <3>4. ASSUME NEW f \in Field
          PROVE  (IF last(f) > 1 THEN pending[last(f)].data[f] ELSE after[f])
                    = IF last(f) = 0 THEN base[f] ELSE pending[last(f)].data[f]
      <4>1. CASE last(f) > 1
        BY <4>1
      <4>2. CASE last(f) = 1
        BY <1>2, <2>2, <2>4, <3>2, <4>2
      <4>3. CASE last(f) = 0
        BY <2>2, <2>4, <2>13, <3>2, <4>3
      <4> QED
        BY <1>2, <2>2, <4>1, <4>2, <4>3
    <3> QED
      BY <2>9, <2>10, <3>1, <3>3, <3>4
  <2> QED
    BY <1>2, <2>1, <2>11, <2>12, <2>13
<1>6. View(remote', pending') \in Contents /\ View(remote, pending) \in Contents
  BY ViewType DEF DataInv
<1> QED
  BY <1>5, <1>6 DEF Contents

\* A write that is the only one of its document and of all of it: the copy stored
\* after it is what the view has.
LEMMA ViewCareful ==
    ASSUME DataInv, Commit, Head(pending).doc \notin Careless(pending)
    PROVE  View(remote, pending)[Head(pending).doc] = Head(pending).data
<1> DEFINE w == Head(pending)
<1>1. pending # <<>> /\ (w.op = "update" => remote[w.doc] # Absent)
  BY DEF Commit
<1>2. /\ pending \in Seq(WriteType) /\ 1 \in DOMAIN pending /\ w \in WriteType
      /\ w = pending[1] /\ remote \in Contents
  BY <1>1 DEF DataInv
<1>3. \A i \in DOMAIN pending : pending[i].doc = pending[1].doc => i = 1
  BY <1>2 DEF Careless
<1>4. w.op = "update" => \A f \in Field : w.data[f] # NoValue
  BY <1>2 DEF Careless
<1> HIDE DEF w
<1>5. View(remote, pending)[pending[1].doc] = Apply(pending[1], remote[pending[1].doc])
  BY <1>2, <1>3, ViewOne
<1>6. ASSUME w.op # "update" PROVE Apply(w, remote[w.doc]) = w.data
  BY <1>2, <1>6 DEF Apply, WriteType
<1>7. ASSUME w.op = "update" PROVE Apply(w, remote[w.doc]) = w.data
  <2>1. w.data \in Content
    BY <1>2, <1>7, PatchAssumption DEF WriteType
  <2>2. Apply(w, remote[w.doc]) = [f \in Field |-> w.data[f]]
    BY <1>1, <1>4, <1>7 DEF Apply, w
  <2> QED
    BY <2>1, <2>2 DEF Content
<1>8. Apply(w, remote[w.doc]) = w.data
  BY <1>6, <1>7
<1> QED
  BY <1>2, <1>5, <1>8 DEF w

\* Nothing is observed at first.
LEMMA InitCopies == Init => CopyInv
BY DEF Init, CopyInv, Careless, Watched

\* What a listener reports on are documents.
LEMMA ReportedCovered ==
    ASSUME DataInv, NEW k \in Key
    PROVE  /\ View(remote, pending) \in Contents
           /\ Reported(k, View(remote, pending)) \subseteq Doc
BY ViewType, KeyCovers DEF DataInv

\* The view changes and the listeners are told.
LEMMA ChangedCopies ==
    ASSUME Inv, DataInv, DataInv', CopyInv, UNCHANGED <<local, listeners>>,
           Changed(remote', pending')
    PROVE  CopyInv'
<1> DEFINE v == View(remote, pending)
           w == View(remote', pending')
<1>1. UNCHANGED <<local, observed, late>>
  BY DEF listeners
<1>2. v \in Contents /\ w \in Contents
  BY ViewType DEF DataInv
<1>3. /\ Notify(v, w)
      /\ damaged' = Careless(pending') \union Dropped(v, w) \union {d \in damaged : v[d] = w[d]}
  BY DEF Changed, Damage
<1>4. ASSUME NEW k \in Key, Watched(k) PROVE Coherent(k)'
  <2>1. /\ observed[k] # NoSub
        /\ \A d \in Reported(k, v) \ damaged : Settles(observed[k], d, v[d], channel, local)
    BY <1>4 DEF CopyInv, Coherent, Watched
  <2> HIDE DEF v, w
  <2>2. \A d \in Reported(k, w) \ damaged' : Settles(observed[k], d, w[d], channel', local')
    BY <1>1, <1>2, <1>3, <2>1, NotifySettles
  <2> QED
    BY <1>1, <2>2 DEF Coherent, w
<1> QED
  BY <1>1, <1>3, <1>4 DEF CopyInv, Watched

\* An answer is sent that agrees with the view.
LEMMA AnswerCopies ==
    ASSUME Inv, DataInv, CopyInv, Careless(pending') \subseteq Careless(pending),
           UNCHANGED <<local, damaged, listeners>>,
           View(remote', pending') = View(remote, pending),
           NEW m \in Message, channel' = Append(channel, m),
           \A d \in DOMAIN m.changes \ damaged : m.changes[d] = View(remote, pending)[d]
    PROVE  CopyInv'
<1>1. UNCHANGED <<local, damaged, observed, late>>
  BY DEF listeners
<1>2. ASSUME NEW k \in Key, Watched(k) PROVE Coherent(k)'
  <2> DEFINE v == View(remote, pending)
  <2>1. \A d \in Reported(k, v) \ damaged : Settles(observed[k], d, v[d], channel, local)
    BY <1>2 DEF CopyInv, Coherent
  <2>2. \A d \in DOMAIN m.changes \ damaged : m.changes[d] = v[d]
    OBVIOUS
  <2>3. View(remote', pending') = v
    OBVIOUS
  <2> HIDE DEF v
  <2>4. \A d \in Reported(k, v) \ damaged : Settles(observed[k], d, v[d], channel', local')
    BY <1>1, <2>1, <2>2, AppendSettles
  <2> QED
    BY <1>1, <2>3, <2>4 DEF Coherent
<1> QED
  BY <1>1, <1>2 DEF CopyInv, Watched

\* The server takes the oldest write.
LEMMA CommitCopies ==
    ASSUME Inv, DataInv, DataInv', CopyInv, Commit
    PROVE  CopyInv'
<1> DEFINE w == Head(pending)
           m == Answer("write", AfterWrite(w))
<1>1. /\ pending # <<>> /\ pending' = Tail(pending)
      /\ channel' = Append(channel, m) /\ UNCHANGED <<local, damaged, listeners>>
  BY DEF Commit
<1>2. w \in WriteType
  BY <1>1 DEF DataInv
<1>3. m \in Message
  <2>1. w.doc \in Doc /\ w.data \in MaybeContent
    BY <1>2, PatchAssumption DEF WriteType, MaybeContent
  <2>2. {w.doc} \in SUBSET Doc /\ AfterWrite(w) \in [{w.doc} -> MaybeContent]
    BY <2>1 DEF AfterWrite
  <2> QED
    BY <2>2, ChangesTyped, AnswerTyped
<1>4. \A d \in DOMAIN m.changes : d = w.doc /\ m.changes[d] = w.data
  BY DEF Answer, AfterWrite
<1>5. View(remote', pending') = View(remote, pending)
  BY ViewCommit
<1>6. w.doc \notin Careless(pending) => View(remote, pending)[w.doc] = w.data
  BY ViewCareful
<1>7. Careless(pending') \subseteq Careless(pending)
  <2>1. \A i \in DOMAIN pending' : /\ i \in Nat /\ i + 1 \in DOMAIN pending
                                   /\ pending'[i] = pending[i + 1]
    BY <1>1 DEF DataInv
  <2>2. \A i, j \in DOMAIN pending' : i # j => i + 1 # j + 1
    BY <2>1
  <2> QED
    BY <2>1, <2>2 DEF Careless
<1> HIDE DEF m, w
<1>8. \A d \in DOMAIN m.changes \ damaged : m.changes[d] = View(remote, pending)[d]
  BY <1>4, <1>6 DEF CopyInv
<1> QED
  BY <1>1, <1>3, <1>5, <1>7, <1>8, AnswerCopies

\* Reads bring what the view has.
LEMMA GetCopies ==
    ASSUME Inv, DataInv, CopyInv, NEW k \in Key, Get(k) \/ GetReturns(k) \/ GetFails(k)
    PROVE  CopyInv'
<1>1. UNCHANGED <<remote, pending, local, damaged, listeners>>
  BY DEF Get, GetReturns, GetFails
<1>2. CASE Get(k) \/ GetFails(k)
  <2>1. channel' = channel
    BY <1>2 DEF Get, GetFails
  <2> QED
    BY <1>1, <2>1 DEF CopyInv, Watched, Coherent, listeners
<1>3. CASE GetReturns(k)
  <2> DEFINE v == View(remote, pending)
             found == [d \in Results(k, v) |-> v[d]]
             m == Answer("read", found)
  <2>1. channel' = Append(channel, m)
    BY <1>3 DEF GetReturns
  <2>2. m \in Message
    <3>1. v \in Contents /\ Results(k, v) \in SUBSET Doc
      BY ViewType, KeyCovers DEF DataInv
    <3> HIDE DEF v
    <3>2. found \in [Results(k, v) -> MaybeContent]
      BY <3>1 DEF Contents
    <3> QED
      BY <3>1, <3>2, ChangesTyped, AnswerTyped
  <2>3. \A d \in DOMAIN m.changes : m.changes[d] = v[d]
    BY DEF Answer
  <2> HIDE DEF m
  <2> QED
    BY <1>1, <2>1, <2>2, <2>3, AnswerCopies
<1> QED
  BY <1>2, <1>3

\* A handler runs.
LEMMA DeliverCopies ==
    ASSUME Inv, DataInv, CopyInv, Deliver
    PROVE  CopyInv'
<1>1. UNCHANGED <<remote, pending, damaged, observed, late>>
  BY DEF Deliver, server, listeners
<1>2. ASSUME NEW k \in Key, Watched(k) PROVE Coherent(k)'
  <2> DEFINE v == View(remote, pending)
  <2>1. \A d \in Reported(k, v) \ damaged :
           d \in Doc /\ Settles(observed[k], d, v[d], channel, local)
    BY <1>2, ReportedCovered DEF CopyInv, Coherent
  <2>2. View(remote', pending') = v
    BY <1>1
  <2> HIDE DEF v
  <2>3. \A d \in Reported(k, v) \ damaged : Settles(observed[k], d, v[d], channel', local')
    BY <2>1, DeliverSettles
  <2> QED
    BY <1>1, <2>2, <2>3 DEF Coherent
<1> QED
  BY <1>1, <1>2 DEF CopyInv, Watched

\* A new listener is sent all it reports on, as the others have it.
LEMMA ObserveCopies ==
    ASSUME Inv, DataInv, CopyInv, NEW o \in Observer, NEW k \in Key, Observe(o, k)
    PROVE  CopyInv'
<1>1. UNCHANGED <<remote, pending, local, damaged>>
  BY DEF Observe, server
<1>2. CASE observed[k] # NoSub
  BY <1>1, <1>2 DEF Observe, CopyInv, Watched, Coherent
<1>3. CASE observed[k] = NoSub
  <2> DEFINE s == Fresh(k)
             v == View(remote, pending)
             m == Snapshot(s, FirstSnapshot(k, v))
  <2>1. /\ channel' = Append(channel, m)
        /\ observed' = [observed EXCEPT ![k] = s]
        /\ late \subseteq late'
    BY <1>3 DEF Observe
  <2>2. /\ FirstSnapshot(k, v) \in ChangesType
        /\ Reported(k, v) \subseteq DOMAIN FirstSnapshot(k, v)
        /\ \A d \in DOMAIN FirstSnapshot(k, v) : FirstSnapshot(k, v)[d] = v[d]
    BY ReportedCovered, FirstSnapshotOf
  <2>3. m \in Message /\ m.changes = FirstSnapshot(k, v) /\ m.from = s
    BY <2>2, FreshIsNew DEF Snapshot, Message
  <2>4. View(remote', pending') = v
    BY <1>1
  <2> HIDE DEF m, v, s
  <2>5. ASSUME NEW j \in Key, Watched(j)' PROVE Coherent(j)'
    <3>1. observed'[j] = IF j = k THEN s ELSE observed[j]
      BY <2>1 DEF Inv, ListenersTyped
    <3>2. j # k => Coherent(j)
      BY <2>1, <2>5, <3>1 DEF Watched, CopyInv
    <3>3. ASSUME NEW d \in Reported(j, v) \ damaged
          PROVE  Settles(observed'[j], d, v[d], channel', local')
      <4>1. d \in DOMAIN m.changes => m.changes[d] = v[d]
        BY <2>2, <2>3
      <4>2. \/ m.from = observed'[j] /\ d \in DOMAIN m.changes
            \/ Settles(observed'[j], d, v[d], channel, local)
        BY <2>2, <2>3, <3>1, <3>2, <3>3 DEF Coherent, v
      <4> QED
        BY <1>1, <2>1, <2>3, <4>1, <4>2, AppendSettles
    <3> QED
      BY <1>1, <2>4, <3>3 DEF Coherent
  <2> QED
    BY <1>1, <2>5 DEF CopyInv
<1> QED
  BY <1>2, <1>3

\* Cancelling other listeners leaves what a key reports on settled.
LEMMA CancelCopies ==
    ASSUME Inv, DataInv, CopyInv, NEW gone, Undeliver(gone),
           UNCHANGED <<remote, pending, local, damaged>>,
           \A k \in Key : Watched(k)' => /\ Watched(k) /\ observed'[k] = observed[k]
                                         /\ observed[k] \notin gone
    PROVE  CopyInv'
<1>1. ASSUME NEW k \in Key, Watched(k)' PROVE Coherent(k)'
  <2> DEFINE v == View(remote, pending)
  <2>1. \A d \in Reported(k, v) \ damaged : Settles(observed[k], d, v[d], channel, local)
    BY <1>1 DEF CopyInv, Coherent
  <2>2. View(remote', pending') = v
    OBVIOUS
  <2> HIDE DEF v
  <2>3. \A d \in Reported(k, v) \ damaged : Settles(observed[k], d, v[d], channel', local')
    BY <1>1, <2>1, UndeliverSettles
  <2> QED
    BY <1>1, <2>2, <2>3 DEF Coherent
<1> QED
  BY <1>1 DEF CopyInv

\* A stream is cancelled: the other keys keep their listeners.
LEMMA StopObservingCopies ==
    ASSUME Inv, DataInv, CopyInv, NEW o \in Observer, StopObserving(o)
    PROVE  CopyInv'
<1> DEFINE k == watching[o]
           gone == {observed[k]} \ {NoSub}
<1>1. k \in Key
  BY DEF Inv, ListenersTyped, StopObserving
<1>2. /\ UNCHANGED <<remote, pending, local, damaged>>
      /\ Undeliver(gone) /\ late' = late \ gone
  BY DEF StopObserving, server
<1>3. \A j \in Key : observed'[j] = IF j = k THEN NoSub ELSE observed[j]
  BY <1>1 DEF StopObserving, Inv, ListenersTyped
<1>4. \A j \in Key : j # k => observed[j] \notin gone
  BY <1>1, RegisteredSubs
<1> HIDE DEF k, gone
<1>5. \A j \in Key : Watched(j)' => /\ Watched(j) /\ observed'[j] = observed[j]
                                    /\ observed[j] \notin gone
  BY <1>2, <1>3, <1>4 DEF Watched
<1> QED
  BY <1>2, <1>5, CancelCopies

\* A map is emptied and the first of its listeners cancelled.
LEMMA ClearCopies ==
    ASSUME Inv, DataInv, CopyInv, NEW c, NEW keys \in SUBSET Key, NEW phase,
           CancelOneOf(c, Registered(keys), phase), Clear(keys),
           UNCHANGED <<remote, pending, local, damaged>>
    PROVE  CopyInv'
<1>1. PICK s \in Registered(keys) : Undeliver({s}) /\ late' = late \ {s}
  BY DEF CancelOneOf
<1>2. \A k \in Key : observed'[k] = IF k \in keys THEN NoSub ELSE observed[k]
  BY DEF Clear
<1>3. \A k \in Key : k \notin keys => observed[k] # s
  BY <1>1, RegisteredSubs
<1>4. \A k \in Key : Watched(k)' => /\ Watched(k) /\ observed'[k] = observed[k]
                                    /\ observed[k] \notin {s}
  BY <1>1, <1>2, <1>3 DEF Watched
<1> QED
  BY <1>1, <1>4, CancelCopies

\* Realm is wiped, or not, when every listener left is late.
LEMMA WipeCopies ==
    ASSUME CopyInv, NEW c, Wipe(c), UNCHANGED <<server, damaged>>, AreLate(Key)
    PROVE  CopyInv'
BY DEF Wipe, server, CopyInv, Watched, AreLate

\* The second half of removeAllListeners.
LEMMA RemoveCollectionsCopies ==
    ASSUME Inv, DataInv, CopyInv, NEW c, AreLate(Key \cap DocKey), RemoveCollections(c),
           UNCHANGED <<server, damaged>>
    PROVE  CopyInv'
<1> DEFINE keys == Key \cap QueryKey
<1>1. keys \in SUBSET Key /\ UNCHANGED <<remote, pending>>
  BY DEF server
<1>2. CASE Registered(keys) # {}
  BY <1>1, <1>2, ClearCopies DEF RemoveCollections
<1>3. CASE Registered(keys) = {}
  <2>1. \A k \in keys : observed[k] = NoSub
    BY <1>1, <1>3, RegisteredSubs
  <2>2. AreLate(Key)
    BY <2>1, KeyAssumption DEF AreLate
  <2> QED
    BY <1>3, <2>2, WipeCopies DEF RemoveCollections
<1> QED
  BY <1>2, <1>3

\* A sign-out gets to removeAllListeners.
LEMMA RemoveAllCopies ==
    ASSUME Inv, DataInv, CopyInv, NEW c \in SignOut, RemoveAllListeners(c)
    PROVE  CopyInv'
<1> DEFINE keys == Key \cap DocKey
<1>1. keys \in SUBSET Key /\ UNCHANGED <<server, damaged>> /\ UNCHANGED <<remote, pending>>
  BY DEF RemoveAllListeners, server
<1>2. CASE Registered(keys) # {}
  BY <1>1, <1>2, ClearCopies DEF RemoveAllListeners
<1>3. CASE Registered(keys) = {}
  <2>1. AreLate(keys)
    BY <1>1, <1>3, RegisteredSubs DEF AreLate
  <2> QED
    BY <1>1, <1>3, <2>1, RemoveCollectionsCopies DEF RemoveAllListeners
<1> QED
  BY <1>2, <1>3

\* It goes on: what it cancels is not in a map.
LEMMA TeardownCopies ==
    ASSUME Inv, DataInv, CopyInv, NEW c \in SignOut, TeardownContinues(c)
    PROVE  CopyInv'
<1>1. /\ teardown[c] # "none" /\ UNCHANGED <<server, damaged>>
      /\ UNCHANGED <<remote, pending>>
  BY DEF TeardownContinues, server
<1>2. /\ AreLate(Key \cap DocKey)
      /\ teardown[c] = "colls" => AreLate(Key \cap QueryKey)
  BY <1>1 DEF Inv, ClearedAreLate
<1>3. teardown[c] = "colls" => AreLate(Key)
  BY <1>2, KeyAssumption DEF AreLate
<1>4. ASSUME CancelOneOf(c, toCancel[c], teardown[c]), observed' = observed, local' = local
      PROVE  CopyInv'
  <2>1. PICK s \in toCancel[c] : Undeliver({s}) /\ late' = late \ {s}
    BY <1>4 DEF CancelOneOf
  <2>2. \A k \in Key : observed[k] # s
    BY <2>1, RegisteredSubs, NoSubAssumption DEF Inv, ListenersTyped
  <2>3. \A k \in Key : Watched(k)' => /\ Watched(k) /\ observed'[k] = observed[k]
                                      /\ observed[k] \notin {s}
    BY <1>4, <2>1, <2>2 DEF Watched
  <2> QED
    BY <1>1, <1>4, <2>1, <2>3, CancelCopies
<1> QED
  BY <1>1, <1>2, <1>3, <1>4, RemoveCollectionsCopies, WipeCopies DEF TeardownContinues

\* Every step keeps the invariant of the copies.
LEMMA NextCopies ==
    ASSUME Inv, DataInv, DataInv', CopyInv, [Next]_vars
    PROVE  CopyInv'
<1>1. ASSUME NEW w, Issue(w) PROVE CopyInv'
  <2>1. remote' = remote /\ UNCHANGED <<local, listeners>> /\ Changed(remote, pending')
    BY <1>1 DEF Issue
  <2> QED
    BY <2>1, ChangedCopies
<1>2. \A d \in Doc : /\ \A c \in Data : CreateDoc(d, c) => CopyInv'
                     /\ \A p \in Patch : UpdateDoc(d, p) => CopyInv'
                     /\ DeleteDoc(d) => CopyInv'
  BY <1>1 DEF CreateDoc, UpdateDoc, DeleteDoc
<1>3. CASE Reject
  <2>1. remote' = remote /\ UNCHANGED <<local, listeners>> /\ Changed(remote, pending')
    BY <1>3 DEF Reject
  <2> QED
    BY <2>1, ChangedCopies
<1>4. ASSUME NEW d \in Doc, NEW c, OtherClientWrites(d, c) PROVE CopyInv'
  <2>1. pending' = pending /\ UNCHANGED <<local, listeners>> /\ Changed(remote', pending)
    BY <1>4 DEF OtherClientWrites
  <2> QED
    BY <2>1, ChangedCopies
<1>5. CASE UNCHANGED vars
  BY <1>5 DEF vars, CopyInv, Watched, Coherent
<1> QED
  BY <1>2, <1>3, <1>4, <1>5, CommitCopies, GetCopies, DeliverCopies, ObserveCopies,
     StopObservingCopies, RemoveAllCopies, TeardownCopies DEF Next

\* What is listened to is in Realm as it is on the server whenever nothing is on
\* its way, for any documents, keys (overlapping ones too), patches, observers,
\* sign-outs and number of operations: the only copies that can be wrong are those
\* of documents that two calls wrote at once, that were written in part, or that one
\* listener lost while another reported them, and they are until the document next
\* changes.
THEOREM CopiesCoherent == Spec => []ObservedCoherent
<1>1. Inv /\ DataInv /\ CopyInv /\ [Next]_vars => (Inv /\ DataInv /\ CopyInv)'
  BY NextInv, NextData, NextCopies
<1>2. Init => Inv /\ DataInv /\ CopyInv
  BY InitInv, InitData, InitCopies
<1>3. Inv /\ DataInv /\ CopyInv => ObservedCoherent
  <2> SUFFICES ASSUME Inv, DataInv, CopyInv, Quiescent, NEW k \in Key, Watched(k)
               PROVE  Agrees(k, Doc \ damaged)
    BY DEF ObservedCoherent
  <2>1. pending = <<>> /\ DOMAIN channel = {} /\ remote \in Contents
    BY DEF Quiescent, DataInv
  <2>2. View(remote, pending) = remote
    <3>1. \A d \in Doc : View(remote, pending)[d] = remote[d]
      <4>1. pending \in Seq(WriteType) /\ \A i \in DOMAIN pending : FALSE
        BY <2>1 DEF DataInv
      <4> QED
        BY <2>1, <4>1, ViewNone
    <3>2. View(remote, pending) \in Contents
      BY ViewType DEF DataInv
    <3> QED
      BY <2>1, <3>1, <3>2 DEF Contents
  <2>3. \A d \in Reported(k, remote) \ damaged : local[d] = remote[d]
    BY <2>1, <2>2 DEF CopyInv, Coherent, Settles
  <2>4. Results(k, remote) \subseteq Reported(k, remote)
    BY <2>1, KeyCovers
  <2>5. k.kind = "doc" => k.doc \in Reported(k, remote)
    BY DEF Reported
  <2> QED
    BY <2>3, <2>4, <2>5 DEF Agrees
<1> QED
  BY <1>1, <1>2, <1>3, PTL DEF Spec

=============================================================================
