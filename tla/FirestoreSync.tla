--------------------------- MODULE FirestoreSync ---------------------------
(***************************************************************************)
(* FireStoreService (lib/data/services/firestore) and the repositories on  *)
(* top of it: documents live in Firestore, the screens read copies of them *)
(* in the local Realm database, and three things write those copies: the   *)
(* snapshot handlers of observeDoc and observeCollection, and the code     *)
(* that runs after the await of createDoc, updateDoc, deleteDoc, getDoc    *)
(* and getCollection.                                                      *)
(*                                                                         *)
(* The Firestore SDK is external.  It is modelled by what the service      *)
(* relies on: own writes sit in a queue until the server answers and are   *)
(* visible to listeners at once (latency compensation); a listener hears   *)
(* of a change to its results, not of an acknowledgement; and snapshots    *)
(* and answers reach the app in the order in which the SDK raised them     *)
(* (one event queue, channel).                                             *)
(*                                                                         *)
(* A document's content is a function of Field; NoValue is a missing field *)
(* (in Realm: null, or the default of the model class).                    *)
(***************************************************************************)
EXTENDS Naturals, FiniteSets, Sequences, SequencesExt

CONSTANTS Doc,        \* documents, numbered in the order of their created_at
          Field, Value, NoValue,
          Absent,     \* the document or the local object does not exist
          Key,        \* what can be listened to, see DocKey and QueryKey
          NoSub,      \* no subscription registered
          Observer,   \* cubits that subscribe to a repository stream
          NoKey,      \* the observer is not subscribed
          Data,       \* the documents that are created
          Patch,      \* the maps callers pass to updateDoc
          SignOut,    \* calls of signOut that may be under way at a time
          MaxOps      \* bound on the operations begun

Content == [Field -> Value \union {NoValue}]
MaybeContent == Content \union {Absent}

\* A document reference, or a query over a collection: where(field == value),
\* newest first, with a limit (0: none).
DocKey == [kind : {"doc"}, doc : Doc]
QueryKey == [kind : {"query"}, docs : SUBSET Doc, field : Field, value : Value,
             limit : 0..Cardinality(Doc)]

ASSUME DocAssumption == Doc \subseteq Nat /\ IsFiniteSet(Doc)
ASSUME KeyAssumption == Key \subseteq DocKey \union QueryKey
ASSUME DataAssumption == Data \subseteq [Field -> Value]
ASSUME PatchAssumption == Patch \subseteq Content
ASSUME AbsentAssumption == Absent \notin Content
ASSUME MaxOpsAssumption == MaxOps \in Nat

\* A key is subscribed to again while earlier subscriptions to it wait to be
\* cancelled, so a subscription is a key and a number.
Sub == Key \X Nat

ASSUME NoSubAssumption == NoSub \notin Sub /\ NoKey \notin Key

VARIABLES
    remote,    \* the documents on the server
    pending,   \* own writes the server has not answered
    gets,      \* reads in flight
    channel,   \* snapshots and answers on their way to the app
    local,     \* the Realm copies
    damaged,   \* history: documents whose copy may be wrong, see Damage
    observed,  \* _observedDocuments and _observedCollections
    live,      \* subscriptions that have not been cancelled
    late,      \* history: those of them that began during a sign-out
    watching,  \* which key each observer's stream is about
    teardown,  \* progress of each call's removeAllListeners: "none", "docs", "colls"
    toCancel,  \* the subscriptions each has still to cancel
    ops        \* operations begun

server == <<remote, pending, gets>>
listeners == <<observed, live, late, watching>>
wiping == <<teardown, toCancel>>
vars == <<remote, pending, gets, channel, local, damaged, observed, live, late,
          watching, teardown, toCancel, ops>>
-----------------------------------------------------------------------------
(* The SDK (external).                                                     *)

Write(op, d, c) == [doc |-> d, op |-> op, data |-> c]

\* What a write makes of a document.
Apply(w, c) ==
    CASE w.op = "set"    -> w.data
      [] w.op = "delete" -> Absent
      [] w.op = "update" -> IF c = Absent THEN Absent
                            ELSE [f \in Field |-> IF w.data[f] = NoValue
                                                  THEN c[f] ELSE w.data[f]]

\* The last of some positions, 0 if there are none.
Latest(positions) == Max(positions \union {0})

\* The SDK's view: the server's documents under the pending writes.  The last
\* set or delete replaces the document, and of an existing one the updates after
\* it replace fields.
View(docs, writes) ==
    [d \in Doc |->
        LET own == {i \in DOMAIN writes : writes[i].doc = d}
            start == Latest({i \in own : writes[i].op # "update"})
            base == IF start = 0 THEN docs[d] ELSE writes[start].data
            patch(f) == Latest({i \in own : i > start /\ writes[i].data[f] # NoValue})
        IN IF base = Absent THEN Absent
           ELSE [f \in Field |-> IF patch(f) = 0 THEN base[f]
                                 ELSE writes[patch(f)].data[f]]]

Matches(k, c) == c # Absent /\ c[k.field] = k.value

\* The documents a listener on k reports under view v.
Results(k, v) ==
    IF k.kind = "doc" THEN {k.doc} \cap {d \in Doc : v[d] # Absent}
    ELSE LET hits == {d \in k.docs : Matches(k, v[d])}
         IN IF k.limit = 0 THEN hits
            ELSE {d \in hits : Cardinality({e \in hits : e > d}) < k.limit}

\* docChanges between two views: added and modified documents with their new
\* content, documents that left the results as Absent.
Changes(k, v, w) ==
    LET upserts == {d \in Results(k, w) : d \notin Results(k, v) \/ v[d] # w[d]}
        removed == Results(k, v) \ Results(k, w)
    IN [d \in upserts \union removed |-> IF d \in upserts THEN w[d] ELSE Absent]

\* The first snapshot of a new listener.
FirstSnapshot(k, v) ==
    IF k.kind = "doc" THEN [d \in {k.doc} |-> v[d]]
    ELSE [d \in Results(k, v) |-> v[d]]

Snapshot(s, changes) == [kind |-> "snapshot", changes |-> changes, from |-> s]
Answer(kind, changes) == [kind |-> kind, changes |-> changes, from |-> NoSub]

Registered(keys) == {observed[k] : k \in keys} \ {NoSub}

\* Documents with two writes under way, or one that sends some fields only:
\* the code after the await stores what the listener has superseded, or a part.
Careless(writes) ==
    {writes[i].doc : i \in {n \in DOMAIN writes :
        \/ \E m \in DOMAIN writes : m # n /\ writes[m].doc = writes[n].doc
        \/ writes[n].op = "update" /\ \E f \in Field : writes[n].data[f] = NoValue}}

\* Documents that one listener loses from its results, so that the handler
\* deletes the copy, while another one goes on to report them.
Dropped(v, w) ==
    UNION {(Results(s[1], v) \ Results(s[1], w)) \cap Results(t[1], w) :
              s \in live, t \in Registered(Key)}

\* When the view changes: a damaged document stays so until it changes itself.
Damage(v, w, writes) ==
    damaged' = Careless(writes) \union Dropped(v, w)
                  \union {d \in damaged : v[d] = w[d]}

\* Every live subscription whose results differ is sent its changes, the
\* subscriptions in any order.
Notify(v, w) ==
    LET told == {s \in live : DOMAIN Changes(s[1], v, w) # {}}
    IN \E order \in SetToSeqs(told) :
          channel' = channel \o [i \in DOMAIN order |->
                        Snapshot(order[i], Changes(order[i][1], v, w))]

\* The view changes to that of the given documents and pending writes.
Changed(docs, writes) ==
    LET v == View(remote, pending)
        w == View(docs, writes)
    IN Notify(v, w) /\ Damage(v, w, writes)

\* Begin a write: the future completes when the server answers.  Nothing keeps
\* two cubits, or two taps, from writing the same document at once.
Issue(w) ==
    /\ ops < MaxOps /\ ops' = ops + 1
    /\ pending' = Append(pending, w)
    /\ Changed(remote, pending')
    /\ UNCHANGED <<remote, gets, local, listeners, wiping>>
-----------------------------------------------------------------------------
(* FireStoreService: writes and reads.                                     *)

CreateDoc(d, c) == Issue(Write("set", d, c))

UpdateDoc(d, patch) == Issue(Write("update", d, patch))

DeleteDoc(d) == Issue(Write("delete", d, Absent))

\* What the code after the await does to Realm: createDoc and updateDoc store
\* the object FirestoreMapper.fromMap makes of the data they were given, and
\* of nothing else; deleteDoc deletes the object.
AfterWrite(w) == [d \in {w.doc} |-> w.data]

\* The server accepts the oldest pending write; update needs a document.
Commit ==
    /\ pending # <<>>
    /\ LET w == Head(pending)
       IN /\ w.op = "update" => remote[w.doc] # Absent
          /\ remote' = [remote EXCEPT ![w.doc] = Apply(w, remote[w.doc])]
          /\ channel' = Append(channel, Answer("write", AfterWrite(w)))
    /\ pending' = Tail(pending)
    /\ UNCHANGED <<gets, local, damaged, listeners, wiping, ops>>

\* The server refuses it: the future fails, the exception is rethrown before
\* Realm is touched, and the view reverts.
Reject ==
    /\ pending # <<>>
    /\ pending' = Tail(pending)
    /\ Changed(remote, pending')
    /\ UNCHANGED <<remote, gets, local, listeners, wiping, ops>>

\* getDoc (a document key) and getCollection (a query).
Get(k) ==
    /\ ops < MaxOps /\ ops' = ops + 1
    /\ k \notin gets
    /\ gets' = gets \union {k}
    /\ UNCHANGED <<remote, pending, channel, local, damaged, listeners, wiping>>

\* Every document found is stored; one not found is not deleted locally.
GetReturns(k) ==
    /\ k \in gets
    /\ gets' = gets \ {k}
    /\ LET v == View(remote, pending)
       IN channel' = Append(channel, Answer("read", [d \in Results(k, v) |-> v[d]]))
    /\ UNCHANGED <<remote, pending, local, damaged, listeners, wiping, ops>>

GetFails(k) ==
    /\ k \in gets
    /\ gets' = gets \ {k}
    /\ UNCHANGED <<remote, pending, channel, local, damaged, listeners, wiping, ops>>

\* Another client writes or deletes a document.
OtherClientWrites(d, c) ==
    /\ ops < MaxOps /\ ops' = ops + 1
    /\ remote[d] # c
    /\ remote' = [remote EXCEPT ![d] = c]
    /\ Changed(remote', pending)
    /\ UNCHANGED <<pending, gets, local, listeners, wiping>>

\* Mutant of Deliver: the removed case of the snapshot handler is missing.
DeliverUpsertsOnly ==
    /\ channel # <<>>
    /\ LET changes == Head(channel).changes
       IN local' = [d \in Doc |-> IF d \in DOMAIN changes /\ changes[d] # Absent
                                  THEN changes[d] ELSE local[d]]
    /\ channel' = Tail(channel)
    /\ UNCHANGED <<server, damaged, listeners, wiping, ops>>

\* The app runs the next snapshot handler or continuation: createFromEntity
\* (update: true) for content, deleteEntity for Absent.
Deliver ==
    /\ channel # <<>>
    /\ LET changes == Head(channel).changes
       IN local' = [d \in Doc |-> IF d \in DOMAIN changes
                                  THEN changes[d] ELSE local[d]]
    /\ channel' = Tail(channel)
    /\ UNCHANGED <<server, damaged, listeners, wiping, ops>>
-----------------------------------------------------------------------------
(* FireStoreService: listeners.                                            *)

\* Cancelled subscriptions deliver nothing more, not even what is on its way;
\* the rest of the channel keeps its order.
Undeliver(gone) ==
    LET kept == {i \in DOMAIN channel : channel[i].from \notin gone}
    IN IF kept = DOMAIN channel THEN UNCHANGED channel
       ELSE \E order \in [1..Cardinality(kept) -> kept] :
               /\ \A i, j \in DOMAIN order : i < j => order[i] < order[j]
               /\ \A n \in kept : \E i \in DOMAIN order : order[i] = n
               /\ channel' = [i \in DOMAIN order |-> channel[order[i]]]

SigningOut == \E c \in SignOut : teardown[c] # "none"

\* A subscription to k that is not alive.
Fresh(k) == <<k, CHOOSE n \in 0..Cardinality(live) : <<k, n>> \notin live>>

\* observeDoc, observeCollection and the repository stream on top: a listener
\* is started unless one is registered for the key.
Observe(o, k) ==
    /\ ops < MaxOps /\ ops' = ops + 1
    /\ watching[o] = NoKey
    /\ watching' = [watching EXCEPT ![o] = k]
    /\ IF observed[k] # NoSub THEN UNCHANGED <<observed, live, late, channel>>
       ELSE LET s == Fresh(k)
            IN /\ observed' = [observed EXCEPT ![k] = s]
               /\ live' = live \union {s}
               /\ late' = IF SigningOut THEN late \union {s} ELSE late
               /\ channel' = Append(channel,
                     Snapshot(s, FirstSnapshot(k, View(remote, pending))))
    /\ UNCHANGED <<server, local, damaged, wiping>>

\* Mutant of StopObserving: the map entry is removed but not cancelled.
StopObservingNoCancel(o) ==
    /\ watching[o] # NoKey
    /\ watching' = [watching EXCEPT ![o] = NoKey]
    /\ observed' = [observed EXCEPT ![watching[o]] = NoSub]
    /\ UNCHANGED <<server, channel, live, late, local, damaged, wiping, ops>>

\* Mutant of StopObserving: cancelled, but the map entry stays, so that the
\* next observeDoc returns early.
StopObservingNoRemove(o) ==
    /\ watching[o] # NoKey
    /\ watching' = [watching EXCEPT ![o] = NoKey]
    /\ LET gone == {observed[watching[o]]} \ {NoSub}
       IN /\ live' = live \ gone
          /\ late' = late \ gone
          /\ Undeliver(gone)
    /\ UNCHANGED <<server, observed, local, damaged, wiping, ops>>

\* Mutant of StopObserving: what is on its way is still delivered.
StopObservingLate(o) ==
    /\ watching[o] # NoKey
    /\ watching' = [watching EXCEPT ![o] = NoKey]
    /\ live' = live \ {observed[watching[o]]}
    /\ late' = late \ {observed[watching[o]]}
    /\ observed' = [observed EXCEPT ![watching[o]] = NoSub]
    /\ UNCHANGED <<server, channel, local, damaged, wiping, ops>>

\* The observer cancels its stream: doOnCancel runs removeDocListener or
\* removeCollectionListener, whoever else watches the key.
StopObserving(o) ==
    /\ watching[o] # NoKey
    /\ watching' = [watching EXCEPT ![o] = NoKey]
    /\ LET gone == {observed[watching[o]]} \ {NoSub}
       IN /\ live' = live \ gone
          /\ late' = late \ gone
          /\ Undeliver(gone)
    /\ observed' = [observed EXCEPT ![watching[o]] = NoSub]
    /\ UNCHANGED <<server, local, damaged, wiping, ops>>

\* Mutant of CancelOneOf: the loop does not advance.
CancelSameAgain(c, subs, phase) ==
    \E s \in subs : /\ live' = live \ {s}
                    /\ late' = late \ {s}
                    /\ Undeliver({s})
                    /\ toCancel' = [toCancel EXCEPT ![c] = subs]
                    /\ teardown' = [teardown EXCEPT ![c] = phase]

\* One iteration of the loops of call c's removeAllListeners, up to its await.
CancelOneOf(c, subs, phase) ==
    \E s \in subs : /\ live' = live \ {s}
                    /\ late' = late \ {s}
                    /\ Undeliver({s})
                    /\ toCancel' = [toCancel EXCEPT ![c] = subs \ {s}]
                    /\ teardown' = [teardown EXCEPT ![c] = phase]

Clear(keys) == observed' = [k \in Key |-> IF k \in keys THEN NoSub ELSE observed[k]]

\* removeAllListeners has returned: signOut calls RealmService.deleteAll, which
\* logs a failure and returns.
Wipe(c) ==
    /\ local' = [d \in Doc |-> Absent] \/ UNCHANGED local
    /\ teardown' = [teardown EXCEPT ![c] = "none"]
    /\ UNCHANGED <<toCancel, observed, live, late, channel>>

\* Mutant of RemoveCollections: removeAllListeners forgets the collections.
RemoveNoCollections(c) == Wipe(c)

\* The second half of removeAllListeners: collections.
RemoveCollections(c) ==
    LET keys == Key \cap QueryKey
    IN IF Registered(keys) # {}
       THEN /\ CancelOneOf(c, Registered(keys), "colls")
            /\ Clear(keys) /\ UNCHANGED local
       ELSE Wipe(c)

\* A call of signOut gets to removeAllListeners: the first half, documents.  The
\* button stays enabled, so that other calls may be anywhere in theirs.
RemoveAllListeners(c) ==
    /\ ops < MaxOps /\ ops' = ops + 1
    /\ teardown[c] = "none"
    /\ LET keys == Key \cap DocKey
       IN IF Registered(keys) # {}
          THEN /\ CancelOneOf(c, Registered(keys), "docs")
               /\ Clear(keys) /\ UNCHANGED local
          ELSE RemoveCollections(c)
    /\ UNCHANGED <<server, damaged, watching>>

\* The awaited cancel completes and the loop goes on.
TeardownContinues(c) ==
    /\ teardown[c] # "none"
    /\ \/ /\ toCancel[c] # {}
          /\ CancelOneOf(c, toCancel[c], teardown[c])
          /\ UNCHANGED <<observed, local>>
       \/ teardown[c] = "docs" /\ toCancel[c] = {} /\ RemoveCollections(c)
       \/ teardown[c] = "colls" /\ toCancel[c] = {} /\ Wipe(c)
    /\ UNCHANGED <<server, damaged, watching, ops>>
-----------------------------------------------------------------------------
Init == /\ remote \in [Doc -> {Absent} \union Data]
        /\ pending = <<>>
        /\ gets = {}
        /\ channel = <<>>
        /\ local = [d \in Doc |-> Absent]
        /\ damaged = {}
        /\ observed = [k \in Key |-> NoSub]
        /\ live = {}
        /\ late = {}
        /\ watching = [o \in Observer |-> NoKey]
        /\ teardown = [c \in SignOut |-> "none"]
        /\ toCancel = [c \in SignOut |-> {}]
        /\ ops = 0

Next == \/ \E d \in Doc, c \in Data : CreateDoc(d, c)
        \/ \E d \in Doc, p \in Patch : UpdateDoc(d, p)
        \/ \E d \in Doc : DeleteDoc(d)
        \/ Commit
        \/ Reject
        \/ \E k \in Key : Get(k) \/ GetReturns(k) \/ GetFails(k)
        \/ \E d \in Doc, c \in {Absent} \union Data : OtherClientWrites(d, c)
        \/ Deliver
        \/ \E o \in Observer, k \in Key : Observe(o, k)
        \/ \E o \in Observer : StopObserving(o)
        \/ \E c \in SignOut : RemoveAllListeners(c) \/ TeardownContinues(c)

\* The event loop runs what is in its queue; the server answers; a cancel
\* completes.  Users and other clients owe nothing.
Fairness == /\ WF_vars(Deliver)
            /\ WF_vars(Commit \/ Reject)
            /\ \A k \in Key : WF_vars(GetReturns(k) \/ GetFails(k))
            /\ \A c \in SignOut : WF_vars(TeardownContinues(c))

Spec == Init /\ [][Next]_vars /\ Fairness
-----------------------------------------------------------------------------
(* Properties.                                                             *)

\* Types; messages come from live subscriptions or are answers.
TypeOK ==
    /\ remote \in [Doc -> MaybeContent]
    /\ local \in [Doc -> MaybeContent]
    /\ \A i \in DOMAIN pending : pending[i].doc \in Doc
    /\ gets \subseteq Key
    /\ live \subseteq Sub /\ late \subseteq live
    /\ observed \in [Key -> Sub \union {NoSub}]
    /\ watching \in [Observer -> Key \union {NoKey}]
    /\ damaged \subseteq Doc
    /\ teardown \in [SignOut -> {"none", "docs", "colls"}]
    /\ toCancel \in [SignOut -> SUBSET Sub]
    /\ ops \in 0..MaxOps
    /\ \A i \in DOMAIN channel : channel[i].from \in live \union {NoSub}

\* What the calls of removeAllListeners other than c have still to cancel.
LeftToOthers(c) == UNION {toCancel[o] : o \in SignOut \ {c}}

\* A subscription that has not been cancelled is registered in one of the two
\* maps or is about to be cancelled by one call of removeAllListeners, and never
\* both: no listener leaks and none is cancelled twice, whatever is observed and
\* cancelled during the sign-outs, and however they overlap.
SubscriptionsReachable ==
    /\ live = Registered(Key) \union UNION {toCancel[c] : c \in SignOut}
    /\ \A c \in SignOut : toCancel[c] \cap (Registered(Key) \union LeftToOthers(c)) = {}

\* Nothing is on its way: every read and write has been answered and handled.
Quiescent == channel = <<>> /\ pending = <<>> /\ gets = {} /\ ~SigningOut

\* The local copies of some documents agree with what a listener on k reports,
\* and a listened document that does not exist has no local copy.
Agrees(k, docs) ==
    /\ \A d \in docs \cap Results(k, remote) : local[d] = remote[d]
    /\ k.kind = "doc" /\ k.doc \in docs /\ remote[k.doc] = Absent => local[k.doc] = Absent

\* The listener registered for k did not begin during a sign-out.
Watched(k) == observed[k] \notin late \union {NoSub}

\* Whenever nothing is on its way, what a registered listener reports is what
\* Realm holds: the continuations of the one-shot operations, the snapshot
\* handlers, the writes of other clients and the sign-outs leave no stale copy
\* behind.  Excepted are a listener that began during a sign-out (its first
\* snapshot may be wiped, and is not sent again) and, until it next changes, a
\* document that was written by two calls at once or in part, or that one listener
\* lost from its results while another reported it.
ObservedCoherent ==
    Quiescent => \A k \in Key : Watched(k) => Agrees(k, Doc \ damaged)

\* Realm is kept up to date by the listener: every document that it reports is
\* in Realm as it is on the server, once nothing is on its way.
ListenerUpdatesRealm ==
    Quiescent => \A k \in Key : Watched(k) => Agrees(k, Doc)

\* The stream an observer holds is fed by a listener.
ObserverIsFed ==
    ~SigningOut =>
        \A o \in Observer : watching[o] # NoKey => observed[watching[o]] # NoSub

\* The step in which call c is through with removeAllListeners and wipes Realm.
Finishes(c) == /\ teardown'[c] = "none"
               /\ RemoveAllListeners(c) \/ TeardownContinues(c)

\* No snapshot handler is alive when Realm is wiped at sign-out.
NoHandlerAtWipe == [][\A c \in SignOut : Finishes(c) => live = {}]_vars

\* The listeners that outlive a wipe began while some removeAllListeners waited
\* for a cancel, and are registered, so that the next sign-out cancels them, or
\* they are on the list of another sign-out that is still at work: between them
\* the sign-outs miss none, however their awaits fall.
WipeSparesOnlyLate ==
    [][\A c \in SignOut : Finishes(c) =>
          live \subseteq (late \cap Registered(Key)) \union LeftToOthers(c)]_vars

\* removeAllListeners always finishes and Realm is wiped.
TeardownFinishes ==
    \A c \in SignOut : teardown[c] # "none" ~> teardown[c] = "none"

\* If a listener that did not begin during a sign-out stays registered, the
\* local copies of undamaged documents eventually agree with the server and
\* stay so once the documents stop changing.
Converges ==
    \A k \in Key : <>[]Watched(k) => <>[]Agrees(k, Doc \ damaged)
=============================================================================
