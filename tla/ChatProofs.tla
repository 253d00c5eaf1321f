----------------------------- MODULE ChatProofs -----------------------------
(***************************************************************************)
(* Proofs about Chat, for any messages, senders and number of visits.      *)
(* The argument: a visit that has not begun has no load under way, so the  *)
(* empty set a new cubit starts with is right; from then on the set and    *)
(* the loads of the cubit on the screen move together, and a sender is     *)
(* loaded only when it is outside the set.  Loads of earlier visits can    *)
(* only end.                                                               *)
(***************************************************************************)
EXTENDS Chat, TLAPS

\* Nothing is loaded for a visit that has not begun.
FutureIdle == \A v \in Visit, s \in Sender : v > visit => running[v][s] = 0

\* The inductive invariant.
Inv == TypeOK /\ FutureIdle /\ InFlightIsRunning /\ OneLoadPerSender

\* The first cubit has loaded nothing.
LEMMA InitInv == Init => Inv
<1> SUFFICES ASSUME Init PROVE Inv
  OBVIOUS
<1>1. 1 \in Visit
  BY VisitsAssumption DEF Visit
<1>2. TypeOK
  BY <1>1 DEF Init, TypeOK
<1>3. \A v \in Visit, s \in Sender : running[v][s] = 0
  BY DEF Init
<1>4. FutureIdle /\ OneLoadPerSender
  BY <1>3 DEF FutureIdle, OneLoadPerSender
<1>5. InFlightIsRunning
  BY <1>1, <1>3 DEF InFlightIsRunning, Init
<1> QED
  BY <1>2, <1>4, <1>5 DEF Inv

\* A change of Realm only ever wakes a cubit that observes.
LEMMA FiresType ==
    ASSUME TypeOK, NEW changed \in BOOLEAN, Fires(changed)
    PROVE  fired' \in BOOLEAN /\ (fired' => cubit = "observing")
BY DEF TypeOK, Fires

\* Storing a message or a user of the server leaves the types of Realm's
\* contents and of the pending event as they are.
LEMMA StoreType ==
    ASSUME TypeOK
    PROVE  /\ \A m \in Message : StoreMessage(m) =>
                /\ messages \subseteq messages' /\ messages' \subseteq Message
                /\ users' = users
                /\ fired' \in BOOLEAN /\ (fired' => cubit = "observing")
           /\ \A s \in profiles : StoreUser(s) =>
                /\ messages' = messages /\ users' \subseteq profiles
                /\ fired' \in BOOLEAN /\ (fired' => cubit = "observing")
<1>1. ASSUME NEW m \in Message, StoreMessage(m)
      PROVE  fired' \in BOOLEAN /\ (fired' => cubit = "observing")
  BY <1>1, FiresType DEF StoreMessage
<1>2. ASSUME NEW s \in profiles, StoreUser(s)
      PROVE  fired' \in BOOLEAN /\ (fired' => cubit = "observing")
  BY <1>2, FiresType DEF StoreUser
<1> QED
  BY <1>1, <1>2 DEF StoreMessage, StoreUser, TypeOK

\* Steps that touch neither the visit nor the loads keep the invariant's
\* statements about loads.
LEMMA LoadsFrame ==
    ASSUME Inv, visit' = visit, UNCHANGED loads,
           cubit # "closed" \/ cubit' = cubit
    PROVE  FutureIdle' /\ InFlightIsRunning' /\ OneLoadPerSender'
BY DEF Inv, loads, FutureIdle, InFlightIsRunning, OneLoadPerSender

\* The listener starts one load for each missing sender and for no other.
LEMMA ListenInv ==
    ASSUME Inv, Listen
    PROVE  Inv'
<1>1. /\ visit \in Visit /\ visit' = visit /\ cubit' = cubit
      /\ running \in [Visit -> [Sender -> Nat]]
      /\ inFlight \subseteq Sender
      /\ inFlight = {s \in Sender : running[visit][s] > 0}
  BY DEF Inv, TypeOK, Listen, InFlightIsRunning
<1> DEFINE row == [s \in Sender |-> IF s \in Missing THEN running[visit][s] + 1
                                    ELSE running[visit][s]]
<1>2. /\ running' = [running EXCEPT ![visit] = row]
      /\ inFlight' = inFlight \union Missing
  BY DEF Listen, Prefetch
<1>3. row \in [Sender -> Nat] /\ Missing \subseteq Sender
  BY <1>1 DEF Missing, Unlinked
<1> HIDE DEF row
<1>4. running' \in [Visit -> [Sender -> Nat]] /\ inFlight' \subseteq Sender
  BY <1>1, <1>2, <1>3
<1>5. \A v \in Visit, s \in Sender :
         running'[v][s] = IF v = visit THEN row[s] ELSE running[v][s]
  BY <1>1, <1>2
<1>6. \A s \in Sender : s \in Missing => running[visit][s] = 0
  BY <1>1 DEF Missing
<1>7. \A s \in Sender :
         row[s] = IF s \in Missing THEN 1 ELSE running[visit][s]
  BY <1>6 DEF row
<1>8. TypeOK'
  <2>1. shown' \in [DOMAIN shown' -> BOOLEAN] /\ DOMAIN shown' \subseteq messages
    BY DEF Listen, Items
  <2> QED
    BY <1>1, <1>4, <2>1 DEF Inv, TypeOK, Listen, data
<1>9. FutureIdle'
  BY <1>1, <1>5 DEF Inv, FutureIdle, Visit
<1>10. OneLoadPerSender'
  BY <1>1, <1>5, <1>7 DEF Inv, OneLoadPerSender
<1>11. InFlightIsRunning'
  BY <1>1, <1>2, <1>3, <1>5, <1>7 DEF InFlightIsRunning
<1> QED
  BY <1>8, <1>9, <1>10, <1>11 DEF Inv

\* The end of a load, of whichever visit, takes one load off its cubit and the
\* sender out of the set of the cubit on the screen if it is that one's.
LEMMA LoadedInv ==
    ASSUME Inv, NEW v \in Visit, NEW s \in Sender, NEW ok \in BOOLEAN,
           running[v][s] > 0, Loaded(v, s, ok), visit' = visit, cubit' = cubit
    PROVE  /\ running' \in [Visit -> [Sender -> Nat]] /\ inFlight' \subseteq Sender
           /\ FutureIdle' /\ InFlightIsRunning' /\ OneLoadPerSender'
<1>1. /\ visit \in Visit
      /\ running \in [Visit -> [Sender -> Nat]]
      /\ inFlight \subseteq Sender
  BY DEF Inv, TypeOK
<1>2. running[v][s] = 1
  BY <1>1 DEF Inv, OneLoadPerSender
<1>3. running' = [running EXCEPT ![v][s] = 0]
  BY <1>1, <1>2 DEF Loaded
<1>4. /\ running' \in [Visit -> [Sender -> Nat]]
      /\ \A w \in Visit, r \in Sender :
            running'[w][r] = IF w = v /\ r = s THEN 0 ELSE running[w][r]
  BY <1>1, <1>3
<1>5. inFlight' \subseteq Sender
  BY <1>1 DEF Loaded
<1>6. FutureIdle' /\ OneLoadPerSender'
  BY <1>1, <1>4 DEF Inv, FutureIdle, OneLoadPerSender
<1>7. InFlightIsRunning'
  <2> SUFFICES ASSUME cubit # "closed"
               PROVE  inFlight' = {r \in Sender : running'[visit][r] > 0}
    BY DEF InFlightIsRunning
  <2>1. inFlight = {r \in Sender : running[visit][r] > 0}
    BY DEF Inv, InFlightIsRunning
  <2>2. CASE v = visit
    BY <2>1, <2>2, <1>1, <1>4 DEF Loaded
  <2>3. CASE v # visit
    BY <2>1, <2>3, <1>1, <1>4 DEF Loaded
  <2> QED
    BY <2>2, <2>3
<1> QED
  BY <1>4, <1>5, <1>6, <1>7

\* Every step of the screen, of Realm and of the server keeps the invariant.
LEMMA NextInv ==
    ASSUME Inv, [Next]_vars
    PROVE  Inv'
<1>1. CASE Observe
  <2>1. TypeOK'
    BY <1>1 DEF Inv, TypeOK, Observe, loads, data
  <2> QED
    BY <1>1, <2>1, LoadsFrame DEF Inv, Observe
<1>2. CASE Listen
  BY <1>2, ListenInv
<1>3. CASE Close
  <2>1. TypeOK'
    BY <1>3 DEF Inv, TypeOK, Close, data
  <2>2. FutureIdle' /\ InFlightIsRunning' /\ OneLoadPerSender'
    BY <1>3 DEF Inv, Close, FutureIdle, InFlightIsRunning, OneLoadPerSender
  <2> QED
    BY <2>1, <2>2 DEF Inv
<1>4. CASE Open
  <2>1. visit \in Visit /\ visit' = visit + 1 /\ visit' \in Visit /\ visit' > visit
    BY <1>4, VisitsAssumption DEF Inv, TypeOK, Open, Visit
  <2>2. TypeOK'
    <3>1. shown' \in [DOMAIN shown' -> BOOLEAN] /\ DOMAIN shown' = {}
      BY <1>4 DEF Open
    <3> QED
      BY <1>4, <2>1, <3>1 DEF Inv, TypeOK, Open, data
  <2>3. running' = running /\ inFlight' = {}
    BY <1>4 DEF Open
  <2>4. FutureIdle' /\ OneLoadPerSender'
    BY <2>1, <2>3 DEF Inv, FutureIdle, OneLoadPerSender, Visit
  <2>5. \A s \in Sender : running'[visit'][s] = 0
    BY <2>1, <2>3 DEF Inv, FutureIdle
  <2> QED
    BY <2>2, <2>3, <2>4, <2>5 DEF Inv, InFlightIsRunning
<1>5. ASSUME NEW v \in Visit, NEW s \in Sender, LoadSucceeds(v, s)
      PROVE  Inv'
  <2>1. /\ running' \in [Visit -> [Sender -> Nat]] /\ inFlight' \subseteq Sender
        /\ FutureIdle' /\ InFlightIsRunning' /\ OneLoadPerSender'
    BY <1>5, LoadedInv DEF LoadSucceeds
  <2>2. /\ messages' = messages /\ users' \subseteq profiles
        /\ fired' \in BOOLEAN /\ (fired' => cubit = "observing")
    BY <1>5, StoreType DEF LoadSucceeds, Inv
  <2>3. TypeOK'
    BY <1>5, <2>1, <2>2 DEF Inv, TypeOK, LoadSucceeds
  <2> QED
    BY <2>1, <2>3 DEF Inv
<1>6. ASSUME NEW v \in Visit, NEW s \in Sender, LoadFails(v, s)
      PROVE  Inv'
  <2>1. /\ running' \in [Visit -> [Sender -> Nat]] /\ inFlight' \subseteq Sender
        /\ FutureIdle' /\ InFlightIsRunning' /\ OneLoadPerSender'
    BY <1>6, LoadedInv DEF LoadFails, screen
  <2>2. TypeOK'
    BY <1>6, <2>1 DEF Inv, TypeOK, LoadFails, screen, data
  <2> QED
    BY <2>1, <2>2 DEF Inv
<1>7. ASSUME NEW m \in Message, SendMessage(m) \/ SendFails(m)
      PROVE  Inv'
  <2>1. TypeOK'
    BY <1>7 DEF Inv, TypeOK, SendMessage, SendFails, screen, loads, data
  <2> QED
    BY <1>7, <2>1, LoadsFrame DEF Inv, SendMessage, SendFails, screen
<1>8. ASSUME NEW m \in Message, MessageCreated(m) \/ MessageArrives(m)
      PROVE  Inv'
  <2>1. StoreMessage(m)
    BY <1>8 DEF MessageCreated, MessageArrives
  <2>2. /\ messages \subseteq messages' /\ messages' \subseteq Message
        /\ users' = users
        /\ fired' \in BOOLEAN /\ (fired' => cubit = "observing")
    BY <2>1, StoreType DEF Inv
  <2>3. TypeOK'
    BY <1>8, <2>2 DEF Inv, TypeOK, MessageCreated, MessageArrives, loads
  <2> QED
    BY <1>8, <2>3, LoadsFrame DEF Inv, MessageCreated, MessageArrives
<1>9. ASSUME NEW s \in Sender, UserArrives(s)
      PROVE  Inv'
  <2>1. /\ messages' = messages /\ users' \subseteq profiles
        /\ fired' \in BOOLEAN /\ (fired' => cubit = "observing")
    BY <1>9, StoreType DEF Inv, UserArrives
  <2>2. TypeOK'
    BY <1>9, <2>1 DEF Inv, TypeOK, UserArrives, loads
  <2> QED
    BY <1>9, <2>2, LoadsFrame DEF Inv, UserArrives
<1>10. ASSUME NEW s \in Sender, ProfileCreated(s)
       PROVE  Inv'
  <2>1. TypeOK'
    BY <1>10 DEF Inv, TypeOK, ProfileCreated, screen, loads, data
  <2> QED
    BY <1>10, <2>1, LoadsFrame DEF Inv, ProfileCreated, screen
<1>11. CASE UNCHANGED vars
  <2>1. TypeOK'
    BY <1>11 DEF Inv, TypeOK, vars
  <2> QED
    BY <1>11, <2>1, LoadsFrame DEF Inv, vars, loads
<1> QED
  BY <1>1, <1>2, <1>3, <1>4, <1>5, <1>6, <1>7, <1>8, <1>9, <1>10, <1>11
     DEF Next, Answered

\* The conversation screen is type correct in every reachable state: nothing
\* is shown that Realm does not hold, and only an observing cubit has an event.
THEOREM TypeCorrect == Spec => []TypeOK
<1>1. Inv /\ [Next]_vars => Inv'
  BY NextInv
<1>2. Inv => TypeOK
  BY DEF Inv
<1> QED
  BY <1>1, <1>2, InitInv, PTL DEF Spec

\* _inFlightSenderIds is at all times the set of senders the cubit on the
\* screen is loading, however loads end and however the screen is reopened.
THEOREM InFlightCorrect == Spec => []InFlightIsRunning
<1>1. Inv /\ [Next]_vars => Inv'
  BY NextInv
<1>2. Inv => InFlightIsRunning
  BY DEF Inv
<1> QED
  BY <1>1, <1>2, InitInv, PTL DEF Spec

\* No cubit ever has two getUser calls for one sender under way.
THEOREM FetchesDeduped == Spec => []OneLoadPerSender
<1>1. Inv /\ [Next]_vars => Inv'
  BY NextInv
<1>2. Inv => OneLoadPerSender
  BY DEF Inv
<1> QED
  BY <1>1, <1>2, InitInv, PTL DEF Spec
=============================================================================
