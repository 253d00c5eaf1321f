-------------------------------- MODULE Chat --------------------------------
(***************************************************************************)
(* One conversation on the screen: ChatCubit, the Realm query it observes  *)
(* and the senders it loads.                                               *)
(*                                                                         *)
(* Messages come into Realm from the Firestore listener and from           *)
(* sendMessage.  A message whose sender is not in Realm is shown without   *)
(* an avatar; the cubit then loads the sender with UserRepository.getUser, *)
(* at most once at a time, and relies on Realm to fire again when          *)
(* createFromEntity has linked the message to the new user.  The results   *)
(* of the query are live: a firing shows what Realm holds when the         *)
(* debounced listener runs, not when it was triggered.                     *)
(*                                                                         *)
(* Every visit of the screen has a cubit of its own.  Loads are not        *)
(* awaited and outlive the cubit that began them.                          *)
(***************************************************************************)
EXTENDS Naturals

CONSTANTS Message, Sender,
          SenderOf,   \* Message -> Sender
          Me,         \* the signed-in user
          MaxVisits   \* bound on the visits of the screen

ASSUME SenderAssumption == SenderOf \in [Message -> Sender] /\ Me \in Sender
ASSUME VisitsAssumption == MaxVisits \in Nat \ {0}

VARIABLES
    visit,      \* visits begun; the last one is on the screen unless closed
    cubit,      \* "starting" (awaits userId), "observing", "closed"
    isLoading,
    shown,      \* the messages shown, each with or without its avatar
    fired,      \* the stream has an event that the listener has not seen
    inFlight,   \* _inFlightSenderIds
    running,    \* running[v][s]: getUser calls for s of visit v's cubit
    messages,   \* messages of the conversation in Realm
    users,      \* senders in Realm
    profiles,   \* senders with a document on the server
    sending     \* own messages whose createMessage has not returned

screen == <<visit, cubit, isLoading, shown, fired>>
loads == <<inFlight, running>>
data == <<messages, users>>
vars == <<visit, cubit, isLoading, shown, fired, inFlight, running,
          messages, users, profiles, sending>>

Visit == 1..MaxVisits

\* _messagesToItems: message.sender is linked when the sender is in Realm.
Items == [m \in messages |-> SenderOf[m] \in users]

\* External (Realm): a change of the results fires the stream; storing again
\* what is stored already may or may not count as one.
Fires(changed) ==
    fired' \in IF cubit # "observing" THEN {fired}
               ELSE IF changed THEN {TRUE} ELSE {fired, TRUE}

\* createFromEntity of message m.
StoreMessage(m) ==
    /\ messages' = messages \union {m}
    /\ Fires(m \notin messages)
    /\ UNCHANGED users

\* createFromEntity of user s: messages that wait for s are linked, which is
\* a change of the query's results.
StoreUser(s) ==
    /\ users' = users \union {s}
    /\ Fires(s \notin users /\ \E m \in messages : SenderOf[m] = s)
    /\ UNCHANGED messages
-----------------------------------------------------------------------------
(* ChatCubit.                                                              *)

\* _observeMessages after its await: the Realm stream begins with an event.
Observe ==
    /\ cubit = "starting"
    /\ cubit' = "observing"
    /\ fired' = TRUE
    /\ UNCHANGED <<visit, isLoading, shown, loads, data, profiles, sending>>

Unlinked == {s \in Sender \ users : \E m \in messages : SenderOf[m] = s}

\* Mutant of Missing: senders already being loaded are loaded again.
MissingAll == Unlinked

\* Senders to load: not linked and not being loaded.
Missing == Unlinked \ inFlight

\* _prefetchMissingSenders
Prefetch ==
    /\ inFlight' = inFlight \union Missing
    /\ running' = [running EXCEPT ![visit] =
          [s \in Sender |-> IF s \in Missing THEN @[s] + 1 ELSE @[s]]]

\* Mutant of Listen: only the first event updates the list.
ListenOnce ==
    /\ cubit = "observing" /\ fired
    /\ fired' = FALSE
    /\ shown' = IF isLoading THEN Items ELSE shown
    /\ isLoading' = FALSE
    /\ Prefetch
    /\ UNCHANGED <<visit, cubit, data, profiles, sending>>

\* The debounced listener.
Listen ==
    /\ cubit = "observing" /\ fired
    /\ fired' = FALSE
    /\ shown' = Items
    /\ isLoading' = FALSE
    /\ Prefetch
    /\ UNCHANGED <<visit, cubit, data, profiles, sending>>

\* Mutant of Loaded: no finally, so that a failure leaves the id behind.
LoadedOnly(v, s, ok) ==
    /\ running' = [running EXCEPT ![v][s] = @ - 1]
    /\ inFlight' = IF v = visit /\ ok THEN inFlight \ {s} ELSE inFlight

\* The finally block of _loadSendersParallel in the cubit of visit v; the set
\* of an earlier visit is no one's concern any more.
Loaded(v, s, ok) ==
    /\ running' = [running EXCEPT ![v][s] = @ - 1]
    /\ inFlight' = IF v = visit THEN inFlight \ {s} ELSE inFlight

\* getUser finds the document and stores the user.
LoadSucceeds(v, s) ==
    /\ running[v][s] > 0 /\ s \in profiles
    /\ StoreUser(s)
    /\ Loaded(v, s, TRUE)
    /\ UNCHANGED <<visit, cubit, isLoading, shown, profiles, sending>>

\* "User not found" or no network: swallowed, nobody tries again by itself.
LoadFails(v, s) ==
    /\ running[v][s] > 0
    /\ Loaded(v, s, FALSE)
    /\ UNCHANGED <<screen, data, profiles, sending>>

\* sendMessage, up to the await of createMessage.
SendMessage(m) ==
    /\ cubit # "closed" /\ SenderOf[m] = Me
    /\ m \notin messages \union sending
    /\ sending' = sending \union {m}
    /\ UNCHANGED <<screen, loads, data, profiles>>

\* createMessage returns, also after the screen has gone.
MessageCreated(m) ==
    /\ m \in sending
    /\ sending' = sending \ {m}
    /\ StoreMessage(m)
    /\ UNCHANGED <<visit, cubit, isLoading, shown, loads, profiles>>

SendFails(m) ==
    /\ m \in sending
    /\ sending' = sending \ {m}
    /\ UNCHANGED <<screen, loads, data, profiles>>

\* Mutant of Close: the subscription is not cancelled.
CloseNotCancelled ==
    /\ cubit # "closed"
    /\ cubit' = "closed"
    /\ inFlight' = {}
    /\ UNCHANGED <<visit, isLoading, shown, fired, running, data, profiles, sending>>

\* close
Close ==
    /\ cubit # "closed"
    /\ cubit' = "closed"
    /\ inFlight' = {}
    /\ fired' = FALSE
    /\ UNCHANGED <<visit, isLoading, shown, running, data, profiles, sending>>

\* The conversation is opened again from the inbox.
Open ==
    /\ cubit = "closed" /\ visit < MaxVisits
    /\ visit' = visit + 1
    /\ cubit' = "starting" /\ isLoading' = TRUE /\ shown' = [m \in {} |-> FALSE]
    /\ inFlight' = {}
    /\ UNCHANGED <<fired, running, data, profiles, sending>>
-----------------------------------------------------------------------------
(* The rest of the app and the server.                                     *)

\* A snapshot of the messages listener, which lives as long as the stream.
MessageArrives(m) ==
    /\ cubit = "observing" /\ m \notin messages
    /\ StoreMessage(m)
    /\ UNCHANGED <<visit, cubit, isLoading, shown, loads, profiles, sending>>

\* Another screen's listener or read stores a sender.
UserArrives(s) ==
    /\ s \in profiles \ users
    /\ StoreUser(s)
    /\ UNCHANGED <<visit, cubit, isLoading, shown, loads, profiles, sending>>

\* A sender's sign-up creates the document.
ProfileCreated(s) ==
    /\ s \notin profiles
    /\ profiles' = profiles \union {s}
    /\ UNCHANGED <<screen, loads, data, sending>>
-----------------------------------------------------------------------------
Init == /\ visit = 1 /\ cubit = "starting" /\ isLoading = TRUE
        /\ shown = [m \in {} |-> FALSE]
        /\ fired = FALSE
        /\ inFlight = {}
        /\ running = [v \in Visit |-> [s \in Sender |-> 0]]
        /\ messages \in SUBSET Message
        /\ profiles \in SUBSET Sender
        /\ users \in SUBSET profiles
        /\ sending = {}

Answered(v, s) == LoadSucceeds(v, s) \/ LoadFails(v, s)

Next == \/ Observe \/ Listen \/ Close \/ Open
        \/ \E v \in Visit, s \in Sender : Answered(v, s)
        \/ \E m \in Message : \/ SendMessage(m) \/ MessageCreated(m)
                               \/ SendFails(m) \/ MessageArrives(m)
        \/ \E s \in Sender : UserArrives(s) \/ ProfileCreated(s)

\* The event loop runs, and calls are answered or time out.
Fairness == /\ WF_vars(Observe) /\ WF_vars(Listen)
            /\ \A v \in Visit, s \in Sender : WF_vars(Answered(v, s))

Spec == Init /\ [][Next]_vars /\ Fairness
-----------------------------------------------------------------------------
(* Properties.                                                             *)

\* Types; nothing is shown that Realm does not hold, and a closed cubit has
\* no event to handle.
TypeOK ==
    /\ visit \in Visit /\ cubit \in {"starting", "observing", "closed"}
    /\ {isLoading, fired} \subseteq BOOLEAN
    /\ fired => cubit = "observing"
    /\ messages \subseteq Message
    /\ users \subseteq profiles /\ profiles \subseteq Sender
    /\ shown \in [DOMAIN shown -> BOOLEAN] /\ DOMAIN shown \subseteq messages
    /\ inFlight \subseteq Sender
    /\ running \in [Visit -> [Sender -> Nat]]
    /\ sending \subseteq Message

\* "Sender ids currently being loaded": the set is exactly the loads under way
\* of the cubit on the screen.  An id left behind would never be loaded again,
\* one missing would be loaded twice.
InFlightIsRunning ==
    cubit # "closed" => inFlight = {s \in Sender : running[visit][s] > 0}

\* The set "dedupes concurrent fetches": no cubit loads a sender twice at once,
\* whatever events, failures, closes and reopenings interleave.
OneLoadPerSender == \A v \in Visit, s \in Sender : running[v][s] <= 1

\* A screen that stays open ends up showing every message of Realm, with the
\* avatar of every sender that has been stored: "Realm observe should re-fire
\* after getUser hydrates users".
ShownIsCurrent == <>[](cubit # "closed") => <>[](shown = Items /\ ~isLoading)
=============================================================================
