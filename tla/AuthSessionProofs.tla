------------------------- MODULE AuthSessionProofs -------------------------
(***************************************************************************)
(* Proofs about AuthSession, for any accounts, any number of calls and     *)
(* reads and any bound.                                                    *)
(*                                                                         *)
(* The writers of the cached fields are four: the ends of the flows set    *)
(* both, an answer without a user drops the flag, a token read sets both   *)
(* and does not wake the router.  So a screen behind the login without an  *)
(* authenticated user is waiting for a redirect, or a read has come late.  *)
(*                                                                         *)
(* That the three places that name the user agree takes what flows that    *)
(* do not overlap know of each other: one call is under way at a time,     *)
(* none while the router has yet to look or a token is being read; a       *)
(* sign-in or sign-up runs on the login screen, where nobody is signed in, *)
(* with the Firebase session its own once Firebase has answered; a         *)
(* sign-out runs behind the login; and a token read, after the first one,  *)
(* finds the token removed.                                                *)
(***************************************************************************)
EXTENDS AuthSession, TLAPS

Names == User \union {Nobody}
FlowType == [at : Place, user : Names]

\* Writes and reads are issued one after the other.
Queues == writes \in Seq(Names) /\ reads \in Seq(Names)

Undisturbed == "overlap" \notin disturbed

\* Until the first redirect nothing is under way but one read of the token.
StartQuiet ==
    location = "start" =>
        /\ ~refresh /\ ~opened /\ AllIdle
        /\ reads = <<>> \/ (isAuth = "unknown" /\ Len(reads) = 1)

\* The cached fields are empty only until the first redirect.
KnownAfterStart == isAuth = "unknown" => location = "start"

\* The caches and the routes, as every step must keep them.
Surface == CachesAgree /\ GuardedRoutes /\ StartQuiet /\ KnownAfterStart

\* Flows that do not overlap run one at a time, not while a redirect is due and
\* not while a token is read.
Sequential ==
    /\ \A f, g \in Flow : flow[f] # Idle /\ flow[g] # Idle => f = g
    /\ refresh \/ reads # <<>> => AllIdle

\* A read finds the token of a restart, if it is the first one, or none.
Reading ==
    /\ reads # <<>> => uid = Nobody
    /\ \A i \in DOMAIN reads : /\ reads[i] \in {NewestToken, Nobody}
                               /\ location # "start" => reads[i] = Nobody

\* Who has just signed in is still on the login screen until the redirect.
LoginIsSignedOut == location = "auth" => uid = Nobody \/ refresh

\* A sign-in or sign-up under way: Firebase, once it has answered, is signed in
\* for it, and a sign-in has its token on the way to the disk.
Entering ==
    \A f \in InFlight({"register", "upload", "create", "login", "get"}) :
        /\ location = "auth"
        /\ flow[f].at \in {"upload", "create", "get"} => firebase = flow[f].user
        /\ flow[f].at = "get" => NewestToken = flow[f].user

\* A sign-out under way, which removes the token before anything else.
Leaving ==
    \A f \in InFlight({"cancel", "signOut", "wipe"}) :
        /\ location = "app" /\ uid # Nobody
        /\ flow[f].at # "cancel" => NewestToken = Nobody

\* Nor is there a token when the user has been signed out.
Left == location = "app" /\ uid = Nobody => NewestToken = Nobody

Orderly == /\ "late" \notin disturbed
           /\ Sequential /\ Reading /\ LoginIsSignedOut /\ Entering /\ Leaving /\ Left
           /\ uid # Nobody => NewestToken \in {uid, Nobody}

\* Without kills, Firebase and the cached id part only when Firebase has
\* signed out, and Firebase agrees with the token at the start.
FirebaseFollows ==
    disturbed = {} =>
        /\ uid # Nobody /\ InFlight({"wipe"}) = {} => firebase = uid
        /\ isAuth = "unknown" => NewestToken = firebase

\* The inductive invariant.
Inv == /\ TypeOK /\ Queues /\ Surface
       /\ Undisturbed => Orderly
       /\ FirebaseFollows
-----------------------------------------------------------------------------
(* The operators.                                                          *)

\* The newest token is the last one written, whoever else's write is pending.
LEMMA WriteTokenNewest ==
    ASSUME Queues, NEW u \in Names, WriteToken(u)
    PROVE  /\ writes' \in Seq(Names) /\ NewestToken' = u /\ token' = token
           /\ \A i \in DOMAIN writes' : writes'[i] = u \/ (i \in DOMAIN writes /\ writes'[i] = writes[i])
BY DEF Queues, WriteToken, NewestToken, Names

\* The newest token names an account or nobody.
LEMMA NewestTokenType ==
    ASSUME TypeOK, Queues
    PROVE  NewestToken \in accounts \union {Nobody}
BY DEF TypeOK, Queues, NewestToken

\* Only one call changes in a step of a flow.
LEMMA FlowUpdate ==
    ASSUME TypeOK, NEW f \in Flow, NEW next \in FlowType,
           flow' = [flow EXCEPT ![f] = next]
    PROVE  /\ flow' \in [Flow -> FlowType]
           /\ \A g \in Flow : flow'[g] = IF g = f THEN next ELSE flow[g]
BY DEF TypeOK, FlowType, Names

\* A call that is not idle waits for something.
LEMMA IdleType == Idle \in FlowType /\ \A w \in FlowType : w.at # "idle" => w # Idle
BY DEF Idle, FlowType, Names, Place
-----------------------------------------------------------------------------
(* The flows.                                                              *)

\* A flow starts: nothing is done yet but for the call, and one that starts
\* while another, a read or a redirect is under way counts as overlapping.
LEMMA StartInv ==
    ASSUME Inv, NEW f \in Flow, NEW next \in FlowType, Start(f, next),
           \/ next.at \in {"register", "login"} /\ location = "auth" /\ next.user \in User
           \/ next.at = "cancel" /\ location = "app",
           loading' \subseteq InFlight({"login", "get"})',
           UNCHANGED <<cloud, disk, cached, reads, realm, ui>>
    PROVE  Inv'
<1>1. /\ flow' \in [Flow -> FlowType] /\ next # Idle
      /\ \A g \in Flow : flow'[g] = IF g = f THEN next ELSE flow[g]
  BY FlowUpdate, IdleType DEF Start, Inv
<1>2. /\ UNCHANGED <<accounts, profiles, firebase, token, writes, isAuth, uid, reads, realm,
                     location, opened, refresh>>
      /\ flow[f] = Idle /\ flows' = flows + 1 /\ flows < MaxFlows
      /\ disturbed \subseteq disturbed' /\ disturbed' \subseteq disturbed \union {"overlap"}
      /\ NewestToken' = NewestToken
  BY DEF Start, cloud, disk, cached, ui, NewestToken
<1>3. TypeOK'
  <2>1. \A g \in Flow :
           /\ flow'[g].at \in {"register", "login"} => flow'[g].user \in User
           /\ flow'[g].at \in {"upload", "create", "get"} => flow'[g].user \in accounts
    BY <1>1 DEF Inv, TypeOK, InFlight
  <2>2. flows' \in 0..MaxFlows
    BY <1>2, BoundAssumption DEF Inv, TypeOK
  <2> QED
    BY <1>1, <1>2, <2>1, <2>2 DEF Inv, TypeOK, InFlight, FlowType, Names
<1>4. Queues' /\ Surface'
  BY <1>2 DEF Inv, Queues, Surface, CachesAgree, GuardedRoutes, StartQuiet, KnownAfterStart
<1>5. ASSUME Undisturbed'
      PROVE  Undisturbed /\ Orderly /\ AllIdle /\ reads = <<>> /\ ~refresh /\ disturbed' = disturbed
  BY <1>5 DEF Inv, Start, Undisturbed
<1>6. ASSUME Undisturbed' PROVE Orderly'
  <2>1. location = "auth" => uid = Nobody
    BY <1>5, <1>6 DEF Orderly, LoginIsSignedOut
  <2>2. location = "app" => uid # Nobody
    BY <1>5, <1>6 DEF Inv, Orderly, Surface, GuardedRoutes, CachesAgree
  <2>3. Sequential' /\ Reading' /\ LoginIsSignedOut' /\ Left'
    BY <1>1, <1>2, <1>5, <1>6, <2>1
       DEF Orderly, Sequential, Reading, LoginIsSignedOut, Left, AllIdle
  <2>4. Entering' /\ Leaving'
    BY <1>1, <1>2, <1>5, <1>6, <2>2 DEF Entering, Leaving, InFlight, AllIdle, Idle
  <2> QED
    BY <1>2, <1>5, <1>6, <2>3, <2>4 DEF Orderly
<1>7. FirebaseFollows'
  BY <1>1, <1>2 DEF Inv, FirebaseFollows, InFlight, Idle
<1> QED
  BY <1>3, <1>4, <1>6, <1>7 DEF Inv

\* A press starts a flow.
LEMMA PressInv ==
    ASSUME Inv, NEW f \in Flow,
           (\E u \in User : SignUp(f, u) \/ SignIn(f, u)) \/ SignOut(f)
    PROVE  Inv'
<1>1. ASSUME NEW next \in FlowType, Start(f, next)
      PROVE  /\ \A g \in Flow : flow'[g] = IF g = f THEN next ELSE flow[g]
             /\ flow[f].at = "idle"
  <2>1. flow' = [flow EXCEPT ![f] = next] /\ flow[f].at = "idle" /\ TypeOK
    BY <1>1 DEF Inv, Start, Idle
  <2> QED
    BY <2>1, FlowUpdate
<1>2. loading \subseteq InFlight({"login", "get"})
  BY DEF Inv, TypeOK
<1>3. ASSUME NEW u \in User, SignUp(f, u) PROVE Inv'
  <2>1. Waiting("register", u) \in FlowType /\ Waiting("register", u).at = "register"
        /\ Waiting("register", u).user = u
    BY DEF Waiting, FlowType, Names, Place
  <2>2. loading' \subseteq InFlight({"login", "get"})'
    BY <1>3 DEF SignUp
  <2> QED
    BY <1>3, <2>1, <2>2, StartInv DEF SignUp
<1>4. ASSUME NEW u \in User, SignIn(f, u) PROVE Inv'
  <2>1. Waiting("login", u) \in FlowType /\ Waiting("login", u).at = "login"
        /\ Waiting("login", u).user = u
    BY DEF Waiting, FlowType, Names, Place
  <2>2. loading' \subseteq InFlight({"login", "get"})'
    BY <1>1, <1>4, <2>1 DEF SignIn, InFlight
  <2> QED
    BY <1>4, <2>1, <2>2, StartInv DEF SignIn
<1>5. CASE SignOut(f)
  <2>1. uid \in Names
    BY DEF Inv, TypeOK, Names
  <2>2. Waiting("cancel", uid) \in FlowType /\ Waiting("cancel", uid).at = "cancel"
    BY <2>1 DEF Waiting, FlowType, Place
  <2>3. loading' \subseteq InFlight({"login", "get"})'
    BY <1>1, <1>2, <1>5, <2>2 DEF SignOut, InFlight
  <2> QED
    BY <1>5, <2>2, <2>3, StartInv DEF SignOut
<1> QED
  BY <1>3, <1>4, <1>5

\* The parts of Orderly that a call going on can disturb.
LEMMA GoesOnInv ==
    ASSUME Inv, NEW f \in Flow, NEW next \in FlowType, Goes(f, next),
           flow[f].at # "idle", next.at # "idle", next.user = flow[f].user,
           flow[f].at \in {"login", "get"} => next.at \in {"login", "get"},
           UNCHANGED <<profiles, cached, realm, ui>>,
           accounts \subseteq accounts', accounts' \subseteq User, token' = token,
           writes' \in Seq(Names), firebase' \in accounts' \union {Nobody},
           \A i \in DOMAIN writes' : writes'[i] \in accounts' \union {Nobody},
           next.at \in {"upload", "create", "get"} => next.user \in accounts',
           \/ /\ flow[f].at \in {"register", "upload", "login"}
              /\ next.at \in {"upload", "create", "get"} /\ firebase' = next.user
              /\ NewestToken' = IF next.at = "get" THEN next.user ELSE NewestToken
           \/ /\ flow[f].at = "upload" /\ next.at = "create"
              /\ firebase' = firebase /\ NewestToken' = NewestToken
           \/ /\ flow[f].at \in {"cancel", "signOut"} /\ next.at \in {"signOut", "wipe"}
              /\ next.at # "wipe" => firebase' = firebase
              /\ NewestToken' = IF flow[f].at = "cancel" THEN Nobody ELSE NewestToken
    PROVE  Inv'
<1>1. /\ flow' \in [Flow -> FlowType] /\ flow[f] # Idle
      /\ \A g \in Flow : flow'[g] = IF g = f THEN next ELSE flow[g]
  BY FlowUpdate, IdleType DEF Inv, Goes, TypeOK, FlowType, Names
<1>2. /\ UNCHANGED <<isAuth, uid, realm, location, opened, refresh, reads, flows, disturbed>>
      /\ loading' = loading /\ location # "start" /\ next # Idle
  BY <1>1, IdleType DEF Inv, Surface, StartQuiet, AllIdle, Goes, cached, ui
<1>3. TypeOK' /\ Queues'
  <2>1. \A g \in Flow :
           /\ flow'[g].at \in {"register", "login"} => flow'[g].user \in User
           /\ flow'[g].at \in {"upload", "create", "get"} => flow'[g].user \in accounts'
    BY <1>1 DEF Inv, TypeOK, InFlight
  <2>2. loading' \subseteq InFlight({"login", "get"})'
    BY <1>1, <1>2 DEF Inv, TypeOK, InFlight
  <2> QED
    BY <1>1, <1>2, <2>1, <2>2 DEF Inv, TypeOK, Queues, InFlight, FlowType, Names
<1>4. Surface'
  BY <1>2 DEF Inv, Surface, CachesAgree, GuardedRoutes, StartQuiet, KnownAfterStart
<1>5. ASSUME Undisturbed
      PROVE  /\ Orderly /\ ~refresh /\ reads = <<>>
             /\ \A g \in Flow : g # f => flow[g].at = "idle"
  BY <1>1, <1>5 DEF Inv, Orderly, Sequential, AllIdle, Idle
<1>6. ASSUME Undisturbed
      PROVE  /\ flow[f].at \in {"register", "upload", "login"} => location = "auth" /\ uid = Nobody
             /\ flow[f].at \in {"cancel", "signOut"} => location = "app" /\ uid # Nobody
  BY <1>5, <1>6 DEF Orderly, Entering, Leaving, LoginIsSignedOut, InFlight
<1>7. ASSUME Undisturbed PROVE Orderly'
  <2>1. Sequential' /\ Reading' /\ LoginIsSignedOut'
    BY <1>1, <1>2, <1>5, <1>7 DEF Orderly, Sequential, Reading, LoginIsSignedOut, AllIdle
  <2>2. Entering'
    BY <1>1, <1>2, <1>5, <1>6, <1>7 DEF Orderly, Entering, InFlight
  <2>3. Leaving'
    BY <1>1, <1>2, <1>5, <1>6, <1>7 DEF Orderly, Leaving, InFlight
  <2>4. Left' /\ (uid' # Nobody => NewestToken' \in {uid', Nobody})
    BY <1>2, <1>5, <1>6, <1>7 DEF Orderly, Left
  <2> QED
    BY <1>2, <1>5, <1>7, <2>1, <2>2, <2>3, <2>4 DEF Orderly
<1>8. FirebaseFollows'
  <2> SUFFICES ASSUME disturbed = {} PROVE FirebaseFollows'
    BY <1>2 DEF FirebaseFollows
  <2>1. isAuth # "unknown" /\ Undisturbed
    BY <1>2 DEF Inv, Surface, KnownAfterStart, Undisturbed
  <2>2. CASE next.at = "wipe"
    BY <1>1, <1>2, <2>1, <2>2 DEF FirebaseFollows, InFlight
  <2>3. CASE next.at # "wipe"
    <3>1. uid # Nobody => firebase' = firebase /\ flow[f].at # "wipe"
      BY <1>6, <2>1, <2>3
    <3>2. uid # Nobody => InFlight({"wipe"}) = {}
      BY <1>5, <2>1, <3>1 DEF InFlight
    <3> QED
      BY <1>2, <2>1, <3>1, <3>2 DEF Inv, FirebaseFollows
  <2> QED
    BY <2>2, <2>3
<1> QED
  BY <1>2, <1>3, <1>4, <1>7, <1>8 DEF Inv, Undisturbed

\* The steps from one await to the next.
LEMMA MiddleInv ==
    ASSUME Inv, NEW f \in Flow,
           \/ SignUpRegistered(f) \/ SignUpUploaded(f) \/ SignInAccepted(f)
           \/ SignOutBegins(f) \/ SignOutFirebase(f)
    PROVE  Inv'
<1> DEFINE u == flow[f].user
<1>1. /\ u \in Names /\ Queues /\ TypeOK /\ writes \in Seq(Names)
      /\ flow[f].at \in {"upload", "create", "get"} => u \in accounts
      /\ accounts \subseteq User /\ firebase \in accounts \union {Nobody}
      /\ \A i \in DOMAIN writes : writes[i] \in accounts \union {Nobody}
  BY DEF Inv, TypeOK, Names, InFlight, Queues
<1>2. \A at \in Place : Waiting(at, u) \in FlowType /\ Waiting(at, u).at = at
                          /\ Waiting(at, u).user = u
  BY <1>1 DEF Waiting, FlowType
<1>3. {"upload", "create", "get", "signOut", "wipe"} \subseteq Place
  BY DEF Place
<1>4. CASE SignUpRegistered(f)
  <2>1. u \in User /\ flow[f].at = "register" /\ Goes(f, Waiting("upload", u))
    BY <1>1, <1>4 DEF SignUpRegistered, TypeOK, InFlight
  <2>2. NewestToken' = NewestToken /\ token' = token /\ writes' = writes
    BY <1>4 DEF SignUpRegistered, disk, NewestToken
  <2>3. /\ accounts' = accounts \union {u} /\ firebase' = u
        /\ UNCHANGED <<profiles, cached, realm, ui>>
    BY <1>4 DEF SignUpRegistered
  <2> HIDE DEF u
  <2> QED
    BY <1>1, <1>2, <1>3, <2>1, <2>2, <2>3, GoesOnInv DEF u
<1>5. CASE SignUpUploaded(f)
  <2>1. flow[f].at = "upload" /\ Goes(f, Waiting("create", u))
    BY <1>5 DEF SignUpUploaded
  <2>2. NewestToken' = NewestToken /\ token' = token /\ writes' = writes
    BY <1>5 DEF SignUpUploaded, disk, NewestToken
  <2>3. UNCHANGED <<accounts, firebase, profiles, cached, realm, ui>>
    BY <1>5 DEF SignUpUploaded, cloud
  <2> QED
    BY <1>1, <1>2, <1>3, <2>1, <2>2, <2>3, GoesOnInv
<1>6. CASE SignInAccepted(f)
  <2>1. u \in accounts /\ flow[f].at = "login" /\ Goes(f, Waiting("get", u)) /\ WriteToken(u)
    BY <1>6 DEF SignInAccepted
  <2>2. /\ NewestToken' = u /\ token' = token /\ writes' \in Seq(Names)
        /\ \A i \in DOMAIN writes' : writes'[i] \in accounts \union {Nobody}
    BY <1>1, <2>1, WriteTokenNewest
  <2>3. UNCHANGED <<accounts, profiles, cached, realm, ui>> /\ firebase' = u
    BY <1>6 DEF SignInAccepted
  <2> QED
    BY <1>1, <1>2, <1>3, <2>1, <2>2, <2>3, GoesOnInv
<1>7. CASE SignOutBegins(f)
  <2>1. flow[f].at = "cancel" /\ Goes(f, Waiting("signOut", u)) /\ WriteToken(Nobody)
    BY <1>7 DEF SignOutBegins
  <2>2. /\ NewestToken' = Nobody /\ token' = token /\ writes' \in Seq(Names)
        /\ \A i \in DOMAIN writes' : writes'[i] \in accounts \union {Nobody}
    BY <1>1, <2>1, WriteTokenNewest DEF Names
  <2>3. UNCHANGED <<accounts, firebase, profiles, cached, realm, ui>>
    BY <1>7 DEF SignOutBegins, cloud
  <2> QED
    BY <1>1, <1>2, <1>3, <2>1, <2>2, <2>3, GoesOnInv
<1>8. CASE SignOutFirebase(f)
  <2>1. flow[f].at = "signOut" /\ Goes(f, Waiting("wipe", u)) /\ firebase' = Nobody
    BY <1>8 DEF SignOutFirebase
  <2>2. NewestToken' = NewestToken /\ token' = token /\ writes' = writes
    BY <1>8 DEF SignOutFirebase, disk, NewestToken
  <2>3. UNCHANGED <<accounts, profiles, cached, realm, ui>>
    BY <1>8 DEF SignOutFirebase
  <2> QED
    BY <1>1, <1>2, <1>3, <2>1, <2>2, <2>3, GoesOnInv
<1> QED
  BY <1>4, <1>5, <1>6, <1>7, <1>8

\* What the end of a flow leaves in order: it was the only one.
LEMMA EndsInv ==
    ASSUME Inv, NEW f \in Flow, flow[f].at # "idle", Goes(f, Idle)
    PROVE  /\ \A g \in Flow : flow'[g] = IF g = f THEN Idle ELSE flow[g]
           /\ flow' \in [Flow -> [at : Place, user : Names]]
           /\ UNCHANGED <<reads, flows, disturbed>> /\ location # "start"
           /\ loading' \subseteq InFlight({"login", "get"})'
           /\ \A g \in Flow : /\ flow'[g].at \in {"register", "login"} => flow'[g].user \in User
                              /\ flow'[g].at \in {"upload", "create", "get"} => flow'[g].user \in accounts
           /\ Undisturbed => AllIdle' /\ Orderly /\ ~refresh /\ reads = <<>>
<1>1. /\ flow' \in [Flow -> FlowType] /\ flow[f] # Idle /\ Idle.at = "idle"
      /\ \A g \in Flow : flow'[g] = IF g = f THEN Idle ELSE flow[g]
  BY FlowUpdate, IdleType DEF Inv, Goes, TypeOK, FlowType, Names, Idle
<1>2. /\ UNCHANGED <<reads, flows, disturbed>> /\ location # "start"
      /\ loading' = loading \ {f}
  BY <1>1 DEF Inv, Surface, StartQuiet, AllIdle, Goes
<1>3. /\ loading' \subseteq InFlight({"login", "get"})'
      /\ \A g \in Flow : /\ flow'[g].at \in {"register", "login"} => flow'[g].user \in User
                         /\ flow'[g].at \in {"upload", "create", "get"} => flow'[g].user \in accounts
  BY <1>1, <1>2 DEF Inv, TypeOK, InFlight
<1>4. Undisturbed => AllIdle' /\ Orderly /\ ~refresh /\ reads = <<>>
  BY <1>1 DEF Inv, Orderly, Sequential, AllIdle
<1> QED
  BY <1>1, <1>2, <1>3, <1>4 DEF FlowType

\* A call that fails, or that Firebase answers without a user.
LEMMA FailsInv ==
    ASSUME Inv, NEW f \in Flow, flow[f].at \notin {"idle", "wipe"}, Goes(f, Idle),
           UNCHANGED <<cloud, disk, realm>>,
           \/ UNCHANGED <<cached, ui>>
           \/ NoUser /\ flow[f].at \in {"register", "login"}
    PROVE  Inv'
<1>1. /\ \A g \in Flow : flow'[g] = IF g = f THEN Idle ELSE flow[g]
      /\ flow' \in [Flow -> [at : Place, user : Names]]
      /\ UNCHANGED <<reads, flows, disturbed>> /\ location # "start"
      /\ loading' \subseteq InFlight({"login", "get"})'
      /\ \A g \in Flow : /\ flow'[g].at \in {"register", "login"} => flow'[g].user \in User
                         /\ flow'[g].at \in {"upload", "create", "get"} => flow'[g].user \in accounts
      /\ Undisturbed => AllIdle' /\ Orderly /\ ~refresh /\ reads = <<>>
  BY EndsInv
<1>2. /\ UNCHANGED <<accounts, profiles, firebase, token, writes, uid, location, opened, realm>>
      /\ \/ isAuth' = isAuth /\ refresh' = refresh
         \/ isAuth' = "no" /\ refresh' = TRUE
      /\ NewestToken' = NewestToken
  BY DEF cloud, disk, cached, ui, NoUser, NewestToken
<1>3. TypeOK' /\ Queues'
  BY <1>1, <1>2 DEF Inv, TypeOK, Queues, InFlight, Names
<1>4. Undisturbed => isAuth' = isAuth \/ uid = Nobody
  <2>1. ASSUME Undisturbed, NoUser, flow[f].at \in {"register", "login"} PROVE uid = Nobody
    BY <1>1, <2>1 DEF Orderly, Entering, LoginIsSignedOut, InFlight
  <2> QED
    BY <2>1 DEF cached
<1>5. Surface'
  BY <1>1, <1>2, <1>4 DEF Inv, Surface, CachesAgree, GuardedRoutes, StartQuiet,
                          KnownAfterStart, Undisturbed
<1>6. ASSUME Undisturbed PROVE Orderly'
  <2>1. InFlight({"register", "upload", "create", "login", "get"})' = {}
        /\ InFlight({"cancel", "signOut", "wipe"})' = {}
    BY <1>1, <1>6 DEF InFlight, AllIdle, Idle
  <2>2. Entering' /\ Leaving'
    BY <2>1 DEF Entering, Leaving
  <2>3. Sequential' /\ Reading' /\ LoginIsSignedOut' /\ Left'
    BY <1>1, <1>2, <1>6 DEF Orderly, Sequential, Reading, LoginIsSignedOut, Left, AllIdle
  <2> QED
    BY <1>1, <1>2, <1>6, <2>2, <2>3 DEF Orderly
<1>7. FirebaseFollows'
  BY <1>1, <1>2 DEF Inv, FirebaseFollows, InFlight, Idle
<1> QED
  BY <1>1, <1>3, <1>5, <1>6, <1>7 DEF Inv, Undisturbed

\* The end of a flow that sets both cached fields, for u: the account that
\* Firebase and the token name already, or nobody.
LEMMA BecomeInv ==
    ASSUME Inv, NEW f \in Flow, flow[f].at # "idle", Goes(f, Idle),
           NEW u \in accounts \union {Nobody}, Become(u), UNCHANGED <<accounts, firebase, token>>,
           profiles' \subseteq accounts, realm' \subseteq accounts,
           writes' \in Seq(Names),
           \A i \in DOMAIN writes' : writes'[i] \in accounts \union {Nobody},
           Undisturbed => NewestToken' = u /\ (u # Nobody => firebase = u)
    PROVE  Inv'
<1>1. /\ \A g \in Flow : flow'[g] = IF g = f THEN Idle ELSE flow[g]
      /\ flow' \in [Flow -> [at : Place, user : Names]]
      /\ UNCHANGED <<reads, flows, disturbed>> /\ location # "start"
      /\ loading' \subseteq InFlight({"login", "get"})'
      /\ \A g \in Flow : /\ flow'[g].at \in {"register", "login"} => flow'[g].user \in User
                         /\ flow'[g].at \in {"upload", "create", "get"} => flow'[g].user \in accounts
      /\ Undisturbed => AllIdle' /\ Orderly /\ ~refresh /\ reads = <<>>
  BY EndsInv
<1>2. /\ isAuth' = (IF u = Nobody THEN "no" ELSE "yes") /\ uid' = u /\ refresh' = TRUE
      /\ location' = location /\ opened' = opened
  BY DEF Become
<1>3. TypeOK' /\ Queues'
  BY <1>1, <1>2 DEF Inv, TypeOK, Queues, InFlight, Names
<1>4. Surface'
  BY <1>1, <1>2 DEF Surface, CachesAgree, GuardedRoutes, StartQuiet, KnownAfterStart
<1>5. ASSUME Undisturbed PROVE Orderly'
  <2>1. InFlight({"register", "upload", "create", "login", "get"})' = {}
        /\ InFlight({"cancel", "signOut", "wipe"})' = {}
    BY <1>1, <1>5 DEF InFlight, AllIdle, Idle
  <2>2. Entering' /\ Leaving'
    BY <2>1 DEF Entering, Leaving
  <2>3. Sequential' /\ Reading' /\ LoginIsSignedOut' /\ Left'
    BY <1>1, <1>2, <1>5 DEF Sequential, Reading, LoginIsSignedOut, Left, AllIdle
  <2> QED
    BY <1>1, <1>2, <1>5, <2>2, <2>3 DEF Orderly
<1>6. FirebaseFollows'
  BY <1>1, <1>2 DEF FirebaseFollows, Undisturbed
<1> QED
  BY <1>1, <1>3, <1>4, <1>5, <1>6 DEF Inv, Undisturbed

\* The last stretches of createUser, signIn and signOut.
LEMMA LastInv ==
    ASSUME Inv, NEW f \in Flow,
           SignUpCreated(f) \/ SignInFound(f) \/ SignOutWiped(f)
    PROVE  Inv'
<1> DEFINE u == flow[f].user
<1>1. /\ Queues /\ writes \in Seq(Names) /\ profiles \subseteq accounts /\ realm \subseteq accounts
      /\ \A i \in DOMAIN writes : writes[i] \in accounts \union {Nobody}
      /\ accounts \subseteq User
  BY DEF Inv, TypeOK, Queues
<1>2. flow[f].at \in {"create", "get"} =>
         u \in accounts /\ (Undisturbed => firebase = u)
  BY DEF Inv, TypeOK, Orderly, Entering, InFlight
<1>3. CASE SignUpCreated(f)
  <2>1. flow[f].at = "create" /\ Goes(f, Idle) /\ Become(u) /\ WriteToken(u)
    BY <1>3 DEF SignUpCreated
  <2>2. /\ UNCHANGED <<accounts, firebase>>
        /\ profiles' = profiles \union {u} /\ realm' = realm \union {u}
    BY <1>3 DEF SignUpCreated
  <2>3. /\ NewestToken' = u /\ token' = token /\ writes' \in Seq(Names)
        /\ \A i \in DOMAIN writes' : writes'[i] \in accounts \union {Nobody}
    BY <1>1, <1>2, <2>1, WriteTokenNewest DEF Names
  <2> QED
    BY <1>1, <1>2, <2>1, <2>2, <2>3, BecomeInv
<1>4. CASE SignInFound(f)
  <2>1. flow[f].at = "get" /\ Goes(f, Idle) /\ Become(u) /\ realm' = realm \union {u}
    BY <1>4 DEF SignInFound
  <2>2. UNCHANGED <<accounts, firebase, profiles, token, writes>> /\ NewestToken' = NewestToken
    BY <1>4 DEF SignInFound, cloud, disk, NewestToken
  <2>3. Undisturbed => NewestToken = u
    BY <2>1 DEF Inv, Orderly, Entering, InFlight
  <2> QED
    BY <1>1, <1>2, <2>1, <2>2, <2>3, BecomeInv
<1>5. CASE SignOutWiped(f)
  <2>1. flow[f].at = "wipe" /\ Goes(f, Idle) /\ Become(Nobody) /\ realm' \subseteq realm
    BY <1>5 DEF SignOutWiped
  <2>2. UNCHANGED <<accounts, firebase, profiles, token, writes>> /\ NewestToken' = NewestToken
    BY <1>5 DEF SignOutWiped, cloud, disk, NewestToken
  <2>3. Undisturbed => NewestToken = Nobody
    BY <2>1 DEF Inv, Orderly, Leaving, InFlight
  <2> QED
    BY <1>1, <2>1, <2>2, <2>3, BecomeInv
<1> QED
  BY <1>3, <1>4, <1>5
-----------------------------------------------------------------------------
(* The getters, the router and the platform.                               *)

\* A token read is issued.  Without overlap it is the first one, or the user
\* has just been signed out and the token is gone.
LEMMA FetchStartsInv ==
    ASSUME Inv, FetchStarts
    PROVE  Inv'
<1>1. /\ UNCHANGED <<accounts, profiles, firebase, token, writes, isAuth, uid, realm, location,
                     opened, refresh, loading, flow, flows>>
      /\ Len(reads) < MaxReads
      /\ disturbed \subseteq disturbed' /\ disturbed' \subseteq disturbed \union {"overlap"}
      /\ NewestToken' = NewestToken
  BY DEF FetchStarts, cloud, disk, cached, ui, NewestToken
<1>2. PICK r \in {NewestToken, Nobody} : reads' = Append(reads, r)
  BY DEF FetchStarts
<1>3. r \in accounts \union {Nobody} /\ r \in Names
  BY NewestTokenType DEF Inv, TypeOK, Names
<1>4. /\ reads' \in Seq(Names) /\ Len(reads') = Len(reads) + 1 /\ reads' # <<>>
      /\ \A i \in DOMAIN reads' : reads'[i] = r \/ (i \in DOMAIN reads /\ reads'[i] = reads[i])
      /\ Len(reads) \in Nat
  BY <1>2, <1>3 DEF Inv, Queues
<1>5. TypeOK' /\ Queues'
  <2>1. /\ Len(reads') <= MaxReads
        /\ \A i \in DOMAIN reads' : reads'[i] \in accounts \union {Nobody}
    BY <1>1, <1>3, <1>4, BoundAssumption DEF Inv, TypeOK
  <2> QED
    BY <1>1, <1>4, <2>1 DEF Inv, TypeOK, Queues, InFlight
<1>6. Surface'
  <2>1. location = "start" => isAuth = "unknown" /\ reads = <<>>
    BY DEF Inv, Surface, StartQuiet, FetchStarts
  <2>2. location = "start" => Len(reads') = 1
    BY <1>4, <2>1
  <2> QED
    BY <1>1, <2>1, <2>2 DEF Inv, Surface, CachesAgree, GuardedRoutes, StartQuiet, AllIdle,
                            KnownAfterStart
<1>7. ASSUME Undisturbed' PROVE Orderly'
  <2>1. Orderly /\ disturbed' = disturbed /\ AllIdle /\ location # "auth"
    BY <1>7 DEF Inv, FetchStarts, Undisturbed
  <2>2. uid = Nobody
    BY <1>7, <2>1 DEF FetchStarts, Inv, Surface, CachesAgree, Undisturbed
  <2>3. location # "start" => NewestToken = Nobody
    BY <2>1, <2>2 DEF Inv, TypeOK, Orderly, Left
  <2>4. Reading'
    BY <1>1, <1>4, <2>1, <2>2, <2>3 DEF Orderly, Reading
  <2>5. Sequential' /\ LoginIsSignedOut' /\ Entering' /\ Leaving' /\ Left'
    BY <1>1, <2>1 DEF Orderly, Sequential, LoginIsSignedOut, Entering, Leaving, Left,
                      AllIdle, InFlight
  <2> QED
    BY <1>1, <2>1, <2>4, <2>5 DEF Orderly
<1>8. FirebaseFollows'
  BY <1>1 DEF Inv, FirebaseFollows, InFlight
<1> QED
  BY <1>5, <1>6, <1>7, <1>8 DEF Inv

\* A token read returns.  If it takes the flag of a user behind the login, an
\* id was cached meanwhile, or a redirect is due already.
LEMMA FetchedInv ==
    ASSUME Inv, Fetched
    PROVE  Inv'
<1> DEFINE r == Head(reads)
<1>1. /\ UNCHANGED <<accounts, profiles, firebase, token, writes, realm, location,
                     opened, refresh, loading, flow, flows>>
      /\ uid' = r /\ isAuth' = (IF r = Nobody THEN "no" ELSE "yes") /\ reads' = Tail(reads)
      /\ disturbed' = IF uid \in {Nobody, r} THEN disturbed ELSE disturbed \union {"late"}
      /\ reads # <<>> /\ NewestToken' = NewestToken
  BY DEF Fetched, cloud, disk, ui, NewestToken
<1>2. /\ r = reads[1] /\ 1 \in DOMAIN reads /\ reads' \in Seq(Names)
      /\ Len(reads') = Len(reads) - 1 /\ Len(reads) \in Nat
      /\ \A i \in DOMAIN reads' : i + 1 \in DOMAIN reads /\ reads'[i] = reads[i + 1]
  BY <1>1 DEF Inv, Queues
<1> HIDE DEF r
<1>3. TypeOK' /\ Queues'
  <2>1. /\ r \in accounts \union {Nobody} /\ Len(reads') <= MaxReads
        /\ \A i \in DOMAIN reads' : reads'[i] \in accounts \union {Nobody}
    BY <1>2, BoundAssumption DEF Inv, TypeOK
  <2> QED
    BY <1>1, <1>2, <2>1 DEF Inv, TypeOK, Queues, InFlight
<1>4. Surface'
  <2>1. location = "start" => reads' = <<>>
    BY <1>1, <1>2 DEF Inv, Surface, StartQuiet
  <2> QED
    BY <1>1, <2>1 DEF Inv, Surface, CachesAgree, GuardedRoutes, StartQuiet, AllIdle,
                      KnownAfterStart
<1>5. ASSUME Undisturbed'
      PROVE  /\ Orderly /\ AllIdle /\ uid = Nobody /\ disturbed' = disturbed
             /\ r \in {NewestToken, Nobody} /\ (location # "start" => r = Nobody)
  <2>1. Undisturbed
    BY <1>1, <1>5 DEF Undisturbed
  <2> QED
    BY <1>1, <1>2, <2>1 DEF Inv, Orderly, Sequential, Reading
<1>6. ASSUME Undisturbed' PROVE Orderly'
  <2>1. Reading'
    <3>1. reads' # <<>> => location # "start"
      BY <1>1, <1>2 DEF Inv, Surface, StartQuiet
    <3> QED
      BY <1>1, <1>2, <1>5, <1>6, <3>1 DEF Orderly, Reading
  <2>2. Sequential' /\ LoginIsSignedOut' /\ Left'
    BY <1>1, <1>5, <1>6 DEF Orderly, Sequential, LoginIsSignedOut, Left, AllIdle
  <2>3. Entering' /\ Leaving'
    BY <1>1, <1>5, <1>6 DEF Entering, Leaving, AllIdle, InFlight, Idle
  <2> QED
    BY <1>1, <1>5, <1>6, <2>1, <2>2, <2>3 DEF Orderly
<1>7. FirebaseFollows'
  <2> SUFFICES ASSUME disturbed' = {}, r # Nobody PROVE firebase = r
    BY <1>1 DEF FirebaseFollows
  <2>1. location = "start" /\ r = NewestToken /\ disturbed = {}
    BY <1>5 DEF Undisturbed
  <2>2. isAuth = "unknown"
    BY <1>1, <2>1 DEF Inv, Surface, StartQuiet
  <2> QED
    BY <2>1, <2>2 DEF Inv, FirebaseFollows
<1> QED
  BY <1>3, <1>4, <1>6, <1>7 DEF Inv

\* The redirect: flows that do not overlap have ended when it is due, and a
\* sign-out under way still has its user.
LEMMA RedirectInv ==
    ASSUME Inv, Redirect, location = "start" \/ refresh \/ location = "app"
    PROVE  Inv'
<1>1. /\ isAuth # "unknown" /\ refresh' = FALSE
      /\ location' = IF isAuth = "yes" THEN "app" ELSE "auth"
      /\ opened' \in BOOLEAN /\ loading' \subseteq loading
      /\ disturbed' = disturbed \ {"late"}
      /\ UNCHANGED <<accounts, profiles, firebase, token, writes, isAuth, uid, reads, realm,
                     flow, flows>>
      /\ NewestToken' = NewestToken
  BY DEF Redirect, cloud, disk, cached, NewestToken
<1>2. TypeOK' /\ Queues'
  BY <1>1 DEF Inv, TypeOK, Queues, InFlight
<1>3. Surface'
  BY <1>1 DEF Inv, Surface, CachesAgree, GuardedRoutes, StartQuiet, KnownAfterStart
<1>4. ASSUME Undisturbed PROVE Orderly'
  <2>1. Orderly /\ disturbed' = disturbed /\ (uid # Nobody <=> isAuth = "yes")
    BY <1>1, <1>4 DEF Inv, Orderly, Surface, CachesAgree, Undisturbed
  <2>2. Reading'
    <3>1. location = "start" => reads = <<>>
      BY <1>1 DEF Inv, Surface, StartQuiet
    <3> QED
      BY <1>1, <2>1, <3>1 DEF Orderly, Reading
  <2>3. Sequential' /\ LoginIsSignedOut' /\ Left'
    BY <1>1, <2>1 DEF Orderly, Sequential, LoginIsSignedOut, Left, AllIdle
  <2>4. AllIdle \/ location = "app"
    BY <2>1 DEF Inv, Surface, StartQuiet, Orderly, Sequential
  <2>5. Entering'
    BY <1>1, <2>1, <2>4 DEF Orderly, Entering, AllIdle, InFlight, Idle
  <2>6. Leaving'
    BY <1>1, <2>1 DEF Orderly, Leaving, InFlight
  <2> QED
    BY <1>1, <2>1, <2>2, <2>3, <2>5, <2>6 DEF Orderly
<1>5. FirebaseFollows'
  <2>1. disturbed' = {} => disturbed = {}
    <3>1. Undisturbed => "late" \notin disturbed
      BY DEF Inv, Orderly
    <3> QED
      BY <1>1, <3>1 DEF Undisturbed
  <2> QED
    BY <1>1, <2>1 DEF Inv, FirebaseFollows, InFlight
<1> QED
  BY <1>1, <1>2, <1>3, <1>4, <1>5 DEF Inv, Undisturbed

\* A token write that lands changes nothing that a reader sees.
LEMMA TokenLandsInv ==
    ASSUME Inv, TokenLands
    PROVE  Inv'
<1>1. /\ writes' \in Seq(Names) /\ NewestToken' = NewestToken
      /\ token' = writes[1] /\ 1 \in DOMAIN writes
      /\ \A i \in DOMAIN writes' : i + 1 \in DOMAIN writes /\ writes'[i] = writes[i + 1]
  <2>1. writes \in Seq(Names) /\ writes # <<>> /\ token' = Head(writes) /\ writes' = Tail(writes)
    BY DEF Inv, Queues, TokenLands
  <2>2. /\ writes' \in Seq(Names) /\ token' = writes[1] /\ 1 \in DOMAIN writes
        /\ Len(writes) \in Nat \ {0} /\ Len(writes') = Len(writes) - 1
    BY <2>1
  <2>3. \A i \in DOMAIN writes' : i + 1 \in DOMAIN writes /\ writes'[i] = writes[i + 1]
    BY <2>1
  <2>4. CASE Len(writes) = 1
    BY <2>1, <2>2, <2>4 DEF NewestToken
  <2>5. CASE Len(writes) # 1
    <3>1. Len(writes') \in DOMAIN writes' /\ writes' # <<>>
      BY <2>2, <2>5
    <3>2. writes'[Len(writes')] = writes[Len(writes)]
      BY <2>2, <2>3, <3>1
    <3> QED
      BY <2>1, <3>1, <3>2 DEF NewestToken
  <2> QED
    BY <2>2, <2>3, <2>4, <2>5
<1>2. UNCHANGED <<accounts, profiles, firebase, isAuth, uid, reads, realm, location, opened,
                  refresh, loading, flow, flows, disturbed>>
  BY DEF TokenLands, cloud, cached, ui
<1>3. TypeOK' /\ Queues'
  BY <1>1, <1>2 DEF Inv, TypeOK, Queues, InFlight
<1>4. Surface'
  BY <1>2 DEF Inv, Surface, CachesAgree, GuardedRoutes, StartQuiet, AllIdle, KnownAfterStart
<1>5. (Undisturbed => Orderly)' /\ FirebaseFollows'
  BY <1>1, <1>2 DEF Inv, Undisturbed, Orderly, Sequential, Reading, LoginIsSignedOut, Entering,
                    Leaving, Left, AllIdle, InFlight, FirebaseFollows
<1> QED
  BY <1>3, <1>4, <1>5 DEF Inv

\* A kill: the fields are empty again, and reads and writes under way are lost.
LEMMA RestartInv ==
    ASSUME Inv, Restart
    PROVE  Inv'
<1>1. /\ isAuth' = "unknown" /\ uid' = Nobody /\ location' = "start" /\ opened' = FALSE
      /\ refresh' = FALSE /\ flow' = [f \in Flow |-> Idle] /\ loading' = {}
      /\ writes' = <<>> /\ reads' = <<>>
      /\ disturbed' = (disturbed \ {"late"}) \union {"kill"}
      /\ UNCHANGED <<accounts, profiles, firebase, token, realm, flows>>
  BY DEF Restart, cloud
<1>2. /\ flow' \in [Flow -> FlowType] /\ \A f \in Flow : flow'[f] = Idle
      /\ Idle.at = "idle"
  BY <1>1, IdleType DEF Idle
<1>3. /\ writes' \in Seq(Names) /\ DOMAIN writes' = {}
      /\ reads' \in Seq(Names) /\ DOMAIN reads' = {} /\ Len(reads') <= MaxReads
  BY <1>1, BoundAssumption
<1>4. \A places : "idle" \notin places => InFlight(places)' = {}
  BY <1>2 DEF InFlight
<1>5. TypeOK' /\ Queues'
  <2>1. /\ InFlight({"register", "login"})' = {}
        /\ InFlight({"upload", "create", "get"})' = {}
    BY <1>4
  <2> QED
    BY <1>1, <1>2, <1>3, <2>1 DEF Inv, TypeOK, Queues, FlowType, Names
<1>6. Surface'
  BY <1>1, <1>2 DEF Surface, CachesAgree, GuardedRoutes, StartQuiet, AllIdle, KnownAfterStart
<1>7. Orderly' /\ FirebaseFollows'
  <2>1. /\ InFlight({"register", "upload", "create", "login", "get"})' = {}
        /\ InFlight({"cancel", "signOut", "wipe"})' = {}
    BY <1>4
  <2>2. Entering' /\ Leaving'
    BY <2>1 DEF Entering, Leaving
  <2> QED
    BY <1>1, <1>2, <1>3, <2>2 DEF Orderly, Sequential, Reading, LoginIsSignedOut, Left, AllIdle,
                                  FirebaseFollows
<1> QED
  BY <1>5, <1>6, <1>7 DEF Inv
-----------------------------------------------------------------------------
(* The theorems.                                                           *)

\* The app starts with nothing cached and the token of Firebase's user.
LEMMA InitInv == Init => Inv
<1> SUFFICES ASSUME Init PROVE Inv
  OBVIOUS
<1>1. /\ flow \in [Flow -> FlowType] /\ \A f \in Flow : flow[f] = Idle
      /\ Idle.at = "idle"
  BY IdleType DEF Init, Idle
<1>2. /\ writes \in Seq(Names) /\ DOMAIN writes = {}
      /\ reads \in Seq(Names) /\ DOMAIN reads = {} /\ Len(reads) <= MaxReads
      /\ flows \in 0..MaxFlows
  BY BoundAssumption DEF Init
<1>3. \A places : "idle" \notin places => InFlight(places) = {}
  BY <1>1 DEF InFlight
<1>4. TypeOK /\ Queues
  <2>1. /\ InFlight({"register", "login"}) = {}
        /\ InFlight({"upload", "create", "get"}) = {}
    BY <1>3
  <2>2. /\ accounts \subseteq User /\ profiles \subseteq accounts
        /\ realm \subseteq accounts
        /\ {firebase, token, uid} \subseteq accounts \union {Nobody}
    BY DEF Init
  <2> QED
    BY <1>1, <1>2, <2>1, <2>2 DEF Init, TypeOK, Queues, FlowType, Names
<1>5. Surface
  BY <1>1 DEF Init, Surface, CachesAgree, GuardedRoutes, StartQuiet, AllIdle, KnownAfterStart
<1>6. Orderly /\ FirebaseFollows
  <2>1. /\ InFlight({"register", "upload", "create", "login", "get"}) = {}
        /\ InFlight({"cancel", "signOut", "wipe"}) = {}
    BY <1>3
  <2>2. Entering /\ Leaving
    BY <2>1 DEF Entering, Leaving
  <2>3. NewestToken = firebase
    BY DEF Init, NewestToken
  <2> QED
    BY <1>1, <1>2, <2>2, <2>3 DEF Init, Orderly, Sequential, Reading, LoginIsSignedOut, Left,
                                  AllIdle, FirebaseFollows
<1> QED
  BY <1>4, <1>5, <1>6 DEF Inv

\* Every step keeps the invariant.
LEMMA NextInv ==
    ASSUME Inv, [Next]_vars
    PROVE  Inv'
<1>1. ASSUME NEW f \in Flow, Steps(f)
      PROVE  Inv'
  <2>1. CASE SignUpFails(f) \/ SignInFails(f) \/ SignOutFails(f)
    BY <2>1, FailsInv DEF SignUpFails, SignInFails, SignOutFails
  <2>2. CASE SignUpNoUser(f) \/ SignInNoUser(f)
    BY <2>2, FailsInv DEF SignUpNoUser, SignInNoUser
  <2> QED
    BY <1>1, <2>1, <2>2, MiddleInv, LastInv DEF Steps
<1>2. CASE UNCHANGED vars
  <2>1. NewestToken' = NewestToken
    BY <1>2 DEF vars, NewestToken
  <2>2. TypeOK' /\ Queues'
    BY <1>2 DEF Inv, vars, TypeOK, Queues, InFlight
  <2>3. Surface'
    BY <1>2 DEF Inv, vars, Surface, CachesAgree, GuardedRoutes, StartQuiet, AllIdle,
                KnownAfterStart
  <2>4. (Undisturbed => Orderly)' /\ FirebaseFollows'
    BY <1>2, <2>1 DEF Inv, vars, Undisturbed, Orderly, Sequential, Reading, LoginIsSignedOut,
                      Entering, Leaving, Left, AllIdle, InFlight, FirebaseFollows
  <2> QED
    BY <2>2, <2>3, <2>4 DEF Inv
<1>3. CASE RouterRefreshes \/ Navigate
  BY <1>3, RedirectInv DEF RouterRefreshes, Navigate
<1> QED
  BY <1>1, <1>2, <1>3, PressInv, FetchStartsInv, FetchedInv, TokenLandsInv, RestartInv DEF Next

\* The invariant holds in every reachable state.
LEMMA Invariance == Spec => []Inv
<1>1. Inv /\ [Next]_vars => Inv'
  BY NextInv
<1> QED
  BY <1>1, InitInv, PTL DEF Spec

\* Sessions are type correct: a call past Firebase's answer has an account, no
\* place names an account that does not exist, and the login screen waits for
\* a sign-in only while there is one.
THEOREM TypeCorrect == Spec => []TypeOK
<1>1. Inv => TypeOK
  BY DEF Inv
<1> QED
  BY <1>1, Invariance, PTL

\* _isAuthenticated names a user in every reachable state, whatever sign-ins,
\* sign-ups, sign-outs, late reads and kills interleave, and a user id comes
\* with the flag while flows do not overlap, though an answer of Firebase
\* without a user drops the flag alone.
THEOREM CachesAlwaysAgree == Spec => []CachesAgree
<1>1. Inv => CachesAgree
  BY DEF Inv, Surface
<1> QED
  BY <1>1, Invariance, PTL

\* No screen behind the login is on without an authenticated user, a redirect
\* that is due, or a token read that came late since the last redirect.
THEOREM RoutesGuarded == Spec => []GuardedRoutes
<1>1. Inv => GuardedRoutes
  BY DEF Inv, Surface
<1> QED
  BY <1>1, Invariance, PTL

\* While flows do not overlap and the app is not killed, the user id the app
\* acts for is the account Firebase has signed in, however often calls fail.
THEOREM FirebaseAlwaysMatches == Spec => []FirebaseMatches
<1>1. Inv => FirebaseMatches
  BY DEF Inv, FirebaseFollows, FirebaseMatches
<1> QED
  BY <1>1, Invariance, PTL

\* While flows do not overlap, a restart finds the signed-in user's token or
\* none, even after kills that lost token writes.
THEOREM RestartKeepsUser == Spec => []RestartsAsSameUser
<1>1. Inv => RestartsAsSameUser
  BY DEF Inv, Undisturbed, Orderly, RestartsAsSameUser
<1> QED
  BY <1>1, Invariance, PTL
=============================================================================
