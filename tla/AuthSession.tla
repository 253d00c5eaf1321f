---------------------------- MODULE AuthSession ----------------------------
(***************************************************************************)
(* Who is signed in: AuthRepositoryImpl with the screens that drive it     *)
(* (login, sign-up, account), the token in shared preferences, the         *)
(* Firebase session, and the router's redirect.                            *)
(*                                                                         *)
(* Three places say who the user is and they are written at different      *)
(* moments of a flow: the Firebase session, the token on disk (written     *)
(* without awaiting the platform call) and the two cached fields           *)
(* _isAuthenticated and _userId.  A flow is one call of signIn, createUser *)
(* or signOut; its steps are the stretches between two awaits.  A sign-up  *)
(* goes on after the user has left its screen, so flows can overlap.  The  *)
(* getters read the token with an await of their own before they set the   *)
(* cached fields, and tell nobody.                                         *)
(***************************************************************************)
EXTENDS Naturals, Sequences, FiniteSets

CONSTANTS User,       \* accounts, existing or not yet created
          Nobody,
          Flow,       \* calls in flight
          MaxFlows,   \* bound on the flows started
          MaxReads    \* bound on the token reads under way

ASSUME NobodyAssumption == Nobody \notin User
ASSUME BoundAssumption == {MaxFlows, MaxReads} \subseteq Nat

VARIABLES
    accounts,   \* Firebase Authentication accounts
    profiles,   \* users with a document in the user collection
    firebase,   \* FirebaseAuth.instance.currentUser
    token,      \* TOKEN in shared preferences
    writes,     \* token writes issued and not yet on disk
    isAuth,     \* _isAuthenticated: "unknown" (null), "yes", "no"
    uid,        \* _userId
    reads,      \* _fetch calls under way: what each will read
    realm,      \* users whose data is in the local database
    location,   \* "start", "auth" (login or sign-up), "app" (any other route)
    opened,     \* screens of the app were opened, whose cubits may live on
    loading,    \* the sign-in that the login screen shown waits for, if any
    refresh,    \* notifyListeners has run, the redirect has not
    flow,       \* what each call is waiting for, and for whom
    flows,      \* flows started
    disturbed   \* history: "overlap" once a flow or a read has started before
                \* the last flow had run its course, "kill" once the app was
                \* killed, "late" while the redirect has not heard of a read
                \* that replaced the id cached meanwhile

cached == <<isAuth, uid>>
disk == <<token, writes>>
cloud == <<accounts, profiles, firebase>>
ui == <<location, opened, refresh>>
vars == <<accounts, profiles, firebase, token, writes, isAuth, uid, reads, realm,
          location, opened, loading, refresh, flow, flows, disturbed>>

Idle == [at |-> "idle", user |-> Nobody]
Waiting(place, u) == [at |-> place, user |-> u]
InFlight(places) == {f \in Flow : flow[f].at \in places}
AllIdle == \A f \in Flow : flow[f] = Idle

\* The token once every issued write is on disk.
NewestToken == IF writes = <<>> THEN token ELSE writes[Len(writes)]

\* saveToken and removeToken: the platform call is issued and not awaited.
WriteToken(u) == writes' = Append(writes, u) /\ UNCHANGED token

Start(f, next) == /\ flow[f] = Idle
                  /\ disturbed' = IF AllIdle /\ reads = <<>> /\ ~refresh
                                  THEN disturbed
                                  ELSE disturbed \union {"overlap"}
                  /\ flows < MaxFlows /\ flows' = flows + 1
                  /\ flow' = [flow EXCEPT ![f] = next]

Goes(f, next) == /\ flow' = [flow EXCEPT ![f] = next]
                 /\ loading' = IF next = Idle THEN loading \ {f} ELSE loading
                 /\ UNCHANGED <<flows, disturbed, reads>>

\* Mutant of Become: notifyListeners is forgotten.
BecomeQuietly(u) == /\ isAuth' = IF u = Nobody THEN "no" ELSE "yes"
                    /\ uid' = u
                    /\ UNCHANGED ui

\* The end of signIn, createUser and signOut: the cached fields are set and
\* notifyListeners wakes the router.
Become(u) == /\ isAuth' = IF u = Nobody THEN "no" ELSE "yes"
             /\ uid' = u
             /\ refresh' = TRUE
             /\ UNCHANGED <<location, opened>>

\* Mutant of NoUser: the flag says signed in.
NoUserAdmitted == /\ isAuth' = "yes"
                  /\ refresh' = TRUE
                  /\ UNCHANGED <<uid, location, opened>>

\* Firebase answers without a user: only the flag is set, and the router woken.
NoUser == /\ isAuth' = "no"
          /\ refresh' = TRUE
          /\ UNCHANGED <<uid, location, opened>>
-----------------------------------------------------------------------------
(* createUser.                                                             *)

\* SignupCubit.createAccount, up to the await of AuthService.createUser.  The
\* sign-up button is disabled while the login screen loads.
SignUp(f, u) ==
    /\ location = "auth" /\ loading = {}
    /\ Start(f, Waiting("register", u))
    /\ UNCHANGED <<cloud, disk, cached, reads, realm, ui, loading>>

\* Firebase has made the account and signs it in.
SignUpRegistered(f) ==
    LET u == flow[f].user
    IN /\ flow[f].at = "register" /\ u \notin accounts
       /\ Goes(f, Waiting("upload", u))
       /\ accounts' = accounts \union {u}
       /\ firebase' = u
       /\ UNCHANGED <<profiles, disk, cached, realm, ui>>

SignUpNoUser(f) ==
    /\ flow[f].at = "register"
    /\ NoUser
    /\ Goes(f, Idle)
    /\ UNCHANGED <<cloud, disk, realm>>

\* Mutant of SignUpUploaded: the id is not carried over the await.
SignUpUploadedNoId(f) ==
    /\ flow[f].at = "upload"
    /\ Goes(f, Waiting("create", Nobody))
    /\ UNCHANGED <<cloud, disk, cached, realm, ui>>

\* uploadImage: the cubit insists on a picture.
SignUpUploaded(f) ==
    /\ flow[f].at = "upload"
    /\ Goes(f, Waiting("create", flow[f].user))
    /\ UNCHANGED <<cloud, disk, cached, realm, ui>>

\* Mutant of SignUpCreated: the token is not saved.
SignUpCreatedNoToken(f) ==
    LET u == flow[f].user
    IN /\ flow[f].at = "create"
       /\ profiles' = profiles \union {u}
       /\ realm' = realm \union {u}
       /\ Become(u)
       /\ Goes(f, Idle)
       /\ UNCHANGED <<accounts, firebase, disk>>

\* The user document is created, stored in Realm, and the token is saved.
SignUpCreated(f) ==
    LET u == flow[f].user
    IN /\ flow[f].at = "create"
       /\ profiles' = profiles \union {u}
       /\ realm' = realm \union {u}
       /\ WriteToken(u)
       /\ Become(u)
       /\ Goes(f, Idle)
       /\ UNCHANGED <<accounts, firebase>>

\* Firebase refuses, or the upload or the write of the document throws.
SignUpFails(f) ==
    /\ flow[f].at \in {"register", "upload", "create"}
    /\ Goes(f, Idle)
    /\ UNCHANGED <<cloud, disk, cached, realm, ui>>
-----------------------------------------------------------------------------
(* signIn.                                                                 *)

\* LoginCubit.signIn, whose button is disabled while it loads, up to the await
\* of AuthService.signIn.
SignIn(f, u) ==
    /\ location = "auth" /\ loading = {}
    /\ Start(f, Waiting("login", u))
    /\ loading' = {f}
    /\ UNCHANGED <<cloud, disk, cached, reads, realm, ui>>

\* Firebase has signed in, and the token is saved before getUser.
SignInAccepted(f) ==
    LET u == flow[f].user
    IN /\ flow[f].at = "login" /\ u \in accounts
       /\ Goes(f, Waiting("get", u))
       /\ firebase' = u
       /\ WriteToken(u)
       /\ UNCHANGED <<accounts, profiles, cached, realm, ui>>

SignInNoUser(f) ==
    /\ flow[f].at = "login"
    /\ NoUser
    /\ Goes(f, Idle)
    /\ UNCHANGED <<cloud, disk, realm>>

\* getUser finds the document.
SignInFound(f) ==
    LET u == flow[f].user
    IN /\ flow[f].at = "get" /\ u \in profiles
       /\ realm' = realm \union {u}
       /\ Become(u)
       /\ Goes(f, Idle)
       /\ UNCHANGED <<cloud, disk>>

\* Firebase refuses, or "User not found", or the read fails: nothing is undone.
SignInFails(f) ==
    /\ flow[f].at \in {"login", "get"}
    /\ Goes(f, Idle)
    /\ UNCHANGED <<cloud, disk, cached, realm, ui>>
-----------------------------------------------------------------------------
(* signOut.                                                                *)

\* AccountCubit.signOut, whose button is never disabled, awaits the cancel of
\* its own subscription first.
SignOut(f) ==
    /\ location = "app"
    /\ Start(f, Waiting("cancel", uid))
    /\ UNCHANGED <<cloud, disk, cached, reads, realm, ui, loading>>

\* Mutant of SignOutBegins: the token is not removed.
SignOutKeepsToken(f) ==
    /\ flow[f].at = "cancel"
    /\ Goes(f, Waiting("signOut", flow[f].user))
    /\ UNCHANGED <<cloud, disk, cached, realm, ui>>

\* The repository's signOut removes the token and awaits AuthService.signOut.
SignOutBegins(f) ==
    /\ flow[f].at = "cancel"
    /\ Goes(f, Waiting("signOut", flow[f].user))
    /\ WriteToken(Nobody)
    /\ UNCHANGED <<cloud, cached, realm, ui>>

\* Firebase has signed out; removeAllListeners is awaited.
SignOutFirebase(f) ==
    /\ flow[f].at = "signOut"
    /\ firebase' = Nobody
    /\ Goes(f, Waiting("wipe", flow[f].user))
    /\ UNCHANGED <<accounts, profiles, disk, cached, realm, ui>>

\* deleteAll, whose failure is only logged, and the cached fields.
SignOutWiped(f) ==
    /\ flow[f].at = "wipe"
    /\ realm' = {} \/ UNCHANGED realm
    /\ Become(Nobody)
    /\ Goes(f, Idle)
    /\ UNCHANGED <<cloud, disk>>

\* The account screen was left, and emit throws before anything is done; or
\* AuthService.signOut throws: the token is gone, the rest stays.
SignOutFails(f) ==
    /\ flow[f].at \in {"cancel", "signOut"}
    /\ Goes(f, Idle)
    /\ UNCHANGED <<cloud, disk, cached, realm, ui>>
-----------------------------------------------------------------------------
(* The getters, the router and the platform.                               *)

\* _fetch up to its await, called by isAuthenticated at the start or by userId,
\* which the cubits of the app's screens ask for, also when their screen is
\* gone.  The platform serves token reads and writes in order; a read that
\* throws yields null.
FetchStarts ==
    /\ \/ location = "start" /\ isAuth = "unknown" /\ reads = <<>>
       \/ opened /\ uid = Nobody
    /\ Len(reads) < MaxReads
    /\ \E u \in {NewestToken, Nobody} : reads' = Append(reads, u)
    /\ disturbed' = IF AllIdle /\ location # "auth" THEN disturbed
                    ELSE disturbed \union {"overlap"}
    /\ UNCHANGED <<cloud, disk, cached, realm, ui, loading, flow, flows>>

\* The rest of _fetch: both fields are set, whatever they are by now, and the
\* router is not told.
Fetched ==
    /\ reads # <<>>
    /\ uid' = Head(reads)
    /\ isAuth' = IF Head(reads) = Nobody THEN "no" ELSE "yes"
    /\ reads' = Tail(reads)
    /\ disturbed' = IF uid \in {Nobody, Head(reads)} THEN disturbed
                    ELSE disturbed \union {"late"}
    /\ UNCHANGED <<cloud, disk, realm, ui, loading, flow, flows>>

\* Mutant of Redirect: a signed-out user is left where they are.
RedirectOnlyIn ==
    /\ isAuth # "unknown"
    /\ location' = IF isAuth = "yes" \/ location = "app" THEN "app" ELSE "auth"
    /\ opened' = (opened \/ location' = "app")
    /\ loading' = IF location' = "app" THEN {} ELSE loading
    /\ refresh' = FALSE
    /\ disturbed' = disturbed \ {"late"}
    /\ UNCHANGED <<cloud, disk, cached, reads, realm, flow, flows>>

\* _redirect.  The sign-up screen is pushed over the login screen, whose
\* location is the one that is compared.
Redirect ==
    /\ isAuth # "unknown"
    /\ location' = IF isAuth = "yes" THEN "app" ELSE "auth"
    /\ opened' = (opened \/ location' = "app")
    /\ loading' = IF location' = "app" THEN {} ELSE loading
    /\ refresh' = FALSE
    /\ disturbed' = disturbed \ {"late"}
    /\ UNCHANGED <<cloud, disk, cached, reads, realm, flow, flows>>

\* At start-up and after notifyListeners.
RouterRefreshes == (location = "start" \/ refresh) /\ Redirect

\* The user goes to another screen of the app.
Navigate == location = "app" /\ Redirect

\* External: a token write reaches the disk.
TokenLands ==
    /\ writes # <<>>
    /\ token' = Head(writes)
    /\ writes' = Tail(writes)
    /\ UNCHANGED <<cloud, cached, reads, realm, ui, loading, flow, flows, disturbed>>

\* The app is killed and started again.  What is on disk and the Firebase
\* session survive; token writes under way are lost.
Restart ==
    /\ location # "start"
    /\ isAuth' = "unknown" /\ uid' = Nobody /\ reads' = <<>>
    /\ location' = "start" /\ opened' = FALSE /\ refresh' = FALSE
    /\ flow' = [f \in Flow |-> Idle] /\ loading' = {}
    /\ writes' = <<>>
    /\ disturbed' = (disturbed \ {"late"}) \union {"kill"}
    /\ UNCHANGED <<cloud, token, realm, flows>>
-----------------------------------------------------------------------------
Init == /\ accounts \in SUBSET User
        /\ profiles \in SUBSET accounts
        /\ firebase \in profiles \union {Nobody}
        /\ token = firebase
        /\ writes = <<>>
        /\ isAuth = "unknown"
        /\ uid = Nobody
        /\ reads = <<>>
        /\ realm = {firebase} \ {Nobody}
        /\ location = "start"
        /\ opened = FALSE
        /\ loading = {}
        /\ refresh = FALSE
        /\ flow = [f \in Flow |-> Idle]
        /\ flows = 0
        /\ disturbed = {}

Steps(f) == \/ SignUpRegistered(f) \/ SignUpNoUser(f) \/ SignUpUploaded(f)
            \/ SignUpCreated(f) \/ SignUpFails(f)
            \/ SignInAccepted(f) \/ SignInNoUser(f) \/ SignInFound(f) \/ SignInFails(f)
            \/ SignOutBegins(f) \/ SignOutFirebase(f) \/ SignOutWiped(f) \/ SignOutFails(f)

Next == \/ \E f \in Flow, u \in User : SignUp(f, u) \/ SignIn(f, u)
        \/ \E f \in Flow : SignOut(f) \/ Steps(f)
        \/ FetchStarts \/ Fetched
        \/ RouterRefreshes \/ Navigate
        \/ TokenLands
        \/ Restart

\* Calls are answered, the router and the event loop run; at the start the
\* router reads the token.  Users need not act and the app need not be killed.
Fairness == /\ \A f \in Flow : WF_vars(Steps(f))
            /\ WF_vars(location = "start" /\ FetchStarts) /\ WF_vars(Fetched)
            /\ WF_vars(RouterRefreshes) /\ WF_vars(TokenLands)

Spec == Init /\ [][Next]_vars /\ Fairness
-----------------------------------------------------------------------------
(* Properties.                                                             *)

Place == {"idle", "register", "upload", "create", "login", "get", "cancel", "signOut", "wipe"}

\* Types; a sign-in or sign-up past Firebase's first answer has an account.
TypeOK ==
    /\ accounts \subseteq User /\ profiles \subseteq accounts
    /\ realm \subseteq accounts
    /\ {firebase, token, uid} \subseteq accounts \union {Nobody}
    /\ \A i \in DOMAIN writes : writes[i] \in accounts \union {Nobody}
    /\ \A i \in DOMAIN reads : reads[i] \in accounts \union {Nobody}
    /\ Len(reads) <= MaxReads
    /\ isAuth \in {"unknown", "yes", "no"}
    /\ location \in {"start", "auth", "app"} /\ {opened, refresh} \subseteq BOOLEAN
    /\ flow \in [Flow -> [at : Place, user : User \union {Nobody}]]
    /\ loading \subseteq InFlight({"login", "get"})
    /\ \A f \in InFlight({"register", "login"}) : flow[f].user \in User
    /\ \A f \in InFlight({"upload", "create", "get"}) : flow[f].user \in accounts
    /\ flows \in 0..MaxFlows /\ disturbed \subseteq {"overlap", "late", "kill"}

\* Screens that saw "authenticated" find a user id, whatever flows, getters and
\* restarts interleave.  The converse needs flows that do not overlap, since a
\* sign-in or sign-up that Firebase answers without a user drops the flag only.
CachesAgree ==
    /\ isAuth = "yes" => uid # Nobody
    /\ "overlap" \notin disturbed /\ uid # Nobody => isAuth = "yes"

\* A screen behind the login is shown only to an authenticated user, except
\* until the redirect that a sign-out has requested, and after a token read
\* that replaced the id cached meanwhile, of which the router is not told.
GuardedRoutes == location = "app" => isAuth = "yes" \/ refresh \/ "late" \in disturbed

\* The app acts for the account Firebase has signed in: no user id is used
\* with another account's (or no) credentials, except while signing out.  It
\* takes flows that run one after the other in one run of the app: failed
\* sign-ins and sign-ups leave token and Firebase session behind.
FirebaseMatches ==
    disturbed = {} /\ uid # Nobody /\ InFlight({"wipe"}) = {} => firebase = uid

\* The token a restart would read names the signed-in user or nobody, never
\* another user, however many flows failed or were cut off by a kill before,
\* as long as they did not overlap.
RestartsAsSameUser ==
    "overlap" \notin disturbed /\ uid # Nobody => NewestToken \in {uid, Nobody}

\* A user who is signed out is taken to the login screen, unless it was a late
\* token read that signed them out.
SignedOutLeaves ==
    isAuth = "no" ~> (location # "app" \/ isAuth # "no" \/ "late" \in disturbed)
=============================================================================
