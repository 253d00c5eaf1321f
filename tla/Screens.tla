------------------------------- MODULE Screens -------------------------------
(***************************************************************************)
(* The screens of guest and host and the navigation between them.  The     *)
(* tabs are the routes of a plain ShellRoute: changing the tab disposes of *)
(* the cubit of the one left, while its calls and its late subscriptions   *)
(* live on.  A posting is pushed over Saved or Explore, whose cubit stays  *)
(* alive below.  The search boxes and the lists show different collections *)
(* and share no state, so a behaviour is about one of them (tab), opened   *)
(* as often as MaxVisits allows.                                           *)
(***************************************************************************)
EXTENDS Search, ViewPosting, HostBookings

VARIABLE tab   \* "search", or the list's screen

vars == <<searchVars, listVars, viewVars, hostVars, tab>>
-----------------------------------------------------------------------------
\* A change of the rows may delete a favourite under the posting screen.
SeesRemovals ==
    /\ removed' = (removed \/ (view.open /\ \E r \in Row : ~rows[r].gone /\ rows'[r].gone))
    /\ UNCHANGED <<view, asked, taps>>

\* The tab is opened, or left.
GoTab ==
    /\ ~view.open
    /\ \/ OpenList(tab) /\ UNCHANGED hostVars
       \/ CloseList /\ CalendarCloses
    /\ UNCHANGED viewVars

\* A posting of Explore (no list is open) or Saved is tapped.
PushPosting ==
    /\ tab = "saved"
    /\ list.screen = "saved" => shown["saved"] # {} /\ ~list.loading
    /\ OpenPosting
    /\ UNCHANGED hostVars

ListTimers ==
    /\ \E u \in subs :
          /\ TimerFires(u)
          /\ IF tab = "postings" /\ Emits(u) THEN NewList ELSE UNCHANGED hostVars
    /\ UNCHANGED viewVars

ListUser == UserIdKnown /\ UNCHANGED <<viewVars, hostVars>>

ListDeletions == DeletionEnds /\ SeesRemovals /\ UNCHANGED hostVars

GuestTaps ==
    \/ ~view.open /\ (\E r \in Row : DeleteSavedFavourite(r)) /\ UNCHANGED <<viewVars, hostVars>>
    \/ ViewUser /\ UNCHANGED hostVars

Calendar ==
    /\ \/ \E i \in shown["postings"] : SelectPosting(i)
       \/ \E r \in reads : BookingsArrive(r) \/ BookingsFail(r)
    /\ UNCHANGED <<listVars, viewVars>>

ListsNext == \/ GoTab \/ PushPosting
             \/ ListTimers \/ ListUser \/ ListDeletions
             \/ ViewAnswers /\ UNCHANGED hostVars
             \/ GuestTaps \/ Calendar
             \/ RowChangesElsewhere /\ SeesRemovals /\ UNCHANGED hostVars
-----------------------------------------------------------------------------
Init == /\ tab \in {"search"} \union Screen
        /\ SearchInit /\ ListInit /\ ViewInit /\ HostInit
        /\ tab = "search" => Present(rows) = {}
        /\ \A r \in Row : rows[r] \in Contents(tab)
        /\ tab # "search" => \A p \in Offer : stored[p] = {} /\ offered[p] = {}

OnSearch(A) == tab = "search" /\ A /\ UNCHANGED <<listVars, viewVars, hostVars, tab>>

OnLists(A) == tab # "search" /\ A /\ UNCHANGED <<searchVars, tab>>

Next == OnSearch(SearchNext) \/ OnLists(ListsNext)

\* Every request is answered or fails, and timers fire; the user need do nothing.
Fairness == /\ \A i \in 1..MaxSearches : WF_vars(OnSearch(SearchRuns(i)))
            /\ WF_vars(OnLists(ListUser))
            /\ WF_vars(OnLists(ListTimers))
            /\ WF_vars(OnLists(ListDeletions))

Spec == Init /\ [][Next]_vars /\ Fairness
-----------------------------------------------------------------------------
(* Properties.                                                             *)

\* Types, and whose progress indicators and searches they are.
TypeOK == SearchTypeOK /\ ListTypeOK

Loading == box.loading \/ list.loading

\* The progress indicators go away: Explore's also when searches overlap or fail,
\* Saved's after the first results, without a user, and after every deletion,
\* failed or not.
ProgressEnds == Loading ~> ~Loading
=============================================================================
