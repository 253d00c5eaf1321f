---------------------------- MODULE HostBookings ----------------------------
(***************************************************************************)
(* BookingsCubit's calendar: the host taps a posting of the list, its      *)
(* bookings are read, and the posting is selected together with its booked *)
(* days.  A new list (TimerFires of ListScreens) replaces the whole state, *)
(* the selection included, while reads go on; reads overtake each other,   *)
(* and the last answer wins.                                               *)
(***************************************************************************)
EXTENDS ListScreens

CONSTANT NoPosting   \* nothing selected

ASSUME NoPostingAssumption == NoPosting \notin Row

VARIABLES
    picked,    \* selectedPosting: an item of a list
    days,      \* the posting whose bookings are selectableDates
    reads,     \* getBookingsForPosting calls under way, of this screen
    outdated   \* history: the selection was tapped in an earlier list

hostVars == <<picked, days, reads, outdated>>

Unselected == /\ picked' = NoPosting
              /\ days' = NoPosting
              /\ outdated' = FALSE

\* selectPosting, of an item of the list whose posting is still in Realm.
\* earlier is history: a new list has come since the tap.
SelectPosting(i) ==
    /\ list.screen = "postings" /\ i \in shown["postings"]
    /\ ~rows[i[1]].gone
    /\ Unused(reads) # {}
    /\ reads' = reads \union {[call |-> Number(reads), item |-> i, earlier |-> FALSE]}
    /\ UNCHANGED <<picked, days, outdated>>

\* The bookings arrive: selection and days are emitted together, over the list
\* of now.
BookingsArrive(r) ==
    /\ r \in reads
    /\ reads' = reads \ {r}
    /\ picked' = r.item
    /\ days' = r.item[1]
    /\ outdated' = r.earlier

\* The read throws; nothing catches it.
BookingsFail(r) ==
    /\ r \in reads
    /\ reads' = reads \ {r}
    /\ UNCHANGED <<picked, days, outdated>>

\* Mutant of NewList: copyWith instead of a new BookingsState.
NewListKeepsSelection ==
    /\ reads' = {[r EXCEPT !.earlier = TRUE] : r \in reads}
    /\ UNCHANGED <<picked, days, outdated>>

\* The stream's listener emits a state with nothing but the list.
NewList ==
    /\ Unselected
    /\ reads' = {[r EXCEPT !.earlier = TRUE] : r \in reads}

\* The screen is left; what its reads find is lost.
CalendarCloses == Unselected /\ reads' = {}

HostInit == /\ picked = NoPosting
            /\ days = NoPosting
            /\ reads = {}
            /\ outdated = FALSE
-----------------------------------------------------------------------------
(* Properties.                                                             *)

\* However reads overlap, overtake each other, fail or meet new lists, the days
\* of the calendar are those of the posting selected, and that posting is one of
\* the items listed.  Excepted is a posting tapped in an earlier list, whose read
\* ended over the new one: it is selected, and no item of the list is marked.
SelectionListed ==
    \/ picked = NoPosting /\ days = NoPosting
    \/ days = picked[1] /\ (outdated \/ picked \in shown["postings"])
=============================================================================
