----------------------------- MODULE ListScreens -----------------------------
(***************************************************************************)
(* The screens that show a Realm query as a list: TripsCubit (two queries, *)
(* split at the time the screen was opened), InboxCubit, SavedCubit, the   *)
(* reviews (ViewReviewCubit, ViewProfileCubit and ViewPostingCubit's       *)
(* recent reviews) and the host's postings (MyPostingsCubit and            *)
(* BookingsCubit).  Each listens to the changes of its query through       *)
(* firstThenDebounce and maps the results to items when the timer fires;   *)
(* Inbox, Saved and the postings await the user's id before they           *)
(* subscribe.  SavedCubit also deletes favourites.                         *)
(*                                                                         *)
(* One table of rows stands for the collection the screen shows: a row has *)
(* a time (a booking's check-out, a review's creation), possibly missing,  *)
(* and something that may be set later (linked): a booking's or a          *)
(* favourite's posting, a review's user, a posting's first picture.        *)
(***************************************************************************)
EXTENDS Integers, FiniteSets

CONSTANTS Row,           \* numbers, to order reviews of the same time
          LastTime,      \* times are 0..LastTime
          OpenTime,      \* nowMs, when a screen is opened
          ReviewLimit,   \* limit of the query for recent reviews
          MaxRowChanges, \* bound on the changes made elsewhere
          MaxCalls,      \* bound on the calls of one kind under way
          MaxVisits      \* bound on the screens opened

NoTime == -1
Time == 0..LastTime
Screen == {"trips", "inbox", "saved", "reviews", "postings"}
Stream == {"upcoming", "previous", "inbox", "saved", "reviews", "recent", "postings"}
NoRow == [time |-> NoTime, linked |-> FALSE, gone |-> TRUE]
Stored(time, linked) == [time |-> time, linked |-> linked, gone |-> FALSE]

ASSUME RowAssumption == Row \subseteq Nat
ASSUME TimeAssumption == LastTime \in Nat /\ OpenTime \in Time
ASSUME LimitAssumption == ReviewLimit \in Nat \ {0}
ASSUME ListBoundAssumption == MaxRowChanges \in Nat /\ MaxVisits \in Nat
ASSUME CallsAssumption == MaxCalls \in Nat

VARIABLES
    rows,       \* the collection in Realm
    list,       \* the open screen, its number, and whether it shows progress
    awaiting,   \* the screens, open or not, that await the user's id
    subs,       \* subscriptions to queries; due: the debounce timer runs
    shown,      \* the items of each stream
    deletes,    \* deleteSavedFavourite calls under way
    rowChanges, \* changes made elsewhere
    late        \* history: screens whose subscription began after close

listVars == <<rows, list, awaiting, subs, shown, deletes, rowChanges, late>>

\* The queries of the screens that subscribe at once.
Streams(screen) == CASE screen = "trips"   -> {"upcoming", "previous"}
                     [] screen = "reviews" -> {"reviews", "recent"}
-----------------------------------------------------------------------------
(* The queries and the items made of their results.                        *)

Present(rs) == {r \in Row : ~rs[r].gone}

\* Mutant of Upcoming: strictly after.
UpcomingStrictly(c) == c.time # NoTime /\ c.time > OpenTime

\* observeBookingsWithCheckOutFrom: a missing check-out satisfies neither query.
Upcoming(c) == c.time # NoTime /\ c.time >= OpenTime

\* observeBookingsWithCheckOutBefore
Previous(c) == c.time # NoTime /\ c.time < OpenTime

\* observeReviewsForTarget with a limit: sorted by time, newest first.
Recent(rs) == {r \in Present(rs) :
                  Cardinality({q \in Present(rs) : \/ rs[q].time > rs[r].time
                                                   \/ rs[q].time = rs[r].time /\ q > r})
                     < ReviewLimit}

Results(s, rs) == CASE s = "upcoming" -> {r \in Present(rs) : Upcoming(rs[r])}
                    [] s = "previous" -> {r \in Present(rs) : Previous(rs[r])}
                    [] s = "recent"   -> Recent(rs)
                    [] OTHER          -> Present(rs)

\* _favouritesToGridItems leaves out a favourite whose posting is not there.
Items(s, rs) == {<<r, rs[r]>> : r \in {q \in Results(s, rs) : s = "saved" => rs[q].linked}}

\* _createPostings of the host's screens reads images.first, which throws on a
\* posting without pictures: the list stays as it was.
Mappable(s, rs) == s = "postings" => \A r \in Present(rs) : rs[r].linked

\* Mutant of Fires: a change of a linked object is not heard of.
FiresOnOwnChanges(s, before, after) ==
    \/ Results(s, before) # Results(s, after)
    \/ \E r \in Results(s, after) : before[r].time # after[r].time

\* The changes stream of RealmResults (external): an event when the results or
\* the content of one of them, linked objects included, change.
Fires(s, before, after) ==
    \/ Results(s, before) # Results(s, after)
    \/ \E r \in Results(s, after) : before[r] # after[r]

\* A Realm write: every query that changes starts its debounce timer again.
Write(rs) ==
    /\ rows' = rs
    /\ subs' = {[u EXCEPT !.due = @ \/ Fires(u.stream, rows, rs)] : u \in subs}

\* There may be several calls under way about one thing: they are numbered.
Unused(calls) == {k \in 1..MaxCalls : \A c \in calls : c.call # k}

Number(calls) == CHOOSE k \in Unused(calls) : TRUE

NothingShown == [s \in Stream |-> {}]
NoList == [screen |-> "none", n |-> 0, loading |-> FALSE]
-----------------------------------------------------------------------------
(* The life of a screen.                                                   *)

\* The cubit is made.  Trips and reviews subscribe at once.
OpenList(screen) ==
    /\ list.screen = "none" /\ list.n < MaxVisits
    /\ list' = [screen |-> screen, n |-> list.n + 1, loading |-> screen = "saved"]
    /\ IF screen \in {"trips", "reviews"}
       THEN /\ subs' = subs \union
                  {[screen |-> list'.n, stream |-> s, due |-> TRUE] : s \in Streams(screen)}
            /\ UNCHANGED awaiting
       ELSE /\ awaiting' = awaiting \union {[screen |-> screen, n |-> list'.n]}
            /\ UNCHANGED subs
    /\ UNCHANGED <<rows, shown, deletes, rowChanges, late>>

\* The user's id arrives.  The subscription is made whether or not the cubit
\* is still open; then nobody will cancel it.  (Saved first emits, which
\* throws on a closed cubit.)
UserIdReturns(w) ==
    /\ w \in awaiting
    /\ awaiting' = awaiting \ {w}
    /\ LET orphan == w.n # list.n \/ list.screen = "none"
           none == orphan /\ w.screen = "saved"
       IN /\ subs' = IF none THEN subs
                     ELSE subs \union {[screen |-> w.n, stream |-> w.screen, due |-> TRUE]}
          /\ late' = IF orphan /\ ~none THEN late \union {w.n} ELSE late
    /\ UNCHANGED <<rows, list, shown, deletes, rowChanges>>

\* There is no user: nothing is observed, and Saved stops showing progress.
NoUserId(w) ==
    /\ w \in awaiting
    /\ awaiting' = awaiting \ {w}
    /\ list' = IF w.n = list.n THEN [list EXCEPT !.loading = FALSE] ELSE list
    /\ UNCHANGED <<rows, subs, shown, deletes, rowChanges, late>>

\* Deletions go on without the cubit that began them.
Detached == deletes' = {[d EXCEPT !.live = FALSE] : d \in deletes}

\* Mutant of CloseList: TripsCubit forgets its second subscription.
CloseListOneStream ==
    /\ list.screen # "none"
    /\ list' = [list EXCEPT !.screen = "none", !.loading = FALSE]
    /\ subs' = {u \in subs : u.screen = list.n => u.stream = "previous"}
    /\ shown' = NothingShown
    /\ Detached
    /\ UNCHANGED <<rows, awaiting, rowChanges, late>>

\* close cancels the subscriptions of the cubit.
CloseList ==
    /\ list.screen # "none"
    /\ list' = [list EXCEPT !.screen = "none", !.loading = FALSE]
    /\ subs' = {u \in subs : u.screen # list.n}
    /\ shown' = NothingShown
    /\ Detached
    /\ UNCHANGED <<rows, awaiting, rowChanges, late>>

Emits(u) == /\ u.screen = list.n /\ list.screen # "none"
            /\ Mappable(u.stream, rows)

\* The debounce timer fires: the results of now, not of the event, are mapped
\* to items, if they can be.  On a closed cubit the emit throws.
TimerFires(u) ==
    /\ u \in subs /\ u.due
    /\ subs' = (subs \ {u}) \union {[u EXCEPT !.due = FALSE]}
    /\ IF Emits(u)
       THEN /\ shown' = [shown EXCEPT ![u.stream] = Items(u.stream, rows)]
            /\ list' = [list EXCEPT !.loading = FALSE]
       ELSE UNCHANGED <<shown, list>>
    /\ UNCHANGED <<rows, awaiting, deletes, rowChanges, late>>

\* A snapshot handler, or another screen, stores, changes, links or deletes a row.
RowChanges(r, c) ==
    /\ list.screen # "none"
    /\ rowChanges < MaxRowChanges /\ rowChanges' = rowChanges + 1
    /\ rows[r] # c
    /\ Write([rows EXCEPT ![r] = c])
    /\ UNCHANGED <<list, awaiting, shown, deletes, late>>
-----------------------------------------------------------------------------
(* deleteSavedFavourite.                                                   *)

\* The progress indicator covers the list, so it starts from a list without.
\* The id of a favourite that is no longer in Realm cannot be read: that
\* exception is caught like a failed call, and the progress ends at once.
DeleteSavedFavourite(r) ==
    /\ list.screen = "saved" /\ ~list.loading
    /\ \E i \in shown["saved"] : i[1] = r
    /\ ~rows[r].gone /\ Unused(deletes) # {}
    /\ deletes' = deletes \union {[call |-> Number(deletes), row |-> r, live |-> TRUE]}
    /\ list' = [list EXCEPT !.loading = TRUE]
    /\ UNCHANGED <<rows, awaiting, subs, shown, rowChanges, late>>

\* finally: the progress ends, unless the cubit that began it is gone.
Finally(d) == list' = IF d.live THEN [list EXCEPT !.loading = FALSE] ELSE list

Deleted(d) ==
    /\ d \in deletes
    /\ deletes' = deletes \ {d}
    /\ Write([rows EXCEPT ![d.row] = NoRow])
    /\ Finally(d)
    /\ UNCHANGED <<awaiting, shown, rowChanges, late>>

\* Mutant of DeleteFails: without the finally.
DeleteFailsUncaught(d) ==
    /\ d \in deletes
    /\ deletes' = deletes \ {d}
    /\ UNCHANGED <<rows, list, awaiting, subs, shown, rowChanges, late>>

DeleteFails(d) ==
    /\ d \in deletes
    /\ deletes' = deletes \ {d}
    /\ Finally(d)
    /\ UNCHANGED <<rows, awaiting, subs, shown, rowChanges, late>>
-----------------------------------------------------------------------------
\* Only bookings and reviews have a time that matters.
Times(screen) == {NoTime} \union (IF screen \in {"trips", "reviews"} THEN Time ELSE {})

Contents(screen) == {NoRow} \union {Stored(t, l) : t \in Times(screen), l \in BOOLEAN}

\* What a row may hold from earlier visits, on any screen.
ListInit == /\ rows \in [Row -> UNION {Contents(s) : s \in Screen}]
            /\ list = NoList
            /\ awaiting = {} /\ subs = {} /\ deletes = {} /\ late = {}
            /\ shown = NothingShown
            /\ rowChanges = 0

UserIdKnown == \E w \in awaiting : UserIdReturns(w) \/ NoUserId(w)

DeletionEnds == \E d \in deletes : Deleted(d) \/ DeleteFails(d)

RowChangesElsewhere ==
    \E r \in Row : \E c \in Contents(list.screen) : RowChanges(r, c)
-----------------------------------------------------------------------------
(* Properties.                                                             *)

\* Types; the progress indicator belongs to an open Saved screen.
ListTypeOK ==
    /\ \A r \in Row : rows[r] \in {NoRow} \union
          {Stored(t, l) : t \in Time \union {NoTime}, l \in BOOLEAN}
    /\ list.screen \in Screen \union {"none"} /\ list.n \in 0..MaxVisits
    /\ list.loading => list.screen = "saved"
    /\ \A w \in awaiting : w.screen \in {"inbox", "saved", "postings"} /\ w.n \in 1..list.n
    /\ \A u \in subs : u.stream \in Stream /\ u.screen \in 1..list.n
    /\ \A d \in deletes : d.row \in Row
    /\ late \subseteq 1..list.n
    /\ rowChanges \in 0..MaxRowChanges

Mine(u) == list.screen # "none" /\ u.screen = list.n

\* When no timer runs, a list shows exactly what its query finds, with the links
\* as they are: no change, and no link set by a back-fill, is missed.  Excepted
\* are the host's lists while one of the postings has no picture; they recover.
ListCurrent == \A u \in subs : Mine(u) /\ ~u.due /\ Mappable(u.stream, rows)
                                 => shown[u.stream] = Items(u.stream, rows)

\* When no timer runs, every booking with a check-out is in one of the two lists
\* of the Trips screen and in one only, also after its check-out was moved.
EveryTripOnce ==
    list.screen = "trips" /\ ~(\E u \in subs : Mine(u) /\ u.due) =>
        \A r \in Present(rows) : rows[r].time # NoTime =>
            (\E i \in shown["upcoming"] : i[1] = r) # (\E i \in shown["previous"] : i[1] = r)

\* A subscription outlives its screen only if the screen was closed before the
\* user's id arrived.
OrphansWereLate == \A u \in subs : Mine(u) \/ u.screen \in late
=============================================================================
