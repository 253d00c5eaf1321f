--------------------------- MODULE ScreensProofs ---------------------------
(***************************************************************************)
(* Proofs about Screens, for any rows, times, texts and postings and any   *)
(* number of visits, searches and changes.  The invariant has a part for   *)
(* each of the modules that Screens composes: the searches (SearchProofs), *)
(* the lists, the heart and the calendar.  What they share is the rows:    *)
(* every write of a row goes through Write, which makes due every query    *)
(* whose items it changes.                                                 *)
(***************************************************************************)
EXTENDS Screens, SearchProofs

RowType == {NoRow} \union {Stored(t, l) : t \in Time \union {NoTime}, l \in BOOLEAN}
ListType == [screen : Screen \union {"none"}, n : 0..MaxVisits, loading : BOOLEAN]
WaitType == [screen : {"inbox", "saved", "postings"}, n : Nat]
SubType == [screen : Nat, stream : Stream, due : BOOLEAN]
DeleteType == [call : 1..MaxCalls, row : Row, live : BOOLEAN]

ListTyped ==
    /\ tab \in {"search"} \union Screen
    /\ rows \in [Row -> RowType]
    /\ list \in ListType /\ (list.loading => list.screen = "saved")
    /\ awaiting \subseteq WaitType /\ \A w \in awaiting : w.n \in 1..list.n
    /\ subs \subseteq SubType /\ \A u \in subs : u.screen \in 1..list.n
    /\ shown \in [Stream -> SUBSET (Row \X RowType)]
    /\ deletes \subseteq DeleteType
    /\ late \subseteq 1..list.n
    /\ rowChanges \in 0..MaxRowChanges

Subscribed(s) == \E u \in subs : u.screen = list.n /\ u.stream = s

\* An open Trips screen is subscribed to both of its queries.
TripsSubscribed == list.screen = "trips" => Subscribed("upcoming") /\ Subscribed("previous")

\* A query of postings is subscribed to by the host's tab only.
PostingsTab == /\ \A w \in awaiting : w.screen = tab
               /\ \A u \in subs : u.stream = "postings" => tab = "postings"

\* The invariant of the lists.
ListInv == ListTyped /\ TripsSubscribed /\ PostingsTab /\ ListCurrent /\ OrphansWereLate

ViewType == [open : BOOLEAN, isFavorite : BOOLEAN, isHost : BOOLEAN]
TapType == [row : Row, live : BOOLEAN]

\* The invariant of the heart.
ViewInv == /\ view \in ViewType /\ taps \subseteq TapType
           /\ HeartEarned

ReadType == [call : 1..MaxCalls, item : Row \X RowType, earlier : BOOLEAN]

\* The invariant of the calendar: what is being read was tapped in the list
\* shown, or a new list has come since.
HostInv == /\ reads \subseteq ReadType
           /\ \A r \in reads : r.earlier \/ r.item \in shown["postings"]
           /\ SelectionListed

\* The inductive invariant.
Inv == SearchInv /\ ListInv /\ ViewInv /\ HostInv
-----------------------------------------------------------------------------
(* The lists.                                                              *)

\* Rows, and what is missing from a row that is not there.
LEMMA RowTypes ==
    /\ NoRow \in RowType /\ Stored(NoTime, TRUE) \in RowType /\ ~Stored(NoTime, TRUE).gone
    /\ \A t \in Time \union {NoTime}, l \in BOOLEAN : Stored(t, l) \in RowType
    /\ \A c \in RowType : c.time \in Int
<1>1. NoTime \in Int /\ \A t \in Time : t \in Int
  BY TimeAssumption DEF NoTime, Time
<1>2. NoRow \in RowType /\ NoRow.time = NoTime
  BY DEF RowType, NoRow
<1>3. \A t \in Time \union {NoTime}, l \in BOOLEAN : Stored(t, l) \in RowType
  BY DEF RowType
<1>4. \A t, l : Stored(t, l).time = t /\ ~Stored(t, l).gone
  BY DEF Stored
<1>5. \A c \in RowType : c.time \in Int
  <2> SUFFICES ASSUME NEW c \in RowType PROVE c.time \in Int
    OBVIOUS
  <2>1. CASE c = NoRow
    BY <1>1, <1>2, <2>1
  <2>2. CASE c # NoRow
    <3>1. PICK t \in Time \union {NoTime}, l \in BOOLEAN : c = Stored(t, l)
      BY <2>2 DEF RowType
    <3> QED
      BY <1>1, <1>4, <3>1
  <2> QED
    BY <2>1, <2>2
<1> QED
  BY <1>2, <1>3, <1>4, <1>5

\* What a row may hold, on whichever screen.
LEMMA ContentsType == \A s : Contents(s) \subseteq RowType
<1> SUFFICES ASSUME NEW s PROVE Contents(s) \subseteq RowType
  OBVIOUS
<1>1. Times(s) \subseteq Time \union {NoTime}
  BY DEF Times
<1> QED
  BY <1>1, RowTypes DEF Contents

\* Items are made of rows.
LEMMA ItemsType ==
    ASSUME NEW rs \in [Row -> RowType], NEW s \in Stream
    PROVE  Items(s, rs) \in SUBSET (Row \X RowType)
<1>1. Results(s, rs) \subseteq Row
  BY DEF Results, Present, Recent, Stream
<1> QED
  BY <1>1 DEF Items

\* A write of which Realm tells no listener of a query leaves its items, and
\* whether they can be made, as they are.
LEMMA SilentWrite ==
    ASSUME NEW s \in Stream, NEW before, NEW after, ~Fires(s, before, after)
    PROVE  /\ Items(s, before) = Items(s, after)
           /\ Mappable(s, after) => Mappable(s, before)
<1>1. /\ Results(s, before) = Results(s, after)
      /\ \A r \in Results(s, after) : before[r] = after[r]
  BY DEF Fires
<1>2. Items(s, before) = Items(s, after)
  BY <1>1 DEF Items
<1>3. ASSUME s = "postings"
      PROVE  Present(before) = Present(after) /\ \A r \in Present(after) : before[r] = after[r]
  BY <1>1, <1>3 DEF Results
<1>4. Mappable(s, after) => Mappable(s, before)
  BY <1>3 DEF Mappable
<1> QED
  BY <1>2, <1>4

\* Every write of Realm keeps the lists in order, whoever makes it.
LEMMA WriteInv ==
    ASSUME ListInv, NEW rs \in [Row -> RowType], Write(rs), tab' = tab,
           list' \in ListType, list'.loading => list'.screen = "saved",
           list'.screen = list.screen, list'.n = list.n,
           awaiting' = awaiting, shown' = shown, late' = late,
           deletes' \subseteq deletes, rowChanges' \in 0..MaxRowChanges
    PROVE  ListInv'
<1> DEFINE f(u) == [u EXCEPT !.due = @ \/ Fires(u.stream, rows, rs)]
<1>1. rows' = rs /\ subs' = {f(u) : u \in subs}
  BY DEF Write
<1>2. \A u \in subs : u \in SubType
  BY DEF ListInv, ListTyped
<1>3. \A u \in subs : /\ f(u) \in SubType /\ f(u).screen = u.screen /\ f(u).stream = u.stream
                      /\ ~f(u).due => ~u.due /\ ~Fires(u.stream, rows, rs)
  <2> SUFFICES ASSUME NEW u \in subs
               PROVE  /\ f(u) \in SubType /\ f(u).screen = u.screen /\ f(u).stream = u.stream
                      /\ ~f(u).due => ~u.due /\ ~Fires(u.stream, rows, rs)
    OBVIOUS
  <2> DEFINE b == u.due \/ Fires(u.stream, rows, rs)
  <2>1. b \in BOOLEAN
    OBVIOUS
  <2>2. ~b => ~u.due /\ ~Fires(u.stream, rows, rs)
    OBVIOUS
  <2>3. f(u) = [u EXCEPT !.due = b]
    OBVIOUS
  <2> HIDE DEF b, f
  <2> QED
    BY <1>2, <2>1, <2>2, <2>3 DEF SubType
<1> HIDE DEF f
<1>4. \A v \in subs' : \E u \in subs : v = f(u)
  BY <1>1
<1>5. ListTyped'
  BY <1>1, <1>3, <1>4 DEF ListInv, ListTyped
<1>6. TripsSubscribed'
  BY <1>1, <1>3 DEF ListInv, TripsSubscribed, Subscribed
<1>7. ListCurrent'
  <2> SUFFICES ASSUME NEW v \in subs', Mine(v)', ~v.due, Mappable(v.stream, rs)
               PROVE  shown'[v.stream] = Items(v.stream, rs)
    BY <1>1 DEF ListCurrent
  <2>1. PICK u \in subs : v = f(u)
    BY <1>4
  <2>2. /\ v.stream = u.stream /\ Mine(u) /\ ~u.due /\ u.stream \in Stream
        /\ ~Fires(u.stream, rows, rs)
    BY <1>2, <1>3, <2>1 DEF Mine, SubType
  <2>3. Items(u.stream, rows) = Items(u.stream, rs) /\ Mappable(u.stream, rows)
    BY <2>2, SilentWrite
  <2> QED
    BY <2>2, <2>3 DEF ListInv, ListCurrent
<1>8. OrphansWereLate'
  BY <1>3, <1>4 DEF ListInv, OrphansWereLate, Mine
<1>9. PostingsTab'
  BY <1>3, <1>4 DEF ListInv, PostingsTab
<1> QED
  BY <1>5, <1>6, <1>7, <1>8, <1>9 DEF ListInv

\* Steps that leave rows, subscriptions and items alone, and the open screen but
\* for its progress.
LEMMA ListFrame ==
    ASSUME ListInv, tab' = tab, UNCHANGED <<rows, subs, shown, rowChanges, late>>,
           list' \in ListType, list'.loading => list'.screen = "saved",
           list'.screen = list.screen, list'.n = list.n,
           awaiting' \subseteq awaiting, deletes' \subseteq DeleteType
    PROVE  ListInv'
BY DEF ListInv, ListTyped, TripsSubscribed, Subscribed, PostingsTab, ListCurrent,
       OrphansWereLate, Mine

\* A screen is opened: what it is subscribed to is due.
LEMMA OpenListInv ==
    ASSUME ListInv, tab \in Screen, tab' = tab, OpenList(tab)
    PROVE  ListInv'
<1>1. /\ list \in ListType /\ list.screen = "none" /\ list.n < MaxVisits /\ list.n \in Nat
      /\ list' = [screen |-> tab, n |-> list.n + 1, loading |-> tab = "saved"]
      /\ UNCHANGED <<rows, shown, deletes, rowChanges, late>>
  BY DEF ListInv, ListTyped, OpenList, ListType
<1>2. list.n + 1 \in 0..MaxVisits /\ list.n + 1 \in 1..(list.n + 1) /\ list.n + 1 \in Nat
  BY <1>1, ListBoundAssumption
<1>3. /\ list' \in ListType /\ list'.screen = tab /\ list'.n = list.n + 1
      /\ list'.loading => list'.screen = "saved"
  BY <1>1, <1>2 DEF ListType
<1>4. /\ \A u \in subs : u.screen # list'.n /\ u.screen \in 1..list'.n /\ u.screen \in late
      /\ \A w \in awaiting : w.n \in 1..list'.n
      /\ late \subseteq 1..list'.n
  BY <1>1, <1>3 DEF ListInv, ListTyped, OrphansWereLate, Mine
<1>5. /\ \A u \in subs' : \/ u \in subs
                          \/ /\ u \in SubType /\ u.screen = list'.n /\ u.due
                             /\ u.stream # "postings"
      /\ tab = "trips" => Subscribed("upcoming")' /\ Subscribed("previous")'
  <2>1. CASE tab \in {"trips", "reviews"}
    <3> DEFINE new(s) == [screen |-> list'.n, stream |-> s, due |-> TRUE]
    <3>1. subs' = subs \union {new(s) : s \in Streams(tab)}
      BY <2>1 DEF OpenList
    <3>2. /\ tab = "trips" => Streams(tab) = {"upcoming", "previous"}
          /\ tab = "reviews" => Streams(tab) = {"reviews", "recent"}
      BY DEF Streams
    <3>3. Streams(tab) \subseteq Stream \ {"postings"}
      BY <2>1, <3>2 DEF Stream
    <3>4. \A s \in Stream : /\ new(s) \in SubType /\ new(s).screen = list'.n
                            /\ new(s).stream = s /\ new(s).due
      BY <1>2, <1>3 DEF SubType
    <3> HIDE DEF new
    <3>5. \A u \in subs' : \/ u \in subs
                           \/ /\ u \in SubType /\ u.screen = list'.n /\ u.due
                              /\ u.stream # "postings"
      BY <3>1, <3>3, <3>4
    <3>6. tab = "trips" => new("upcoming") \in subs' /\ new("previous") \in subs'
      BY <3>1, <3>2
    <3> QED
      BY <3>4, <3>5, <3>6 DEF Subscribed, Stream
  <2>2. CASE tab \notin {"trips", "reviews"}
    BY <2>2 DEF OpenList
  <2> QED
    BY <2>1, <2>2
<1>6. awaiting' \subseteq WaitType /\ \A w \in awaiting' : w.n \in 1..list'.n /\ w.screen = tab
  <2>1. CASE tab \in {"trips", "reviews"}
    BY <1>4, <2>1 DEF OpenList, ListInv, ListTyped, PostingsTab
  <2>2. CASE tab \notin {"trips", "reviews"}
    <3> DEFINE w == [screen |-> tab, n |-> list'.n]
    <3>1. awaiting' = awaiting \union {w}
      BY <2>2 DEF OpenList
    <3>2. w \in WaitType /\ w.n = list'.n /\ w.screen = tab
      BY <1>2, <1>3, <2>2 DEF WaitType, Screen
    <3> HIDE DEF w
    <3> QED
      BY <1>2, <1>3, <1>4, <3>1, <3>2 DEF ListInv, ListTyped, PostingsTab
  <2> QED
    BY <2>1, <2>2
<1>7. ListTyped'
  BY <1>1, <1>2, <1>3, <1>4, <1>5, <1>6 DEF ListInv, ListTyped
<1>8. TripsSubscribed'
  BY <1>3, <1>5 DEF TripsSubscribed
<1>9. ListCurrent' /\ OrphansWereLate'
  BY <1>1, <1>3, <1>4, <1>5 DEF ListCurrent, OrphansWereLate, Mine, Screen
<1>10. PostingsTab'
  BY <1>5, <1>6 DEF ListInv, PostingsTab
<1> QED
  BY <1>7, <1>8, <1>9, <1>10 DEF ListInv

\* The screen is left with all its subscriptions.
LEMMA CloseListInv ==
    ASSUME ListInv, tab' = tab, CloseList
    PROVE  ListInv'
<1>1. /\ list \in ListType
      /\ list' = [list EXCEPT !.screen = "none", !.loading = FALSE]
      /\ subs' = {u \in subs : u.screen # list.n} /\ shown' = NothingShown
      /\ UNCHANGED <<rows, awaiting, rowChanges, late>>
      /\ deletes' \subseteq DeleteType
  <2> DEFINE f(d) == [d EXCEPT !.live = FALSE]
  <2>1. deletes' = {f(d) : d \in deletes}
    BY DEF CloseList, Detached
  <2>2. \A d \in deletes : f(d) \in DeleteType
    BY DEF ListInv, ListTyped, DeleteType
  <2> HIDE DEF f
  <2>3. deletes' \subseteq DeleteType
    BY <2>1, <2>2
  <2> QED
    BY <2>3 DEF ListInv, ListTyped, CloseList
<1>2. list' \in ListType /\ list'.screen = "none" /\ ~list'.loading /\ list'.n = list.n
  BY <1>1 DEF ListType
<1>3. shown' \in [Stream -> SUBSET (Row \X RowType)]
  BY <1>1 DEF NothingShown
<1>4. ListTyped'
  BY <1>1, <1>2, <1>3 DEF ListInv, ListTyped
<1>5. TripsSubscribed' /\ PostingsTab' /\ ListCurrent' /\ OrphansWereLate'
  BY <1>1, <1>2 DEF ListInv, TripsSubscribed, PostingsTab, ListCurrent, OrphansWereLate, Mine
<1> QED
  BY <1>4, <1>5 DEF ListInv

\* The user's id arrives: a new subscription is due, and late if the screen is gone.
LEMMA UserIdReturnsInv ==
    ASSUME ListInv, tab' = tab, NEW w \in awaiting, UserIdReturns(w)
    PROVE  ListInv'
<1> DEFINE u == [screen |-> w.n, stream |-> w.screen, due |-> TRUE]
<1>1. /\ awaiting' = awaiting \ {w} /\ UNCHANGED <<rows, list, shown, deletes, rowChanges>>
      /\ \/ subs' = subs /\ late' = late
         \/ /\ subs' = subs \union {u}
            /\ \/ late' = late \union {w.n}
               \/ late' = late /\ w.n = list.n /\ list.screen # "none"
  BY DEF UserIdReturns
<1>2. w \in WaitType /\ w.n \in 1..list.n
  BY DEF ListInv, ListTyped
<1>3. u \in SubType /\ u.screen = w.n /\ u.stream = tab /\ u.due
  BY <1>2 DEF WaitType, SubType, Stream, ListInv, PostingsTab
<1> HIDE DEF u
<1>4. ListTyped'
  BY <1>1, <1>2, <1>3 DEF ListInv, ListTyped
<1>5. TripsSubscribed'
  BY <1>1 DEF ListInv, TripsSubscribed, Subscribed
<1>6. ListCurrent'
  BY <1>1, <1>3 DEF ListInv, ListCurrent, Mine
<1>7. OrphansWereLate'
  BY <1>1, <1>3 DEF ListInv, OrphansWereLate, Mine
<1>8. PostingsTab'
  BY <1>1, <1>3 DEF ListInv, PostingsTab
<1> QED
  BY <1>4, <1>5, <1>6, <1>7, <1>8 DEF ListInv

\* A timer fires: the query's items of now are shown, if they can be made.
LEMMA TimerFiresInv ==
    ASSUME ListInv, tab' = tab, NEW u \in subs, TimerFires(u)
    PROVE  ListInv'
<1> DEFINE v == [u EXCEPT !.due = FALSE]
<1>1. /\ subs' = (subs \ {u}) \union {v}
      /\ UNCHANGED <<rows, awaiting, deletes, rowChanges, late>>
      /\ list \in ListType /\ u \in SubType
  BY DEF TimerFires, ListInv, ListTyped
<1>2. v \in SubType /\ v.screen = u.screen /\ v.stream = u.stream /\ u.stream \in Stream
  BY <1>1 DEF SubType
<1> HIDE DEF v
<1>3. /\ list' \in ListType /\ list'.screen = list.screen /\ list'.n = list.n
      /\ list'.loading => list.loading
      /\ shown' \in [Stream -> SUBSET (Row \X RowType)]
      /\ \A s \in Stream : shown'[s] = IF Emits(u) /\ s = u.stream THEN Items(s, rows) ELSE shown[s]
  <2>1. CASE Emits(u)
    <3>1. /\ shown' = [shown EXCEPT ![u.stream] = Items(u.stream, rows)]
          /\ list' = [list EXCEPT !.loading = FALSE]
      BY <2>1 DEF TimerFires
    <3>2. /\ list' \in ListType /\ list'.screen = list.screen /\ list'.n = list.n
          /\ list'.loading => list.loading
      BY <1>1, <3>1 DEF ListType
    <3>3. /\ Items(u.stream, rows) \in SUBSET (Row \X RowType)
          /\ shown \in [Stream -> SUBSET (Row \X RowType)]
      BY <1>2, ItemsType DEF ListInv, ListTyped
    <3> QED
      BY <1>2, <2>1, <3>1, <3>2, <3>3
  <2>2. CASE ~Emits(u)
    <3>1. UNCHANGED <<shown, list>>
      BY <2>2 DEF TimerFires
    <3> QED
      BY <1>1, <2>2, <3>1 DEF ListInv, ListTyped
  <2> QED
    BY <2>1, <2>2
<1>4. ListTyped'
  BY <1>1, <1>2, <1>3 DEF ListInv, ListTyped
<1>5. TripsSubscribed'
  BY <1>1, <1>2, <1>3 DEF ListInv, TripsSubscribed, Subscribed
<1>6. ListCurrent'
  <2> SUFFICES ASSUME NEW x \in subs', Mine(x), ~x.due, Mappable(x.stream, rows)
               PROVE  shown'[x.stream] = Items(x.stream, rows)
    BY <1>1, <1>3 DEF ListCurrent, Mine
  <2>1. CASE x = v
    BY <1>2, <1>3, <2>1 DEF Emits, Mine
  <2>2. CASE x \in subs
    <3>1. x.stream \in Stream
      BY <2>2 DEF ListInv, ListTyped, SubType
    <3>2. shown[x.stream] = Items(x.stream, rows)
      BY <2>2 DEF ListInv, ListCurrent
    <3> QED
      BY <1>3, <3>1, <3>2
  <2> QED
    BY <1>1, <2>1, <2>2
<1>7. OrphansWereLate'
  BY <1>1, <1>2, <1>3 DEF ListInv, OrphansWereLate, Mine
<1>8. PostingsTab'
  BY <1>1, <1>2 DEF ListInv, PostingsTab
<1> QED
  BY <1>4, <1>5, <1>6, <1>7, <1>8 DEF ListInv

\* The progress of the list ends, or changes while Saved is shown.
LEMMA Progress ==
    ASSUME list \in ListType, list.loading => list.screen = "saved",
           NEW loading \in BOOLEAN, loading => list.screen = "saved",
           list' = [list EXCEPT !.loading = loading] \/ list' = list
    PROVE  /\ list' \in ListType /\ list'.screen = list.screen /\ list'.n = list.n
           /\ list'.loading => list'.screen = "saved"
BY DEF ListType

\* There is no user.
LEMMA NoUserIdInv ==
    ASSUME ListInv, tab' = tab, NEW w \in awaiting, NoUserId(w)
    PROVE  ListInv'
<1>1. list \in ListType /\ (list.loading => list.screen = "saved")
  BY DEF ListInv, ListTyped
<1>2. list' = [list EXCEPT !.loading = FALSE] \/ list' = list
  BY DEF NoUserId
<1>3. /\ list' \in ListType /\ list'.screen = list.screen /\ list'.n = list.n
      /\ list'.loading => list'.screen = "saved"
  BY <1>1, <1>2, Progress
<1> QED
  BY <1>3, ListFrame DEF NoUserId, ListInv, ListTyped

\* A row changes elsewhere.
LEMMA RowChangesInv ==
    ASSUME ListInv, tab' = tab, RowChangesElsewhere
    PROVE  ListInv'
<1>1. PICK r \in Row, c \in Contents(list.screen) : RowChanges(r, c)
  BY DEF RowChangesElsewhere
<1>2. c \in RowType
  BY <1>1, ContentsType
<1>3. [rows EXCEPT ![r] = c] \in [Row -> RowType]
  BY <1>2 DEF ListInv, ListTyped
<1>4. rowChanges' \in 0..MaxRowChanges
  BY <1>1, ListBoundAssumption DEF RowChanges, ListInv, ListTyped
<1> QED
  BY <1>1, <1>3, <1>4, WriteInv DEF RowChanges, ListInv, ListTyped

\* A favourite is deleted, or not.
LEMMA DeletionEndsInv ==
    ASSUME ListInv, tab' = tab, DeletionEnds
    PROVE  ListInv'
<1>1. PICK d \in deletes : Deleted(d) \/ DeleteFails(d)
  BY DEF DeletionEnds
<1>2. list \in ListType /\ (list.loading => list.screen = "saved") /\ d.row \in Row
  BY DEF ListInv, ListTyped, DeleteType
<1>3. list' = [list EXCEPT !.loading = FALSE] \/ list' = list
  BY <1>1 DEF Deleted, DeleteFails, Finally
<1>4. /\ list' \in ListType /\ list'.screen = list.screen /\ list'.n = list.n
      /\ list'.loading => list'.screen = "saved"
  BY <1>2, <1>3, Progress
<1>5. CASE Deleted(d)
  <2>1. [rows EXCEPT ![d.row] = NoRow] \in [Row -> RowType]
    BY <1>2, RowTypes DEF ListInv, ListTyped
  <2> QED
    BY <1>4, <1>5, <2>1, WriteInv DEF Deleted, ListInv, ListTyped
<1>6. CASE DeleteFails(d)
  BY <1>4, <1>6, ListFrame DEF DeleteFails, ListInv, ListTyped
<1> QED
  BY <1>1, <1>5, <1>6

\* A call gets a number within the bound while there is one left.
LEMMA NumberType ==
    ASSUME NEW calls, Unused(calls) # {}
    PROVE  Number(calls) \in 1..MaxCalls
<1>1. Unused(calls) \subseteq 1..MaxCalls
  BY DEF Unused
<1>2. Number(calls) \in Unused(calls)
  BY DEF Number
<1> QED
  BY <1>1, <1>2

\* A deletion begins.
LEMMA DeleteSavedFavouriteInv ==
    ASSUME ListInv, tab' = tab, NEW r \in Row, DeleteSavedFavourite(r)
    PROVE  ListInv'
<1>1. /\ list \in ListType /\ (list.loading => list.screen = "saved")
      /\ list.screen = "saved" /\ list' = [list EXCEPT !.loading = TRUE]
      /\ deletes' = deletes \union {[call |-> Number(deletes), row |-> r, live |-> TRUE]}
      /\ Unused(deletes) # {}
      /\ UNCHANGED <<rows, awaiting, subs, shown, rowChanges, late>>
  BY DEF ListInv, ListTyped, DeleteSavedFavourite
<1>2. /\ list' \in ListType /\ list'.screen = list.screen /\ list'.n = list.n
      /\ list'.loading => list'.screen = "saved"
  BY <1>1, Progress
<1>3. deletes' \subseteq DeleteType
  <2>1. Number(deletes) \in 1..MaxCalls
    BY <1>1, NumberType
  <2>2. [call |-> Number(deletes), row |-> r, live |-> TRUE] \in DeleteType
    BY <2>1 DEF DeleteType
  <2> QED
    BY <1>1, <2>2 DEF ListInv, ListTyped
<1> QED
  BY <1>1, <1>2, <1>3, ListFrame

\* Steps of the other parts.
LEMMA ListUnchanged ==
    ASSUME ListInv, tab' = tab, UNCHANGED listVars
    PROVE  ListInv'
BY ListFrame DEF ListInv, ListTyped, listVars
-----------------------------------------------------------------------------
(* The heart and the calendar.                                             *)

\* A write that deletes a favourite under the open screen is recorded.
LEMMA SeesRemovalsInv ==
    ASSUME ViewInv, SeesRemovals
    PROVE  ViewInv'
<1>1. view' = view /\ taps' = taps
  BY DEF SeesRemovals
<1>2. HeartEarned'
  <2> SUFFICES ASSUME view.open, view.isFavorite, ~removed' PROVE Present(rows') # {}
    BY <1>1 DEF HeartEarned
  <2>1. ~removed /\ \A r \in Row : ~(~rows[r].gone /\ rows'[r].gone)
    BY DEF SeesRemovals
  <2>2. Present(rows) # {}
    BY <2>1 DEF ViewInv, HeartEarned
  <2> QED
    BY <2>1, <2>2 DEF Present
<1> QED
  BY <1>1, <1>2 DEF ViewInv

\* Steps of the other parts that write no row.
LEMMA ViewFrame ==
    ASSUME ViewInv, UNCHANGED <<viewVars, rows>>
    PROVE  ViewInv'
BY DEF viewVars, ViewInv, HeartEarned

\* A step of the screen that writes no row and empties the heart, or leaves it
\* to the favourites that are stored.
LEMMA HeartStep ==
    ASSUME ViewInv, rows' = rows, view' \in ViewType, taps' \subseteq TapType,
           view'.isFavorite =>
              Present(rows) # {} \/ (view' = view /\ removed' = removed)
    PROVE  ViewInv'
BY DEF ViewInv, HeartEarned

\* An answer that copies the state without the heart empties it.
LEMMA CopyWithType ==
    ASSUME NEW v \in ViewType
    PROVE  CopyWith(v) \in ViewType /\ ~CopyWith(v).isFavorite
BY DEF ViewType, CopyWith

\* The answers of ViewPostingCubit's calls.
LEMMA ViewAnswersInv ==
    ASSUME ListInv, ViewInv, tab' = tab, ViewAnswers
    PROVE  ListInv' /\ ViewInv'
<1>1. view \in ViewType /\ taps \subseteq TapType /\ rows \in [Row -> RowType]
  BY DEF ViewInv, ListInv, ListTyped
<1>2. ASSUME NEW h \in BOOLEAN, UserKnown(h) PROVE ListInv' /\ ViewInv'
  <2>1. [view EXCEPT !.isHost = h] \in ViewType
    BY <1>1 DEF ViewType
  <2>2. view' \in ViewType /\ ~view'.isFavorite
    BY <1>2, <2>1, CopyWithType DEF UserKnown
  <2> QED
    BY <1>1, <1>2, <2>2, HeartStep, ListUnchanged DEF UserKnown, listVars
<1>3. CASE UserUnknown
  BY <1>1, <1>3, CopyWithType, HeartStep, ListUnchanged DEF UserUnknown, listVars
<1>4. CASE BookingsRead
  BY <1>1, <1>4, CopyWithType, HeartStep, ListUnchanged DEF BookingsRead, listVars
<1>5. ASSUME NEW found \in SUBSET Row, FavouriteRead(found) PROVE ListInv' /\ ViewInv'
  <2> DEFINE rs == [r \in Row |-> IF r \in found THEN Stored(NoTime, TRUE) ELSE rows[r]]
  <2>1. rs \in [Row -> RowType]
    BY <1>1, RowTypes
  <2>2. /\ Write(rs) /\ UNCHANGED <<taps, removed, list, awaiting, shown, deletes, late>>
        /\ \/ rowChanges' = rowChanges
           \/ rowChanges < MaxRowChanges /\ rowChanges' = rowChanges + 1
        /\ view' = [view EXCEPT !.isFavorite = Present(rows') # {}]
    BY <1>5 DEF FavouriteRead
  <2> HIDE DEF rs
  <2>3. rowChanges' \in 0..MaxRowChanges
    BY <2>2, ListBoundAssumption DEF ListInv, ListTyped
  <2>4. ListInv'
    BY <2>1, <2>2, <2>3, WriteInv DEF ListInv, ListTyped
  <2>5. view' \in ViewType /\ (view'.isFavorite => Present(rows') # {})
    BY <1>1, <2>2 DEF ViewType
  <2> QED
    BY <1>1, <2>2, <2>4, <2>5 DEF ViewInv, HeartEarned
<1>6. CASE ReadFails
  BY <1>1, <1>6, HeartStep, ListUnchanged DEF ReadFails, listVars
<1>7. ASSUME NEW t \in taps, FavouriteFails(t) PROVE ListInv' /\ ViewInv'
  BY <1>1, <1>7, HeartStep, ListUnchanged DEF FavouriteFails, listVars
<1>8. ASSUME NEW t \in taps, FavouriteCreated(t) PROVE ListInv' /\ ViewInv'
  <2> DEFINE rs == [rows EXCEPT ![t.row] = Stored(NoTime, TRUE)]
  <2>1. t.row \in Row
    BY <1>1 DEF TapType
  <2>2. rs \in [Row -> RowType] /\ ~rs[t.row].gone
    BY <1>1, <2>1, RowTypes
  <2>3. /\ Write(rs) /\ taps' = taps \ {t}
        /\ UNCHANGED <<list, awaiting, shown, deletes, rowChanges, late>>
        /\ view' = [view EXCEPT !.isFavorite = TRUE] \/ view' = view
    BY <1>8 DEF FavouriteCreated
  <2> HIDE DEF rs
  <2>4. ListInv'
    BY <2>2, <2>3, WriteInv DEF ListInv, ListTyped
  <2>5. view' \in ViewType
    BY <1>1, <2>3 DEF ViewType
  <2>6. Present(rows') # {}
    BY <2>1, <2>2, <2>3 DEF Present, Write
  <2> QED
    BY <1>1, <2>3, <2>4, <2>5, <2>6 DEF ViewInv, HeartEarned
<1> QED
  BY <1>2, <1>3, <1>4, <1>5, <1>6, <1>7, <1>8 DEF ViewAnswers

\* What the guest does on the posting's screen.
LEMMA ViewUserInv ==
    ASSUME ListInv, ViewInv, tab' = tab, ViewUser
    PROVE  ListInv' /\ ViewInv'
<1>1. view \in ViewType /\ taps \subseteq TapType
  BY DEF ViewInv
<1>2. CASE ClosePosting
  <2> DEFINE f(t) == [t EXCEPT !.live = FALSE]
  <2>1. taps' = {f(t) : t \in taps}
    BY <1>2 DEF ClosePosting
  <2>2. \A t \in taps : f(t) \in TapType
    BY <1>1 DEF TapType
  <2> HIDE DEF f
  <2>3. taps' \subseteq TapType
    BY <2>1, <2>2
  <2>4. view' \in ViewType /\ ~view'.isFavorite
    BY <1>2 DEF ClosePosting, NoView, ViewType
  <2> QED
    BY <1>2, <2>3, <2>4, HeartStep, ListUnchanged DEF ClosePosting, listVars
<1>3. CASE OtherEmission
  BY <1>1, <1>3, CopyWithType, HeartStep, ListUnchanged DEF OtherEmission, listVars
<1>4. ASSUME NEW r \in Row, ToggleFavourite(r) PROVE ListInv' /\ ViewInv'
  <2>1. taps' \subseteq TapType
    <3>1. [row |-> r, live |-> TRUE] \in TapType
      BY DEF TapType
    <3> QED
      BY <1>1, <1>4, <3>1 DEF ToggleFavourite
  <2> QED
    BY <1>1, <1>4, <2>1, HeartStep, ListUnchanged DEF ToggleFavourite, listVars
<1> QED
  BY <1>2, <1>3, <1>4 DEF ViewUser

\* A posting is opened with an empty heart.
LEMMA OpenPostingInv ==
    ASSUME ListInv, ViewInv, tab' = tab, OpenPosting
    PROVE  ListInv' /\ ViewInv'
<1>1. view' \in ViewType /\ ~view'.isFavorite
  BY DEF OpenPosting, NoView, ViewType
<1> QED
  BY <1>1, HeartStep, ListUnchanged DEF OpenPosting, listVars, ViewInv

\* Taps, reads, new lists and the end of the screen.
LEMMA HostStep ==
    ASSUME HostInv, shown \in [Stream -> SUBSET (Row \X RowType)],
           \/ /\ shown'["postings"] = shown["postings"]
              /\ \/ \E i \in shown["postings"] : SelectPosting(i)
                 \/ \E r \in reads : BookingsArrive(r) \/ BookingsFail(r)
                 \/ UNCHANGED hostVars
           \/ NewList \/ CalendarCloses
    PROVE  HostInv'
<1>1. ASSUME NEW i \in shown["postings"], SelectPosting(i),
             shown'["postings"] = shown["postings"]
      PROVE  HostInv'
  <2> DEFINE r == [call |-> Number(reads), item |-> i, earlier |-> FALSE]
  <2>1. reads' = reads \union {r} /\ UNCHANGED <<picked, days, outdated>> /\ Unused(reads) # {}
    BY <1>1 DEF SelectPosting
  <2>2. r \in ReadType /\ r.item = i
    BY <2>1, NumberType DEF ReadType, Stream
  <2> HIDE DEF r
  <2> QED
    BY <1>1, <2>1, <2>2 DEF HostInv, SelectionListed
<1>2. ASSUME NEW r \in reads, BookingsArrive(r), shown'["postings"] = shown["postings"]
      PROVE  HostInv'
  BY <1>2 DEF BookingsArrive, HostInv, SelectionListed
<1>3. ASSUME NEW r \in reads, BookingsFail(r), shown'["postings"] = shown["postings"]
      PROVE  HostInv'
  BY <1>3 DEF BookingsFail, HostInv, SelectionListed
<1>4. CASE NewList
  <2> DEFINE f(r) == [r EXCEPT !.earlier = TRUE]
  <2>1. reads' = {f(r) : r \in reads} /\ picked' = NoPosting /\ days' = NoPosting
    BY <1>4 DEF NewList, Unselected
  <2>2. \A r \in reads : f(r) \in ReadType /\ f(r).earlier
    BY DEF HostInv, ReadType
  <2> HIDE DEF f
  <2> QED
    BY <2>1, <2>2 DEF HostInv, SelectionListed
<1>5. CASE CalendarCloses
  BY <1>5 DEF CalendarCloses, Unselected, HostInv, SelectionListed
<1>6. CASE UNCHANGED hostVars /\ shown'["postings"] = shown["postings"]
  BY <1>6 DEF hostVars, HostInv, SelectionListed
<1> QED
  BY <1>1, <1>2, <1>3, <1>4, <1>5, <1>6

\* Steps of the other parts that show no new list of postings.
LEMMA HostFrame ==
    ASSUME ListInv, HostInv, UNCHANGED hostVars, shown' = shown
    PROVE  HostInv'
BY HostStep DEF ListInv, ListTyped
-----------------------------------------------------------------------------
(* The composition.                                                        *)

\* No screen is open; rows are stored or not.
LEMMA InitInv == Init => Inv
<1> SUFFICES ASSUME Init PROVE Inv
  OBVIOUS
<1>1. SearchInv
  BY SearchInitInv DEF Init
<1>2. ListInv
  <2>1. rows \in [Row -> RowType]
    BY ContentsType DEF Init, ListInit
  <2>2. list \in ListType /\ ~list.loading /\ list.screen = "none"
    BY ListBoundAssumption DEF Init, ListInit, NoList, ListType
  <2>3. shown \in [Stream -> SUBSET (Row \X RowType)]
    BY DEF Init, ListInit, NothingShown
  <2>4. ListTyped
    BY <2>1, <2>2, <2>3, ListBoundAssumption DEF Init, ListInit, ListTyped
  <2> QED
    BY <2>2, <2>4 DEF Init, ListInit, ListInv, TripsSubscribed, PostingsTab, ListCurrent,
                        OrphansWereLate
<1>3. ViewInv
  BY DEF Init, ViewInit, NoView, ViewInv, ViewType, HeartEarned
<1>4. HostInv
  BY DEF Init, HostInit, HostInv, SelectionListed
<1> QED
  BY <1>1, <1>2, <1>3, <1>4 DEF Inv

\* A step of the lists and of the screens over and in them.
LEMMA ListsNextInv ==
    ASSUME ListInv, ViewInv, HostInv, tab \in Screen, tab' = tab, ListsNext
    PROVE  ListInv' /\ ViewInv' /\ HostInv'
<1>1. CASE GoTab
  <2>1. rows' = rows /\ UNCHANGED viewVars
    BY <1>1 DEF GoTab, OpenList, CloseList
  <2>2. ViewInv'
    BY <2>1, ViewFrame
  <2>3. CASE OpenList(tab) /\ UNCHANGED hostVars
    BY <2>2, <2>3, OpenListInv, HostFrame DEF OpenList
  <2>4. CASE CloseList /\ CalendarCloses
    BY <2>2, <2>4, CloseListInv, HostStep DEF ListInv, ListTyped
  <2> QED
    BY <1>1, <2>3, <2>4 DEF GoTab
<1>2. CASE PushPosting
  BY <1>2, OpenPostingInv, HostFrame DEF PushPosting, OpenPosting, listVars
<1>3. CASE ListTimers
  <2>1. PICK u \in subs :
           /\ TimerFires(u)
           /\ IF tab = "postings" /\ Emits(u) THEN NewList ELSE UNCHANGED hostVars
    BY <1>3 DEF ListTimers
  <2>2. rows' = rows /\ UNCHANGED viewVars
    BY <1>3, <2>1 DEF ListTimers, TimerFires
  <2>3. ViewInv'
    BY <2>2, ViewFrame
  <2>4. HostInv'
    <3>1. shown \in [Stream -> SUBSET (Row \X RowType)]
      BY DEF ListInv, ListTyped
    <3>2. CASE NewList
      BY <3>1, <3>2, HostStep
    <3>3. CASE UNCHANGED hostVars /\ ~(tab = "postings" /\ Emits(u))
      <4>1. u.stream = "postings" => ~Emits(u)
        BY <3>3 DEF ListInv, PostingsTab
      <4>2. shown'["postings"] = shown["postings"]
        BY <2>1, <4>1, <3>1 DEF TimerFires, Stream
      <4> QED
        BY <3>1, <3>3, <4>2, HostStep
    <3> QED
      BY <2>1, <3>2, <3>3
  <2> QED
    BY <2>1, <2>3, <2>4, TimerFiresInv
<1>4. CASE ListUser
  <2>1. PICK w \in awaiting : UserIdReturns(w) \/ NoUserId(w)
    BY <1>4 DEF ListUser, UserIdKnown
  <2>2. rows' = rows /\ UNCHANGED <<viewVars, hostVars>>
    BY <1>4, <2>1 DEF ListUser, UserIdReturns, NoUserId
  <2>3. ViewInv' /\ HostInv'
    BY <2>1, <2>2, ViewFrame, HostFrame DEF UserIdReturns, NoUserId
  <2> QED
    BY <2>1, <2>3, UserIdReturnsInv, NoUserIdInv
<1>5. CASE ListDeletions
  <2>1. shown' = shown /\ UNCHANGED hostVars
    BY <1>5 DEF ListDeletions, DeletionEnds, Deleted, DeleteFails
  <2> QED
    BY <1>5, <2>1, DeletionEndsInv, SeesRemovalsInv, HostFrame DEF ListDeletions
<1>6. CASE ViewAnswers /\ UNCHANGED hostVars
  <2>1. shown' = shown
    BY <1>6 DEF ViewAnswers, UserKnown, UserUnknown, FavouriteRead, BookingsRead, ReadFails,
                FavouriteCreated, FavouriteFails, listVars
  <2> QED
    BY <1>6, <2>1, ViewAnswersInv, HostFrame
<1>7. CASE GuestTaps
  <2>1. ASSUME NEW r \in Row, DeleteSavedFavourite(r), UNCHANGED <<viewVars, hostVars>>
        PROVE  ListInv' /\ ViewInv' /\ HostInv'
    <3>1. rows' = rows /\ shown' = shown /\ UNCHANGED viewVars /\ UNCHANGED hostVars
      BY <2>1 DEF DeleteSavedFavourite
    <3> QED
      BY <2>1, <3>1, DeleteSavedFavouriteInv, ViewFrame, HostFrame
  <2>2. CASE ViewUser /\ UNCHANGED hostVars
    <3>1. shown' = shown
      BY <2>2 DEF ViewUser, ClosePosting, OtherEmission, ToggleFavourite, listVars
    <3> QED
      BY <2>2, <3>1, ViewUserInv, HostFrame
  <2> QED
    BY <1>7, <2>1, <2>2 DEF GuestTaps
<1>8. CASE Calendar
  <2>1. UNCHANGED listVars /\ UNCHANGED viewVars /\ rows' = rows /\ shown' = shown
    BY <1>8 DEF Calendar, listVars
  <2>2. HostInv'
    BY <1>8, <2>1, HostStep DEF Calendar, ListInv, ListTyped
  <2> QED
    BY <2>1, <2>2, ListUnchanged, ViewFrame
<1>9. CASE RowChangesElsewhere /\ SeesRemovals /\ UNCHANGED hostVars
  <2>1. shown' = shown
    BY <1>9 DEF RowChangesElsewhere, RowChanges
  <2> QED
    BY <1>9, <2>1, RowChangesInv, SeesRemovalsInv, HostFrame
<1> QED
  BY <1>1, <1>2, <1>3, <1>4, <1>5, <1>6, <1>7, <1>8, <1>9 DEF ListsNext

\* Every step keeps the invariant.
LEMMA NextInv ==
    ASSUME Inv, [Next]_vars
    PROVE  Inv'
<1>1. ASSUME UNCHANGED <<listVars, viewVars, hostVars, tab>>
      PROVE  ListInv' /\ ViewInv' /\ HostInv'
  <2>1. UNCHANGED listVars /\ UNCHANGED viewVars /\ UNCHANGED hostVars
           /\ rows' = rows /\ shown' = shown /\ tab' = tab
    BY <1>1 DEF listVars
  <2> QED
    BY <2>1, ListUnchanged, ViewFrame, HostFrame DEF Inv
<1>2. CASE OnSearch(SearchNext)
  BY <1>1, <1>2, SearchNextInv DEF OnSearch, Inv
<1>3. CASE OnLists(ListsNext)
  <2>1. tab \in Screen /\ tab' = tab /\ ListsNext /\ UNCHANGED searchVars
    BY <1>3 DEF OnLists, Inv, ListInv, ListTyped
  <2> QED
    BY <2>1, ListsNextInv, SearchFrame DEF Inv
<1>4. CASE UNCHANGED vars
  BY <1>1, <1>4, SearchFrame DEF vars, Inv
<1> QED
  BY <1>2, <1>3, <1>4 DEF Next

\* The invariant holds of every behaviour of the screens.
LEMMA AlwaysInv == Spec => []Inv
<1> QED
  BY InitInv, NextInv, PTL DEF Spec

\* Types, and whose progress indicators and searches they are.
THEOREM TypeCorrect == Spec => []TypeOK
<1>1. Inv => TypeOK
  <2> SUFFICES ASSUME Inv PROVE TypeOK
    OBVIOUS
  <2>1. SearchTypeOK
    BY SearchInvImplies DEF Inv
  <2>2. ListTypeOK
    BY DEF Inv, ListInv, ListTyped, ListTypeOK, RowType, ListType, WaitType, SubType,
           DeleteType
  <2> QED
    BY <2>1, <2>2 DEF TypeOK
<1> QED
  BY <1>1, AlwaysInv, PTL

\* The debounce and distinct of the search boxes lose no text: when all is
\* answered the list is about the text in the box, unless searches overlapped or
\* a place search failed.
THEOREM LatestAlwaysShown == Spec => []LatestShown
<1>1. Inv => LatestShown
  BY SearchInvImplies DEF Inv
<1> QED
  BY <1>1, AlwaysInv, PTL

\* An Explore list misses no posting that the server had throughout the search
\* and that Realm's query finds, for every order of words and texts: the bounds
\* of the Firestore filter are joined with OR.
THEOREM SearchesComplete == Spec => SearchComplete
<1>1. ASSUME Inv, Next, NEW s \in searches, s.kind = "explore",
             box'.result.by = s.n, box.result.by # s.n, ~box'.error
      PROVE  {p \in s.stable : RealmFinds(s.text, offered[p])} \subseteq box'.result.found
  <2>1. CASE OnSearch(SearchNext)
    BY <1>1, <2>1, CompleteStep DEF OnSearch, Inv
  <2>2. CASE OnLists(ListsNext)
    BY <1>1, <2>2 DEF OnLists, searchVars
  <2> QED
    BY <1>1, <2>1, <2>2 DEF Next
<1>2. UNCHANGED vars => UNCHANGED searchVars
  BY DEF vars
<1>3. Inv /\ [Next]_vars =>
         [\A s \in searches :
             s.kind = "explore" /\ box'.result.by = s.n /\ box.result.by # s.n /\ ~box'.error
             => {p \in s.stable : RealmFinds(s.text, offered[p])} \subseteq box'.result.found
         ]_searchVars
  BY <1>1, <1>2
<1> QED
  BY <1>3, AlwaysInv, PTL DEF Spec, SearchComplete

\* When no timer runs a list shows what its query finds: no write of Realm,
\* whichever part makes it, is missed by an open screen.
THEOREM ListsCurrent == Spec => []ListCurrent
<1>1. Inv => ListCurrent
  BY DEF Inv, ListInv
<1> QED
  BY <1>1, AlwaysInv, PTL

\* A subscription outlives its screen only if the screen was closed before the
\* user's id arrived.
THEOREM OrphansAreLate == Spec => []OrphansWereLate
<1>1. Inv => OrphansWereLate
  BY DEF Inv, ListInv
<1> QED
  BY <1>1, AlwaysInv, PTL

\* Every booking with a check-out is in exactly one of the two lists of Trips.
THEOREM TripsPartitioned == Spec => []EveryTripOnce
<1>1. Inv => EveryTripOnce
  <2> SUFFICES ASSUME Inv, list.screen = "trips", ~(\E u \in subs : Mine(u) /\ u.due),
                      NEW r \in Present(rows), rows[r].time # NoTime
               PROVE  (\E i \in shown["upcoming"] : i[1] = r)
                         # (\E i \in shown["previous"] : i[1] = r)
    BY DEF EveryTripOnce
  <2>1. ASSUME NEW s \in {"upcoming", "previous"}
        PROVE  shown[s] = Items(s, rows)
    <3>1. PICK u \in subs : u.screen = list.n /\ u.stream = s
      BY <2>1 DEF Inv, ListInv, TripsSubscribed, Subscribed
    <3>2. Mine(u) /\ ~u.due /\ Mappable(u.stream, rows)
      BY <2>1, <3>1 DEF Mine, Mappable
    <3> QED
      BY <3>1, <3>2 DEF Inv, ListInv, ListCurrent
  <2>2. \A s \in {"upcoming", "previous"} :
           (\E i \in Items(s, rows) : i[1] = r) <=> r \in Results(s, rows)
    <3> SUFFICES ASSUME NEW s \in {"upcoming", "previous"}
                 PROVE  (\E i \in Items(s, rows) : i[1] = r) <=> r \in Results(s, rows)
      OBVIOUS
    <3>1. Items(s, rows) = {<<q, rows[q]>> : q \in Results(s, rows)}
      BY DEF Items
    <3>2. ASSUME r \in Results(s, rows) PROVE \E i \in Items(s, rows) : i[1] = r
      <4>1. <<r, rows[r]>> \in Items(s, rows)
        BY <3>1, <3>2
      <4>2. <<r, rows[r]>>[1] = r
        OBVIOUS
      <4> QED
        BY <4>1, <4>2
    <3>3. ASSUME NEW i \in Items(s, rows), i[1] = r PROVE r \in Results(s, rows)
      <4>1. PICK q \in Results(s, rows) : i = <<q, rows[q]>>
        BY <3>1
      <4>2. i[1] = q
        BY <4>1
      <4> QED
        BY <3>3, <4>2
    <3> QED
      BY <3>2, <3>3
  <2>3. /\ r \in Results("upcoming", rows) <=> Upcoming(rows[r])
        /\ r \in Results("previous", rows) <=> Previous(rows[r])
    BY DEF Results
  <2>4. rows[r].time \in Int /\ OpenTime \in Int
    BY RowTypes, TimeAssumption DEF Inv, ListInv, ListTyped, Present, Time
  <2>5. Upcoming(rows[r]) <=> ~Previous(rows[r])
    BY <2>4 DEF Upcoming, Previous
  <2> QED
    BY <2>1, <2>2, <2>3, <2>5
<1> QED
  BY <1>1, AlwaysInv, PTL

\* The heart of a posting is filled only over a stored favourite, but for one
\* deleted while the screen is open.
THEOREM HeartsEarned == Spec => []HeartEarned
<1>1. Inv => HeartEarned
  BY DEF Inv, ViewInv
<1> QED
  BY <1>1, AlwaysInv, PTL

\* However the calendar's reads overlap, fail or meet a new list, its days are
\* those of the posting selected, and that one is in the list unless it was tapped
\* in an earlier one.
THEOREM SelectionsListed == Spec => []SelectionListed
<1>1. Inv => SelectionListed
  BY DEF Inv, HostInv
<1> QED
  BY <1>1, AlwaysInv, PTL
=============================================================================
