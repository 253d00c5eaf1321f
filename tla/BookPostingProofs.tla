------------------------- MODULE BookPostingProofs -------------------------
(***************************************************************************)
(* Proofs about BookPosting, for any guests, attempts, calendar, price,    *)
(* time zone and haste.  The argument follows an attempt through the       *)
(* places it waits at: what it has done is what its place says, and it     *)
(* never goes back.  So the booking of an attempt is the only one, comes   *)
(* after its charge and before its message.  That the charge is the        *)
(* booking's takes a guest without haste: then the attempt is the only one *)
(* of its screen, which stays up, and the dates saveBooking reads after    *)
(* the payment are those the intent was made from.                         *)
(***************************************************************************)
EXTENDS BookPosting, FiniteSetTheorems, TLAPS

Place == {"free", "intent", "init", "sheet", "done"} \union SavePlaces

\* Places of an attempt that has yet to write its booking, and of one that has
\* written it and goes on.
Early == {"free", "intent", "init", "sheet", "booking"}
Later == SavePlaces \ {"booking"}

Dates == [Tag -> Day \union {NoDay}]
Horizon == (1 - UtcShift)..(LastDay - UtcShift)
ScreenType == [dates : Dates, open : BOOLEAN, ready : BOOLEAN, tag : Tag,
               param : Dates, unselectable : SUBSET Horizon, isSaving : BOOLEAN]
AttemptType == [dates : Dates, at : Place, guest : Guest \union {Host},
                attached : BOOLEAN, amount : Nat, pay : Int, read : Int]
BookingType == [checkIn : Day, checkOut : Day, guest : Guest, pay : Int,
                by : Attempt]

\* TypeOK, with the fields it leaves open.
Types == /\ screen \in [Guest -> ScreenType]
         /\ attempt \in [Attempt -> AttemptType]
         /\ charged \in [Attempt -> Nat]
         /\ bookings \subseteq BookingType
         /\ earning \in [Guest \union {Host} -> Int]
         /\ conversations \subseteq Guest
         /\ messages \subseteq Attempt /\ reported \subseteq Attempt
         /\ haste \in Nat

\* What the place of an attempt says of it.
Progress ==
    \A a \in Attempt :
        /\ attempt[a].at # "free" => attempt[a].guest \in Guest
        /\ attempt[a].at \in {"init", "sheet"} => attempt[a].amount > 0
        /\ attempt[a].at = "booking" => CanSave(attempt[a].dates)
        /\ attempt[a].at \in SavePlaces => charged[a] > 0
        /\ attempt[a].at \in Later => \E b \in bookings : b.by = a
        /\ attempt[a].at = "message" => attempt[a].guest \in conversations

\* A booking was written by an attempt that has left that step behind.
BookedOnce == /\ \A b \in bookings : attempt[b.by].at \notin Early
              /\ \A b, c \in bookings : b.by = c.by => b = c

\* A message is sent by an attempt that is over.
SentOnce == \A a \in messages : attempt[a].at = "done"

Running(a) == attempt[a].at \notin {"free", "done"}

\* Without haste an attempt under way has its screen to itself.
Alone ==
    haste = 0 => \A a \in Attempt : Running(a) =>
        /\ attempt[a].attached /\ screen[attempt[a].guest].open
        /\ \A b \in Attempt : Running(b) /\ attempt[b].guest = attempt[a].guest
                                 => b = a

\* Then the amount asked for is that of the dates on the screen, and the amount
\* recorded that of the dates read.
Priced ==
    haste = 0 => \A a \in Attempt :
        /\ attempt[a].at \in {"intent", "init", "sheet"} =>
              LET dates == screen[attempt[a].guest].dates
              IN /\ CanBook(dates)
                 /\ attempt[a].amount = Rounded(Price * BookDates(dates))
        /\ attempt[a].at = "booking" =>
              /\ CanBook(attempt[a].dates)
              /\ attempt[a].pay = BookDates(attempt[a].dates) * Price
              /\ charged[a] = Rounded(attempt[a].pay)

\* What holds whatever the guest does, and what a guest without haste gets.
Chain == /\ Progress /\ BookedOnce /\ SentOnce
         /\ PaidBeforeBooked /\ MessageHasConversation
Calm == Alone /\ Priced /\ ChargeMatchesBooking

\* The inductive invariant.
Inv == Types /\ Chain /\ Calm
-----------------------------------------------------------------------------
(* The calendar.                                                           *)

Before(d) == {s \in ShortDays : s < d}

\* The short days between two days are at most the days between them.
LEMMA BeforeBounds ==
    ASSUME NEW a \in Int, NEW b \in Int, a <= b
    PROVE  /\ Cardinality(Before(a)) \in Nat /\ Cardinality(Before(b)) \in Nat
           /\ Cardinality(Before(a)) <= Cardinality(Before(b))
           /\ Cardinality(Before(b)) - Cardinality(Before(a)) <= b - a
           /\ ShortDays \cap a..(b - 1) = {} => Before(a) = Before(b)
<1> DEFINE Gap == ShortDays \cap a..(b - 1)
<1>1. IsFiniteSet(ShortDays)
  <2>1. IsFiniteSet(1..LastDay)
    BY DayAssumption, FS_Interval
  <2> QED
    BY <2>1, DayAssumption, FS_Subset
<1>2. IsFiniteSet(Before(a)) /\ IsFiniteSet(Before(b))
  BY <1>1, FS_Subset DEF Before
<1>3. IsFiniteSet(a..(b - 1)) /\ Cardinality(a..(b - 1)) = b - a
  <2>1. b - 1 \in Int
    OBVIOUS
  <2>2. /\ IsFiniteSet(a..(b - 1))
        /\ Cardinality(a..(b - 1)) = IF a > b - 1 THEN 0 ELSE (b - 1) - a + 1
    BY <2>1, FS_Interval
  <2> QED
    BY <2>2
<1>4. IsFiniteSet(Gap) /\ Cardinality(Gap) <= b - a
  BY <1>3, FS_Subset
<1>5. Before(b) = Before(a) \union Gap /\ Before(a) \cap Gap = {}
  <2>1. \A s \in ShortDays : s \in Int
    BY DayAssumption
  <2>2. \A s \in ShortDays : /\ s < b <=> s < a \/ s \in a..(b - 1)
                             /\ ~(s < a /\ s \in a..(b - 1))
    BY <2>1
  <2> QED
    BY <2>2 DEF Before
<1>6. /\ Cardinality(Before(a)) \in Nat /\ Cardinality(Before(b)) \in Nat
      /\ Cardinality(Gap) \in Nat
  BY <1>2, <1>4, FS_CardinalityType
<1>7. Cardinality(Before(b)) = Cardinality(Before(a)) + Cardinality(Gap)
  <2>1. Cardinality(Before(a) \cap Gap) = 0
    BY <1>5, FS_EmptySet
  <2>2. Cardinality(Before(a) \union Gap)
          = Cardinality(Before(a)) + Cardinality(Gap) - Cardinality(Before(a) \cap Gap)
    BY <1>2, <1>4, FS_Union
  <2> QED
    BY <2>1, <2>2, <1>5, <1>6
<1>8. Gap = {} => Before(a) = Before(b)
  BY <1>5
<1> QED
  BY <1>4, <1>6, <1>7, <1>8

\* inDays of two midnights: never more than the days between them, and exactly
\* those when the clocks do not go forward in between.
LEMMA DaysBetweenBounds ==
    ASSUME NEW a \in Int, NEW b \in Int
    PROVE  /\ DaysBetween(a, b) \in Int
           /\ a <= b => DaysBetween(a, b) \in 0..(b - a)
           /\ a > b => DaysBetween(a, b) <= 0
           /\ a <= b /\ ShortDays \cap a..(b - 1) = {} => DaysBetween(a, b) = b - a
<1>1. CASE a <= b
  <2> DEFINE na == Cardinality(Before(a))
             nb == Cardinality(Before(b))
  <2>1. /\ na \in Nat /\ nb \in Nat /\ na <= nb /\ nb - na <= b - a
        /\ ShortDays \cap a..(b - 1) = {} => na = nb
    BY <1>1, BeforeBounds
  <2>2. DaysBetween(a, b) = (24 * (b - a) - (nb - na)) \div 24
    <3>1. Midnight(b) = 24 * b - nb /\ Midnight(a) = 24 * a - na
      BY DEF Midnight, Before
    <3>2. Midnight(b) - Midnight(a) = 24 * (b - a) - (nb - na)
      BY <3>1, <2>1
    <3> QED
      BY <1>1, <3>2 DEF DaysBetween
  <2> HIDE DEF na, nb
  <2> QED
    BY <1>1, <2>1, <2>2
<1>2. CASE a > b
  <2> DEFINE na == Cardinality(Before(a))
             nb == Cardinality(Before(b))
  <2>1. na \in Nat /\ nb \in Nat /\ nb <= na /\ na - nb <= a - b
    BY <1>2, BeforeBounds
  <2>2. DaysBetween(a, b) = -((24 * (a - b) - (na - nb)) \div 24)
    <3>1. Midnight(b) = 24 * b - nb /\ Midnight(a) = 24 * a - na
      BY DEF Midnight, Before
    <3>2. Midnight(a) - Midnight(b) = 24 * (a - b) - (na - nb)
      BY <3>1, <2>1
    <3> QED
      BY <1>2, <3>2 DEF DaysBetween
  <2> HIDE DEF na, nb
  <2> QED
    BY <1>2, <2>1, <2>2
<1> QED
  BY <1>1, <1>2

\* The days a booking blocks lie on the calendar as UTC sees it.
LEMMA DaysInBetweenHorizon ==
    ASSUME NEW a \in 1..LastDay, NEW b \in 1..LastDay
    PROVE  DaysInBetween(a, b) \subseteq Horizon
<1>1. a \in Int /\ b \in Int /\ LastDay \in Int /\ UtcShift \in Int
  BY DayAssumption, ShiftAssumption
<1> SUFFICES ASSUME NEW i \in 0..DaysBetween(a, b)
             PROVE  a - UtcShift + i \in Horizon
  BY DEF DaysInBetween
<1>2. i \in Int /\ 0 <= i /\ i <= DaysBetween(a, b)
  BY <1>1, DaysBetweenBounds
<1>3. a + i >= a /\ (a + i <= b \/ a + i = a)
  <2>1. CASE a <= b
    <3>1. DaysBetween(a, b) \in 0..(b - a)
      BY <2>1, <1>1, DaysBetweenBounds
    <3> QED
      BY <3>1, <1>1, <1>2
  <2>2. CASE a > b
    <3>1. DaysBetween(a, b) <= 0 /\ DaysBetween(a, b) \in Int
      BY <2>2, <1>1, DaysBetweenBounds
    <3> QED
      BY <3>1, <1>1, <1>2
  <2> QED
    BY <2>1, <2>2, <1>1
<1> QED
  BY <1>1, <1>2, <1>3 DEF Horizon

\* Nights are counted in whole days.
LEMMA BookDatesBounds ==
    ASSUME NEW dates \in Dates
    PROVE  /\ BookDates(dates) \in Int
           /\ CanBook(dates) => BookDates(dates) \in Nat
           /\ /\ CanBook(dates)
              /\ ShortDays \cap dates["check_in"]..(dates["check_out"] - 1) = {}
              => BookDates(dates) = dates["check_out"] - dates["check_in"]
<1>1. dates["check_in"] \in Int /\ dates["check_out"] \in Int
  BY DayAssumption DEF Dates, Tag, Day, NoDay
<1> DEFINE x == dates["check_in"]
           y == dates["check_out"]
<1>2. /\ DaysBetween(x, y) \in Int
      /\ x <= y => DaysBetween(x, y) \in 0..(y - x)
      /\ x <= y /\ ShortDays \cap x..(y - 1) = {} => DaysBetween(x, y) = y - x
  BY <1>1, DaysBetweenBounds
<1> QED
  BY <1>1, <1>2 DEF BookDates, CanBook, NoDay

\* The amount sent to Stripe is a natural number.
LEMMA RoundedNat ==
    ASSUME NEW nights \in Nat
    PROVE  Rounded(Price * nights) \in Nat
<1>1. Price * nights \in Nat
  BY PriceAssumption
<1> QED
  BY <1>1 DEF Rounded
-----------------------------------------------------------------------------
(* How attempts and screens change.                                        *)

\* Attempt b is what it was, but perhaps for its screen.
Same(b) == /\ attempt'[b].at = attempt[b].at
           /\ attempt'[b].guest = attempt[b].guest
           /\ attempt'[b].dates = attempt[b].dates
           /\ attempt'[b].amount = attempt[b].amount
           /\ attempt'[b].pay = attempt[b].pay

\* An attempt that loses its screen keeps the rest.
LEMMA DetachKeeps ==
    ASSUME Types, NEW b \in Attempt
    PROVE  LET r == [attempt[b] EXCEPT !.attached = FALSE]
           IN /\ r \in AttemptType
              /\ r.at = attempt[b].at /\ r.guest = attempt[b].guest
              /\ r.dates = attempt[b].dates /\ r.amount = attempt[b].amount
              /\ r.pay = attempt[b].pay
<1>1. attempt[b] \in AttemptType
  BY DEF Types
<1> QED
  BY <1>1 DEF AttemptType

\* Free and finished attempts are well-formed.
LEMMA FreeType ==
    /\ Free \in AttemptType /\ NoDates \in Dates
    /\ Free.at = "free" /\ Free.attached = TRUE
<1>1. NoDates \in Dates
  BY DEF NoDates, Dates, NoDay
<1> QED
  BY <1>1 DEF Free, AttemptType, Place

\* Moving on changes the place of one attempt.
LEMMA MovesEffect ==
    ASSUME Types, NEW a \in Attempt, NEW p \in Place, Moves(a, p)
    PROVE  /\ attempt' \in [Attempt -> AttemptType]
           /\ \A b \in Attempt : b # a => attempt'[b] = attempt[b]
           /\ attempt'[a].at = p
           /\ attempt'[a].guest = attempt[a].guest
           /\ attempt'[a].dates = attempt[a].dates
           /\ attempt'[a].amount = attempt[a].amount
           /\ attempt'[a].pay = attempt[a].pay
           /\ attempt'[a].attached = attempt[a].attached
BY DEF Types, Moves, AttemptType

\* Ending finishes one attempt, which keeps its guest.
LEMMA EndsEffect ==
    ASSUME Types, NEW a \in Attempt, Ends(a)
    PROVE  /\ attempt' \in [Attempt -> AttemptType]
           /\ \A b \in Attempt : b # a => attempt'[b] = attempt[b]
           /\ attempt'[a].at = "done" /\ attempt'[a].guest = attempt[a].guest
<1>1. Over(a) \in AttemptType /\ Over(a).at = "done" /\ Over(a).guest = attempt[a].guest
  BY FreeType DEF Types, Over, AttemptType, Place
<1> QED
  BY <1>1 DEF Ends, Types

\* Popping the screen finishes one attempt and detaches the others of its
\* guest; the dates on the screen stay.
LEMMA PopEffect ==
    ASSUME Types, NEW a \in Attempt, attempt[a].guest \in Guest, EndsAndPops(a)
    PROVE  /\ attempt' \in [Attempt -> AttemptType]
           /\ screen' \in [Guest -> ScreenType]
           /\ \A b \in Attempt : b # a => Same(b)
           /\ \A b \in Attempt : b # a /\ (Running(b) => attempt[b].guest # attempt[a].guest)
                                  => attempt'[b] = attempt[b]
           /\ attempt'[a].at = "done" /\ attempt'[a].guest = attempt[a].guest
           /\ \A g \in Guest : screen'[g].dates = screen[g].dates
           /\ \A g \in Guest : g # attempt[a].guest => screen'[g] = screen[g]
<1> DEFINE g == attempt[a].guest
<1>1. Over(a) \in AttemptType /\ Over(a).at = "done" /\ Over(a).guest = attempt[a].guest
  BY FreeType DEF Types, Over, AttemptType, Place
<1>2. CASE attempt[a].attached
  <2>1. screen' = [screen EXCEPT ![g].open = FALSE, ![g].isSaving = FALSE,
                                 ![g].param = screen[g].dates]
    BY <1>2 DEF EndsAndPops
  <2>2. screen' \in [Guest -> ScreenType]
    <3> DEFINE r == [screen[g] EXCEPT !.open = FALSE, !.isSaving = FALSE,
                                      !.param = screen[g].dates]
    <3>1. screen[g] \in ScreenType
      BY DEF Types
    <3>2. r \in ScreenType
      BY <3>1 DEF ScreenType
    <3>3. screen' = [screen EXCEPT ![g] = r]
      BY <2>1 DEF Types
    <3> HIDE DEF r
    <3> QED
      BY <3>2, <3>3 DEF Types
  <2>3. /\ \A h \in Guest : screen'[h].dates = screen[h].dates
        /\ \A h \in Guest : h # g => screen'[h] = screen[h]
    BY <2>1 DEF Types, ScreenType
  <2>4. \A b \in Attempt : attempt'[b] =
           IF b = a THEN Over(a)
           ELSE IF b \in Of(g) THEN [attempt[b] EXCEPT !.attached = FALSE]
           ELSE attempt[b]
    BY <1>2 DEF EndsAndPops
  <2>5. \A b \in Attempt : [attempt[b] EXCEPT !.attached = FALSE] \in AttemptType
    BY DetachKeeps
  <2>6. attempt' \in [Attempt -> AttemptType]
    <3>1. DOMAIN attempt' = Attempt /\ attempt' = [b \in DOMAIN attempt' |-> attempt'[b]]
      BY <1>2 DEF EndsAndPops
    <3>2. \A b \in Attempt : attempt'[b] \in AttemptType
      BY <1>1, <2>4, <2>5 DEF Types
    <3> QED
      BY <3>1, <3>2
  <2>7. \A b \in Attempt : b # a => Same(b)
    BY <2>4, DetachKeeps DEF Same
  <2>8. \A b \in Attempt : b # a /\ (Running(b) => attempt[b].guest # g)
                            => attempt'[b] = attempt[b]
    BY <2>4 DEF Of, Running
  <2> QED
    BY <1>1, <2>2, <2>3, <2>4, <2>6, <2>7, <2>8
<1>3. CASE ~attempt[a].attached
  <2>1. Ends(a) /\ screen' = screen
    BY <1>3 DEF EndsAndPops
  <2> QED
    BY <2>1, EndsEffect DEF Types, Same
<1> QED
  BY <1>2, <1>3

\* What an attempt's step must establish for the chain of its effects to hold:
\* a booking is written once, after the charge, and told of at the end.
LEMMA ChainStep ==
    ASSUME Types, Chain, NEW a \in Attempt,
           attempt[a].at # "done", attempt'[a].at # "free",
           \A b \in Attempt : b # a => Same(b) /\ charged'[b] = charged[b],
           charged'[a] = charged[a] \/ charged'[a] > 0,
           attempt'[a].guest \in Guest,
           attempt'[a].at \in {"init", "sheet"} => attempt'[a].amount > 0,
           attempt'[a].at = "booking" => CanSave(attempt'[a].dates),
           attempt'[a].at \in SavePlaces => charged'[a] > 0,
           attempt'[a].at \in Later => \E b \in bookings' : b.by = a,
           attempt'[a].at = "message" => attempt'[a].guest \in conversations',
           conversations \subseteq conversations',
           \/ /\ bookings' = bookings
              /\ attempt[a].at \notin Early => attempt'[a].at \notin Early
           \/ /\ attempt[a].at = "booking" /\ attempt'[a].at \notin Early
              /\ \E n : n.by = a /\ bookings' = bookings \union {n},
           \/ messages' = messages
           \/ /\ messages' = messages \union {a} /\ attempt'[a].at = "done"
              /\ attempt'[a].guest \in conversations'
              /\ \E b \in bookings' : b.by = a
    PROVE  Chain'
<1>1. bookings \subseteq bookings'
  OBVIOUS
<1>2. Progress'
  BY <1>1 DEF Chain, Progress, Same
<1>3. \A b \in bookings : b.by \in Attempt
  BY DEF Types, BookingType
<1>4. BookedOnce'
  <2>1. CASE bookings' = bookings /\ (attempt[a].at \notin Early => attempt'[a].at \notin Early)
    BY <2>1, <1>3 DEF Chain, BookedOnce, Same
  <2>2. CASE /\ attempt[a].at = "booking" /\ attempt'[a].at \notin Early
             /\ \E n : n.by = a /\ bookings' = bookings \union {n}
    <3>1. PICK n : n.by = a /\ bookings' = bookings \union {n}
      BY <2>2
    <3>2. \A b \in bookings : b.by # a
      BY <2>2, <1>3 DEF Chain, BookedOnce, Early
    <3> QED
      BY <2>2, <3>1, <3>2, <1>3 DEF Chain, BookedOnce, Same
  <2> QED
    BY <2>1, <2>2
<1>5. messages \subseteq Attempt /\ a \notin messages
  BY DEF Types, Chain, SentOnce
<1>6. SentOnce' /\ MessageHasConversation'
  BY <1>1, <1>5 DEF Chain, SentOnce, MessageHasConversation, Same
<1>7. PaidBeforeBooked'
  <2>1. \A b \in bookings' : b.by = a => charged'[a] > 0
    <3>1. CASE bookings' = bookings
      BY <3>1 DEF Chain, PaidBeforeBooked
    <3>2. CASE attempt[a].at = "booking"
      BY <3>2 DEF Chain, Progress, SavePlaces
    <3> QED
      BY <3>1, <3>2
  <2> QED
    BY <2>1, <1>3 DEF Chain, PaidBeforeBooked
<1> QED
  BY <1>2, <1>4, <1>6, <1>7 DEF Chain

\* The charge of a booking is the price of its nights.
Matches(b, paid) ==
    /\ b.checkIn < b.checkOut
    /\ ShortDays \cap b.checkIn..(b.checkOut - 1) = {}
          => b.pay = Price * (b.checkOut - b.checkIn)
    /\ paid = Rounded(b.pay)

\* What an attempt's step must establish for a guest without haste to get what
\* is paid for.
LEMMA CalmStep ==
    ASSUME Types, Chain, Calm, NEW a \in Attempt, haste' = haste,
           Running(a), attempt'[a].guest = attempt[a].guest,
           haste = 0 => \A b \in Attempt : b # a =>
              /\ attempt'[b].at = attempt[b].at /\ charged'[b] = charged[b]
              /\ Running(b) => /\ attempt'[b] = attempt[b]
                               /\ screen'[attempt[b].guest].open = screen[attempt[b].guest].open
                               /\ screen'[attempt[b].guest].dates = screen[attempt[b].guest].dates,
           haste = 0 /\ attempt'[a].at \notin {"free", "done"} =>
              attempt'[a].attached /\ screen'[attempt[a].guest].open,
           haste = 0 /\ attempt'[a].at \in {"intent", "init", "sheet"} =>
              /\ attempt[a].at \in {"intent", "init", "sheet"}
              /\ attempt'[a].amount = attempt[a].amount
              /\ screen'[attempt[a].guest].dates = screen[attempt[a].guest].dates,
           haste = 0 /\ attempt'[a].at = "booking" =>
              /\ CanBook(attempt'[a].dates)
              /\ attempt'[a].pay = BookDates(attempt'[a].dates) * Price
              /\ charged'[a] = Rounded(attempt'[a].pay),
           charged'[a] = charged[a] \/ attempt[a].at \in Early,
           \/ bookings' = bookings
           \/ \E n : /\ bookings' = bookings \union {n}
                     /\ haste = 0 => Matches(n, charged'[n.by])
    PROVE  Calm'
<1> SUFFICES ASSUME haste = 0 PROVE Calm'
  BY DEF Calm, Alone, Priced, ChargeMatchesBooking
<1>1. \A b \in Attempt : attempt'[b].at \notin {"free", "done"} =>
         Running(b) /\ attempt'[b].guest = attempt[b].guest
  BY DEF Running
<1>2. Alone'
  <2>1. ASSUME NEW b \in Attempt, attempt'[b].at \notin {"free", "done"}
        PROVE  /\ attempt'[b].attached /\ screen'[attempt'[b].guest].open
               /\ \A c \in Attempt : /\ attempt'[c].at \notin {"free", "done"}
                                     /\ attempt'[c].guest = attempt'[b].guest
                                     => c = b
    <3>1. Running(b) /\ attempt'[b].guest = attempt[b].guest
      BY <1>1, <2>1
    <3>2. attempt'[b].attached /\ screen'[attempt'[b].guest].open
      BY <2>1, <3>1 DEF Calm, Alone
    <3>3. \A c \in Attempt : /\ attempt'[c].at \notin {"free", "done"}
                             /\ attempt'[c].guest = attempt'[b].guest
                             => c = b
      BY <1>1, <3>1 DEF Calm, Alone
    <3> QED
      BY <3>2, <3>3
  <2> QED
    BY <2>1 DEF Alone, Running
<1>3. Priced'
  <2>1. ASSUME NEW b \in Attempt, attempt'[b].at \in {"intent", "init", "sheet"}
        PROVE  /\ CanBook(screen'[attempt'[b].guest].dates)
               /\ attempt'[b].amount = Rounded(Price * BookDates(screen'[attempt'[b].guest].dates))
    <3>1. /\ attempt[b].at \in {"intent", "init", "sheet"}
          /\ attempt'[b].guest = attempt[b].guest
          /\ attempt'[b].amount = attempt[b].amount
          /\ screen'[attempt[b].guest].dates = screen[attempt[b].guest].dates
      BY <2>1 DEF Running
    <3> QED
      BY <3>1 DEF Calm, Priced
  <2>2. ASSUME NEW b \in Attempt, attempt'[b].at = "booking"
        PROVE  /\ CanBook(attempt'[b].dates)
               /\ attempt'[b].pay = BookDates(attempt'[b].dates) * Price
               /\ charged'[b] = Rounded(attempt'[b].pay)
    <3>1. CASE b = a
      BY <2>2, <3>1
    <3>2. CASE b # a
      BY <2>2, <3>2 DEF Running, Calm, Priced
    <3> QED
      BY <3>1, <3>2
  <2> QED
    BY <2>1, <2>2 DEF Priced
<1>4. ChargeMatchesBooking'
  <2>1. \A b \in bookings : b.by \in Attempt /\ charged'[b.by] = charged[b.by]
    BY DEF Types, BookingType, Chain, BookedOnce
  <2>2. \A b \in bookings : Matches(b, charged[b.by])
    BY DEF Calm, ChargeMatchesBooking, Matches
  <2>3. \A b \in bookings' : Matches(b, charged'[b.by])
    BY <2>1, <2>2
  <2> QED
    BY <2>3 DEF ChargeMatchesBooking, Matches
<1> QED
  BY <1>2, <1>3, <1>4 DEF Calm

\* What the guest does on the screen takes nothing away from the attempts of
\* others, nor from the guest's own unless hastily.
LEMMA ScreenStep ==
    ASSUME Types, Calm, UNCHANGED <<charged, bookings>>, haste' \in Nat,
           haste' = 0 =>
              /\ haste = 0 /\ attempt' = attempt
              /\ \A g \in Guest : \/ Of(g) = {}
                                  \/ /\ screen'[g].open = screen[g].open
                                     /\ screen'[g].dates = screen[g].dates,
           Progress
    PROVE  Calm'
<1> SUFFICES ASSUME haste' = 0 PROVE Calm'
  BY DEF Calm, Alone, Priced, ChargeMatchesBooking
<1>1. \A a \in Attempt : Running(a) =>
         /\ attempt[a].guest \in Guest
         /\ screen'[attempt[a].guest].open = screen[attempt[a].guest].open
         /\ screen'[attempt[a].guest].dates = screen[attempt[a].guest].dates
  BY DEF Progress, Running, Of
<1>2. Alone'
  BY <1>1 DEF Calm, Alone, Running
<1>3. Priced'
  BY <1>1 DEF Calm, Priced, Running
<1>4. ChargeMatchesBooking'
  BY DEF Calm, ChargeMatchesBooking
<1> QED
  BY <1>2, <1>3, <1>4 DEF Calm

\* Nothing of the chain depends on the screen.
LEMMA ChainFrame ==
    ASSUME Types, Chain, \A b \in Attempt : Same(b),
           UNCHANGED <<charged, bookings, conversations, messages>>
    PROVE  Chain'
<1>1. Progress'
  BY DEF Chain, Progress, Same
<1>2. BookedOnce'
  BY DEF Chain, BookedOnce, Same, Types, BookingType
<1>3. SentOnce' /\ MessageHasConversation'
  BY DEF Chain, SentOnce, MessageHasConversation, Same, Types
<1>4. PaidBeforeBooked'
  BY DEF Chain, PaidBeforeBooked
<1> QED
  BY <1>1, <1>2, <1>3, <1>4 DEF Chain
-----------------------------------------------------------------------------
(* The screen.                                                             *)

\* The blocked days are days of the calendar.
LEMMA UnselectableType == ASSUME Types PROVE Unselectable \subseteq Horizon
<1>1. ASSUME NEW b \in bookings
      PROVE  DaysInBetween(b.checkIn, b.checkOut) \subseteq Horizon
  <2>1. b.checkIn \in 1..LastDay /\ b.checkOut \in 1..LastDay
    BY DEF Types, BookingType, Day
  <2> QED
    BY <2>1, DaysInBetweenHorizon
<1> QED
  BY <1>1 DEF Unselectable

\* A touch is free of haste only when nothing of the guest is under way.
LEMMA TouchesEffect ==
    ASSUME Types, NEW g \in Guest, Touches(g)
    PROVE  haste' \in Nat /\ (haste' = 0 => haste = 0 /\ Of(g) = {})
BY DEF Types, Touches

\* A new cubit is well-formed.
LEMMA FreshType ==
    ASSUME NEW dates \in Dates
    PROVE  Fresh(dates) \in ScreenType /\ Fresh(dates).dates = NoDates
BY FreeType DEF Fresh, ScreenType, Tag

\* A step that replaces one screen and touches no attempt.
LEMMA ScreenOnly ==
    ASSUME Inv, NEW g \in Guest, NEW r \in ScreenType,
           screen' = [screen EXCEPT ![g] = r],
           UNCHANGED <<attempt, charged, docs, reported>>, haste' \in Nat,
           haste' = 0 => haste = 0 /\ \/ Of(g) = {}
                                      \/ r.open = screen[g].open /\ r.dates = screen[g].dates
    PROVE  Inv'
<1>1. Types'
  BY DEF Inv, Types, docs
<1>2. Chain'
  BY ChainFrame DEF Inv, docs, Same
<1>3. \A h \in Guest : screen'[h] = IF h = g THEN r ELSE screen[h]
  BY DEF Inv, Types
<1>4. Calm'
  BY <1>1, <1>3, ScreenStep DEF Inv, Types, Chain, docs
<1> QED
  BY <1>1, <1>2, <1>4 DEF Inv

\* The blocked days arrive and the cubit's state is set up afresh.
LEMMA SetupReturnsInv ==
    ASSUME Inv, NEW g \in Guest, SetupReturns(g)
    PROVE  Inv'
<1> DEFINE dates == IF screen[g].param = NoDates THEN [NoDates EXCEPT !["check_in"] = 1]
                    ELSE screen[g].param
           r == [Fresh(screen[g].param) EXCEPT
                    !.ready = TRUE, !.unselectable = Unselectable, !.dates = dates]
<1>1. screen[g].param \in Dates
  BY DEF Inv, Types, ScreenType
<1>2. dates \in Dates
  <2>1. 1 \in Day
    BY DayAssumption DEF Day
  <2> QED
    BY <1>1, <2>1, FreeType DEF Dates, NoDates, Tag, NoDay
<1>3. r \in ScreenType
  <2> HIDE DEF dates
  <2>1. Fresh(screen[g].param) \in ScreenType /\ Unselectable \subseteq Horizon
    BY <1>1, FreshType, UnselectableType DEF Inv
  <2> QED
    BY <1>2, <2>1 DEF ScreenType
<1>4. screen' = [screen EXCEPT ![g] = r] /\ UNCHANGED <<attempt, charged, docs, reported>>
  BY DEF SetupReturns
<1>5. haste' \in Nat /\ (haste' = 0 => haste = 0 /\ Of(g) = {})
  BY TouchesEffect DEF SetupReturns, Inv
<1> HIDE DEF r
<1> QED
  BY <1>3, <1>4, <1>5, ScreenOnly

\* The other tag is selected.
LEMMA SetCurrentTagInv ==
    ASSUME Inv, NEW g \in Guest, NEW t \in Tag, SetCurrentTag(g, t)
    PROVE  Inv'
<1> DEFINE r == [screen[g] EXCEPT !.tag = t]
<1>1. r \in ScreenType /\ r.open = screen[g].open /\ r.dates = screen[g].dates
  BY DEF Inv, Types, ScreenType
<1>2. screen' = [screen EXCEPT ![g] = r] /\ UNCHANGED <<attempt, charged, docs, reported, haste>>
  BY DEF SetCurrentTag
<1> HIDE DEF r
<1> QED
  BY <1>1, <1>2, ScreenOnly DEF Inv, Types

\* A date is picked.
LEMMA UpdateSelectedDateInv ==
    ASSUME Inv, NEW g \in Guest, NEW d \in Day, UpdateSelectedDate(g, d)
    PROVE  Inv'
<1> DEFINE dates == [screen[g].dates EXCEPT ![screen[g].tag] = d]
           r == [screen[g] EXCEPT !.dates = dates]
<1>1. screen[g] \in ScreenType /\ screen[g].dates \in Dates /\ screen[g].tag \in Tag
  BY DEF Inv, Types, ScreenType
<1>2. dates \in Dates
  BY <1>1 DEF Dates
<1>3. screen' = [screen EXCEPT ![g] = r] /\ UNCHANGED <<attempt, charged, docs, reported>>
  BY DEF UpdateSelectedDate
<1> HIDE DEF dates
<1>4. r \in ScreenType
  BY <1>1, <1>2 DEF ScreenType
<1>5. haste' \in Nat /\ (haste' = 0 => haste = 0 /\ Of(g) = {})
  BY TouchesEffect DEF UpdateSelectedDate, Inv
<1> HIDE DEF r
<1> QED
  BY <1>3, <1>4, <1>5, ScreenOnly

\* The screen is opened again: without haste nothing of the guest was left
\* under way when it went.
LEMMA ReopenInv ==
    ASSUME Inv, NEW g \in Guest, Reopen(g)
    PROVE  Inv'
<1> DEFINE r == Fresh(screen[g].param)
<1>1. r \in ScreenType
  BY FreshType DEF Inv, Types, ScreenType
<1>2. /\ screen' = [screen EXCEPT ![g] = r]
      /\ UNCHANGED <<attempt, charged, docs, reported, haste>>
  BY DEF Reopen
<1>3. haste = 0 => Of(g) = {}
  BY DEF Inv, Calm, Alone, Of, Running, Reopen
<1> HIDE DEF r
<1> QED
  BY <1>1, <1>2, <1>3, ScreenOnly DEF Inv, Types

\* The guest leaves: attempts lose their screen, which takes haste.
LEMMA LeaveInv ==
    ASSUME Inv, NEW g \in Guest, Leave(g)
    PROVE  Inv'
<1>1. haste' \in Nat /\ (haste' = 0 => haste = 0 /\ Of(g) = {})
  BY TouchesEffect DEF Leave, Inv
<1>2. \A a \in Attempt : attempt'[a] = IF a \in Of(g)
                                       THEN [attempt[a] EXCEPT !.attached = FALSE]
                                       ELSE attempt[a]
  BY DEF Leave
<1>3. \A a \in Attempt : attempt'[a] \in AttemptType /\ Same(a)
  <2>1. \A a \in Attempt : attempt[a] \in AttemptType
    BY DEF Inv, Types
  <2> QED
    BY <1>2, <2>1, DetachKeeps DEF Inv, Same
<1>4. attempt' \in [Attempt -> AttemptType]
  BY <1>3 DEF Leave
<1>5. /\ screen' \in [Guest -> ScreenType]
      /\ \A h \in Guest : h # g => screen'[h] = screen[h]
  <2>1. [screen[g] EXCEPT !.open = FALSE] \in ScreenType
    BY DEF Inv, Types, ScreenType
  <2>2. screen' = [screen EXCEPT ![g] = [screen[g] EXCEPT !.open = FALSE]]
    BY DEF Leave
  <2> QED
    BY <2>1, <2>2 DEF Inv, Types
<1>6. Types'
  BY <1>1, <1>4, <1>5 DEF Inv, Types, Leave, docs
<1>7. Chain'
  BY <1>3, ChainFrame DEF Inv, Leave, docs
<1>8. haste' = 0 => attempt' = attempt
  <2> SUFFICES ASSUME Of(g) = {} PROVE attempt' = attempt
    BY <1>1
  <2>1. \A a \in Attempt : attempt'[a] = attempt[a]
    BY <1>2
  <2> QED
    BY <2>1, <1>4 DEF Inv, Types
<1>9. Calm'
  BY <1>1, <1>5, <1>8, ScreenStep DEF Inv, Chain, Leave, docs
<1> QED
  BY <1>6, <1>7, <1>9 DEF Inv
-----------------------------------------------------------------------------
(* The attempts.                                                           *)

\* "Book Now": the amount is that of the dates on the screen, and a guest
\* without haste has nothing else under way.
LEMMA GetPaymentIntentInv ==
    ASSUME Inv, NEW a \in Attempt, NEW g \in Guest, GetPaymentIntent(a, g)
    PROVE  Inv'
<1> DEFINE dates == screen[g].dates
           nights == BookDates(dates)
<1>1. attempt[a] = Free /\ CanBook(dates) /\ screen[g].open /\ dates \in Dates
  BY DEF GetPaymentIntent, Inv, Types, ScreenType
<1>2. nights \in Nat /\ Rounded(Price * nights) \in Nat
  BY <1>1, BookDatesBounds, RoundedNat
<1>3. PICK r \in AttemptType :
         /\ attempt' = [attempt EXCEPT ![a] = r]
         /\ r.guest = g /\ r.at \in {"intent", "done"} /\ r.attached
         /\ r.at = "intent" => r.amount = Rounded(Price * nights)
  <2>1. CASE nights > 0
    <3> DEFINE r == [Free EXCEPT !.at = "intent", !.guest = g,
                                 !.amount = Rounded(Price * nights)]
    <3>1. attempt' = [attempt EXCEPT ![a] = r]
      BY <2>1 DEF GetPaymentIntent
    <3> HIDE DEF nights
    <3>2. /\ r \in AttemptType /\ r.guest = g /\ r.at = "intent" /\ r.attached
          /\ r.amount = Rounded(Price * nights)
      BY <1>2, FreeType DEF AttemptType, Place, Free
    <3> QED
      BY <3>1, <3>2
  <2>2. CASE ~(nights > 0)
    <3> DEFINE r == [Free EXCEPT !.at = "done", !.guest = g]
    <3>1. attempt' = [attempt EXCEPT ![a] = r]
      BY <2>2 DEF GetPaymentIntent
    <3>2. r \in AttemptType /\ r.guest = g /\ r.at = "done" /\ r.attached
      BY FreeType DEF AttemptType, Place, Free
    <3> QED
      BY <3>1, <3>2
  <2> QED
    BY <2>1, <2>2
<1>4. /\ attempt' \in [Attempt -> AttemptType] /\ attempt'[a] = r
      /\ \A b \in Attempt : b # a => attempt'[b] = attempt[b]
  BY <1>3 DEF Inv, Types
<1>5. /\ UNCHANGED <<screen, charged, docs>> /\ reported' \subseteq Attempt
      /\ haste' \in Nat /\ (haste' = 0 => haste = 0 /\ Of(g) = {})
  BY TouchesEffect DEF GetPaymentIntent, Inv, Types
<1>6. Types'
  BY <1>4, <1>5 DEF Inv, Types, docs
<1>7. attempt[a].at = "free"
  BY <1>1, FreeType
<1>8. Chain'
  BY <1>3, <1>4, <1>5, <1>7, ChainStep DEF Inv, docs, Same, SavePlaces, Later, Early
<1>9. ASSUME haste' = 0
      PROVE  Alone' /\ Priced' /\ ChargeMatchesBooking'
  <2>1. haste = 0 /\ \A b \in Attempt : Running(b) => attempt[b].guest # g
    BY <1>5, <1>9 DEF Of, Running
  <2>2. Alone'
    BY <1>1, <1>3, <1>4, <1>5, <2>1 DEF Inv, Calm, Alone, Running
  <2>3. Priced'
    BY <1>1, <1>3, <1>4, <1>5, <2>1 DEF Inv, Calm, Priced, docs
  <2>4. ChargeMatchesBooking'
    BY <1>5, <2>1 DEF Inv, Calm, ChargeMatchesBooking, docs
  <2> QED
    BY <2>2, <2>3, <2>4
<1>10. Calm'
  BY <1>9 DEF Calm, Alone, Priced, ChargeMatchesBooking
<1> QED
  BY <1>6, <1>8, <1>10 DEF Inv

\* An attempt that ends without a trace.
LEMMA EndsInv ==
    ASSUME Inv, NEW a \in Attempt, Running(a), Ends(a), reported' \subseteq Attempt,
           UNCHANGED <<screen, charged, docs, haste>>
    PROVE  Inv'
<1>1. /\ attempt' \in [Attempt -> AttemptType]
      /\ \A b \in Attempt : b # a => attempt'[b] = attempt[b]
      /\ attempt'[a].at = "done" /\ attempt'[a].guest = attempt[a].guest
  BY EndsEffect DEF Inv
<1>2. Types'
  BY <1>1 DEF Inv, Types, docs
<1>3. attempt[a].guest \in Guest
  BY DEF Inv, Chain, Progress, Running
<1>4. Chain'
  BY <1>1, <1>3, ChainStep DEF Inv, docs, Same, SavePlaces, Later, Early, Running
<1>5. Calm'
  BY <1>1, CalmStep DEF Inv, docs
<1> QED
  BY <1>2, <1>4, <1>5 DEF Inv

\* An attempt that ends with its screen popped, having sent its message or not.
LEMMA PopInv ==
    ASSUME Inv, NEW a \in Attempt, Running(a), EndsAndPops(a),
           reported' \subseteq Attempt,
           UNCHANGED <<bookings, earning, conversations, haste>>,
           charged' \in [Attempt -> Nat],
           \A b \in Attempt : b # a => charged'[b] = charged[b],
           charged'[a] = charged[a] \/ (attempt[a].at \in Early /\ charged'[a] > 0),
           messages' = messages \/ (messages' = messages \union {a} /\ attempt[a].at = "message")
    PROVE  Inv'
<1>1. attempt[a].guest \in Guest
  BY DEF Inv, Chain, Progress, Running
<1>2. /\ attempt' \in [Attempt -> AttemptType]
      /\ screen' \in [Guest -> ScreenType]
      /\ \A b \in Attempt : b # a => Same(b)
      /\ \A b \in Attempt : b # a /\ (Running(b) => attempt[b].guest # attempt[a].guest)
                            => attempt'[b] = attempt[b]
      /\ attempt'[a].at = "done" /\ attempt'[a].guest = attempt[a].guest
      /\ \A g \in Guest : g # attempt[a].guest => screen'[g] = screen[g]
  BY <1>1, PopEffect DEF Inv
<1>3. Types'
  BY <1>2 DEF Inv, Types
<1>4. attempt[a].at = "message" =>
         attempt[a].guest \in conversations /\ \E b \in bookings : b.by = a
  BY DEF Inv, Chain, Progress, Later, SavePlaces
<1>5. Chain'
  BY <1>1, <1>2, <1>4, ChainStep DEF Inv, SavePlaces, Later, Early, Running
<1>6. haste = 0 => \A b \in Attempt : b # a /\ Running(b) => attempt[b].guest # attempt[a].guest
  BY DEF Inv, Calm, Alone
<1>7. \A b \in Attempt : Running(b) => attempt[b].guest \in Guest
  BY DEF Inv, Chain, Progress, Running
<1>8. haste = 0 => \A b \in Attempt : b # a =>
              /\ attempt'[b].at = attempt[b].at /\ charged'[b] = charged[b]
              /\ Running(b) => /\ attempt'[b] = attempt[b]
                               /\ screen'[attempt[b].guest] = screen[attempt[b].guest]
  BY <1>2, <1>6, <1>7 DEF Same
<1>9. Calm'
  BY <1>2, <1>8, CalmStep DEF Inv
<1> QED
  BY <1>3, <1>5, <1>9 DEF Inv

\* An attempt that moves on to a place whose conditions hold.
LEMMA AdvanceInv ==
    ASSUME Inv, NEW a \in Attempt, NEW p \in Place \ {"free", "done", "booking"},
           Running(a),
           attempt' \in [Attempt -> AttemptType],
           \A b \in Attempt : b # a => attempt'[b] = attempt[b],
           attempt'[a].at = p,
           attempt'[a].guest = attempt[a].guest,
           attempt'[a].amount = attempt[a].amount,
           attempt'[a].attached = attempt[a].attached,
           attempt[a].at \notin Early => p \notin Early,
           p \in {"intent", "init", "sheet"} => attempt[a].at \in {"intent", "init", "sheet"},
           p \in {"init", "sheet"} => attempt[a].amount > 0,
           p \in Later => attempt[a].at \in Later,
           p = "message" => attempt[a].guest \in conversations',
           earning' \in [Guest \union {Host} -> Int],
           conversations \subseteq conversations', conversations' \subseteq Guest,
           UNCHANGED <<screen, charged, bookings, messages, reported, haste>>
    PROVE  Inv'
<1>2. Types'
  BY DEF Inv, Types
<1>3. attempt[a].guest \in Guest
  BY DEF Inv, Chain, Progress, Running
<1>4. p \in SavePlaces => p \in Later
  BY DEF Later
<1>5. attempt[a].at \in Later => charged[a] > 0 /\ \E b \in bookings : b.by = a
  BY DEF Inv, Chain, Progress, Later
<1>6. Chain'
  BY <1>3, <1>4, <1>5, ChainStep DEF Inv, Same, Running
<1>7. haste = 0 => attempt[a].attached /\ screen[attempt[a].guest].open
  BY DEF Inv, Calm, Alone
<1>8. Calm'
  BY <1>7, CalmStep DEF Inv
<1> QED
  BY <1>2, <1>6, <1>8 DEF Inv

\* The payment intent and the sheet: steps that charge nothing.
LEMMA SheetInv ==
    ASSUME Inv, NEW a \in Attempt,
           IntentReturns(a) \/ IntentFails(a) \/ SheetPresented(a) \/ SheetFails(a)
    PROVE  Inv'
<1>1. Running(a) /\ attempt[a].at \in {"intent", "init", "sheet"}
  BY DEF IntentReturns, IntentFails, SheetPresented, SheetFails, Running
<1>2. {"init", "sheet"} \subseteq Place /\ {"init", "sheet"} \cap Later = {}
      /\ {"intent", "init", "sheet"} \subseteq Early
  BY DEF Place, Later, SavePlaces, Early
<1>3. UNCHANGED <<screen, charged, docs, haste>> /\ reported' \subseteq Attempt
  BY DEF Inv, Types, IntentReturns, IntentFails, SheetPresented, SheetFails, Reports
<1>4. CASE Ends(a)
  BY <1>1, <1>3, <1>4, EndsInv
<1>5. ASSUME NEW p \in {"init", "sheet"}, Moves(a, p), attempt[a].amount > 0,
             reported' = reported
      PROVE  Inv'
  <2>1. /\ attempt' \in [Attempt -> AttemptType]
        /\ \A b \in Attempt : b # a => attempt'[b] = attempt[b]
        /\ attempt'[a].at = p
        /\ attempt'[a].guest = attempt[a].guest
        /\ attempt'[a].amount = attempt[a].amount
        /\ attempt'[a].attached = attempt[a].attached
    BY <1>2, <1>5, MovesEffect DEF Inv
  <2>2. p \in Place \ {"free", "done", "booking"} /\ p \notin Later /\ p # "message"
    BY <1>2
  <2>3. /\ UNCHANGED <<screen, charged, bookings, messages, reported, haste>>
        /\ earning' \in [Guest \union {Host} -> Int] /\ conversations' = conversations
        /\ conversations \subseteq Guest
    BY <1>3, <1>5 DEF Inv, Types, docs
  <2> QED
    BY <1>1, <1>2, <1>5, <2>1, <2>2, <2>3, AdvanceInv
<1>6. CASE IntentReturns(a)
  BY <1>4, <1>5, <1>6 DEF IntentReturns
<1>7. CASE IntentFails(a)
  BY <1>4, <1>7 DEF IntentFails
<1>8. CASE SheetPresented(a)
  <2>1. attempt[a].amount > 0
    BY <1>8 DEF SheetPresented, Inv, Chain, Progress
  <2> QED
    BY <1>5, <1>8, <2>1 DEF SheetPresented
<1>9. CASE SheetFails(a)
  BY <1>4, <1>9 DEF SheetFails
<1> QED
  BY <1>6, <1>7, <1>8, <1>9

\* The payment: saveBooking reads the dates the intent was made from, unless
\* the guest was hasty.
LEMMA SheetPaidInv ==
    ASSUME Inv, NEW a \in Attempt, SheetPaid(a)
    PROVE  Inv'
<1> DEFINE g == attempt[a].guest
           dates == screen[g].dates
<1>1. /\ attempt[a].at = "sheet" /\ Running(a) /\ g \in Guest
      /\ attempt[a].amount > 0 /\ attempt[a].amount \in Nat
  BY DEF SheetPaid, Inv, Chain, Progress, Running, Types, AttemptType
<1>2. /\ charged' \in [Attempt -> Nat] /\ charged'[a] = attempt[a].amount
      /\ \A b \in Attempt : b # a => charged'[b] = charged[b]
  BY <1>1 DEF SheetPaid, Inv, Types
<1>3. UNCHANGED <<bookings, earning, conversations, messages, reported, haste>>
  BY DEF SheetPaid, docs
<1>4. CASE ~(attempt[a].attached /\ CanSave(dates))
  <2>1. EndsAndPops(a)
    BY <1>4 DEF SheetPaid, SaveBegins
  <2>2. reported' \subseteq Attempt /\ attempt[a].at \in Early
    BY <1>1, <1>3 DEF Inv, Types, Early
  <2> QED
    BY <1>1, <1>2, <1>3, <2>1, <2>2, PopInv
<1>5. CASE attempt[a].attached /\ CanSave(dates)
  <2>1. /\ attempt' = [attempt EXCEPT ![a].at = "booking", ![a].dates = dates,
                                      ![a].pay = BookDates(dates) * Price]
        /\ screen' = [screen EXCEPT ![g].isSaving = TRUE]
    BY <1>5 DEF SheetPaid, SaveBegins
  <2>2. dates \in Dates /\ BookDates(dates) * Price \in Int
    <3>1. dates \in Dates
      BY <1>1 DEF Inv, Types, ScreenType
    <3>2. BookDates(dates) \in Int
      BY <3>1, BookDatesBounds
    <3> QED
      BY <3>1, <3>2, PriceAssumption
  <2> DEFINE pay == BookDates(dates) * Price
             r == [attempt[a] EXCEPT !.at = "booking", !.dates = dates, !.pay = pay]
  <2>3. attempt' = [attempt EXCEPT ![a] = r]
    BY <2>1 DEF Inv, Types
  <2> HIDE DEF pay, dates
  <2>4. /\ r \in AttemptType /\ r.at = "booking" /\ r.dates = dates /\ r.pay = pay
        /\ r.guest = g /\ r.attached = attempt[a].attached
    BY <2>2 DEF Inv, Types, AttemptType, Place, SavePlaces, pay
  <2> HIDE DEF r
  <2>5. /\ attempt' \in [Attempt -> AttemptType] /\ attempt'[a] = r
        /\ \A b \in Attempt : b # a => attempt'[b] = attempt[b]
    BY <2>3, <2>4 DEF Inv, Types
  <2>6. /\ screen' \in [Guest -> ScreenType]
        /\ \A h \in Guest : /\ screen'[h].open = screen[h].open
                             /\ screen'[h].dates = screen[h].dates
    <3> DEFINE v == [screen[g] EXCEPT !.isSaving = TRUE]
    <3>1. screen \in [Guest -> ScreenType] /\ g \in Guest
      BY <1>1 DEF Inv, Types
    <3>2. screen' = [screen EXCEPT ![g] = v]
      BY <2>1, <3>1
    <3>3. v \in ScreenType /\ v.open = screen[g].open /\ v.dates = screen[g].dates
      BY <3>1 DEF ScreenType
    <3> HIDE DEF v
    <3> QED
      BY <3>1, <3>2, <3>3
  <2>7. Types'
    BY <1>2, <1>3, <2>5, <2>6 DEF Inv, Types
  <2>8. Chain'
    BY <1>1, <1>2, <1>3, <1>5, <2>4, <2>5, ChainStep DEF Inv, Same, Early, Later
  <2>9. \A b \in Attempt : Running(b) => attempt[b].guest \in Guest
    BY DEF Inv, Chain, Progress, Running
  <2>10. haste = 0 => /\ attempt[a].attached /\ screen[g].open
                      /\ CanBook(dates)
                      /\ attempt[a].amount = Rounded(Price * BookDates(dates))
    BY <1>1 DEF Inv, Calm, Alone, Priced, dates
  <2>11. haste = 0 => CanBook(r.dates) /\ r.pay = BookDates(r.dates) * Price
                      /\ charged'[a] = Rounded(r.pay)
    <3>1. BookDates(dates) \in Int
      BY <2>2, BookDatesBounds
    <3>2. Price * BookDates(dates) = BookDates(dates) * Price
      BY <3>1, PriceAssumption
    <3> QED
      BY <1>2, <2>4, <2>10, <3>2 DEF pay
  <2>12. Calm'
    BY <1>1, <1>2, <1>3, <2>4, <2>5, <2>6, <2>9, <2>10, <2>11, CalmStep DEF Inv, Early
  <2> QED
    BY <2>7, <2>8, <2>12 DEF Inv
<1> QED
  BY <1>4, <1>5

\* createBooking: the attempt's only booking, with what was read after the
\* payment.
LEMMA BookingCreatedInv ==
    ASSUME Inv, NEW a \in Attempt, BookingCreated(a)
    PROVE  Inv'
<1> DEFINE dates == attempt[a].dates
           n == [checkIn |-> dates["check_in"], checkOut |-> dates["check_out"],
                 guest |-> attempt[a].guest, pay |-> attempt[a].pay, by |-> a]
<1>1. /\ attempt[a].at = "booking" /\ Running(a) /\ attempt[a].guest \in Guest
      /\ charged[a] > 0 /\ CanSave(dates) /\ dates \in Dates /\ attempt[a].pay \in Int
  BY DEF BookingCreated, Inv, Chain, Progress, Running, SavePlaces, Types, AttemptType
<1>2. bookings' = bookings \union {n} /\ Moves(a, "readEarning")
      /\ UNCHANGED <<screen, charged, earning, conversations, messages, reported, haste>>
  BY DEF BookingCreated
<1>3. "readEarning" \in Place /\ "readEarning" \in Later /\ "readEarning" \notin Early
  BY DEF Place, SavePlaces, Later, Early
<1>4. /\ attempt' \in [Attempt -> AttemptType]
      /\ \A b \in Attempt : b # a => attempt'[b] = attempt[b]
      /\ attempt'[a].at = "readEarning"
      /\ attempt'[a].guest = attempt[a].guest
      /\ attempt'[a].attached = attempt[a].attached
  BY <1>2, <1>3, MovesEffect DEF Inv
<1>5. n \in BookingType
  <2>1. dates["check_in"] \in Day /\ dates["check_out"] \in Day
    BY <1>1 DEF Dates, Tag, CanSave
  <2> QED
    BY <1>1, <2>1 DEF BookingType
<1>6. Types'
  BY <1>2, <1>4, <1>5 DEF Inv, Types
<1>7. haste = 0 => Matches(n, charged[a])
  <2> SUFFICES ASSUME haste = 0 PROVE Matches(n, charged[a])
    OBVIOUS
  <2>1. /\ CanBook(dates) /\ attempt[a].pay = BookDates(dates) * Price
        /\ charged[a] = Rounded(attempt[a].pay)
    BY <1>1 DEF Inv, Calm, Priced
  <2>2. ShortDays \cap dates["check_in"]..(dates["check_out"] - 1) = {}
           => attempt[a].pay = Price * (dates["check_out"] - dates["check_in"])
    <3>1. BookDates(dates) \in Int
      BY <1>1, BookDatesBounds
    <3>2. Price * BookDates(dates) = BookDates(dates) * Price
      BY <3>1, PriceAssumption
    <3>3. ShortDays \cap dates["check_in"]..(dates["check_out"] - 1) = {}
             => BookDates(dates) = dates["check_out"] - dates["check_in"]
      BY <1>1, <2>1, BookDatesBounds
    <3> QED
      BY <2>1, <3>2, <3>3
  <2>3. dates["check_in"] < dates["check_out"]
    <3>1. dates["check_in"] \in Int /\ dates["check_out"] \in Int
      BY <1>1, DayAssumption DEF Dates, Tag, Day, NoDay
    <3> QED
      BY <2>1, <3>1 DEF CanBook
  <2> QED
    BY <2>1, <2>2, <2>3 DEF Matches
<1>8. n.by = a
  OBVIOUS
<1> HIDE DEF n
<1>9. Chain'
  BY <1>1, <1>2, <1>3, <1>4, <1>8, ChainStep DEF Inv, Same
<1>10. haste = 0 => attempt[a].attached /\ screen[attempt[a].guest].open
  BY <1>1 DEF Inv, Calm, Alone
<1>11. Calm'
  BY <1>1, <1>2, <1>4, <1>7, <1>8, <1>10, CalmStep DEF Inv
<1> QED
  BY <1>6, <1>9, <1>11 DEF Inv

\* The steps of saveBooking between the booking and the message.
LEMMA SaveInv ==
    ASSUME Inv, NEW a \in Attempt,
           EarningRead(a) \/ EarningWritten(a) \/ ConversationRead(a) \/ ConversationWritten(a)
    PROVE  Inv'
<1> DEFINE Onward == {"writeEarning", "getConversation", "updateConversation",
                      "createConversation", "message"}
<1>1. /\ Running(a) /\ attempt[a].at \in Later /\ attempt[a].at \notin Early
      /\ attempt[a].guest \in Guest
  <2>1. attempt[a].at \in Later
    BY DEF EarningRead, EarningWritten, ConversationRead, ConversationWritten, Later, SavePlaces
  <2>2. Running(a) /\ attempt[a].at \notin Early
    BY <2>1 DEF Later, SavePlaces, Early, Running
  <2> QED
    BY <2>1, <2>2 DEF Inv, Chain, Progress, Running
<1>2. \A p \in Onward : /\ p \in Place \ {"free", "done", "booking"}
                        /\ p \notin Early /\ p \notin {"intent", "init", "sheet"}
  BY DEF Place, SavePlaces, Early
<1>3. /\ UNCHANGED <<screen, charged, bookings, messages, reported, haste>>
      /\ conversations \subseteq conversations' /\ conversations' \subseteq Guest
  BY <1>1 DEF EarningRead, EarningWritten, ConversationRead, ConversationWritten, docs, Inv, Types
<1>4. attempt[a].read \in Int /\ attempt[a].pay \in Int
  BY DEF Inv, Types, AttemptType
<1>5. earning' \in [Guest \union {Host} -> Int]
  <2>1. attempt[a].read + attempt[a].pay \in Int
    BY <1>4
  <2> QED
    BY <2>1 DEF EarningRead, EarningWritten, ConversationRead, ConversationWritten, docs, Inv, Types
<1>6. \E p \in Onward :
         /\ attempt' \in [Attempt -> AttemptType]
         /\ \A b \in Attempt : b # a => attempt'[b] = attempt[b]
         /\ attempt'[a].at = p
         /\ attempt'[a].guest = attempt[a].guest
         /\ attempt'[a].amount = attempt[a].amount
         /\ attempt'[a].attached = attempt[a].attached
         /\ p = "message" => attempt[a].guest \in conversations'
  <2>1. CASE EarningRead(a)
    <3> DEFINE r == [attempt[a] EXCEPT !.at = "writeEarning", !.read = earning[attempt[a].guest]]
    <3>1. attempt' = [attempt EXCEPT ![a] = r]
      BY <2>1 DEF EarningRead, Inv, Types
    <3>2. earning[attempt[a].guest] \in Int
      BY <1>1 DEF Inv, Types
    <3>3. /\ r \in AttemptType /\ r.at = "writeEarning" /\ r.guest = attempt[a].guest
          /\ r.amount = attempt[a].amount /\ r.attached = attempt[a].attached
      BY <1>2, <3>2 DEF Inv, Types, AttemptType
    <3> HIDE DEF r
    <3>4. /\ attempt' \in [Attempt -> AttemptType] /\ attempt'[a] = r
          /\ \A b \in Attempt : b # a => attempt'[b] = attempt[b]
      BY <3>1, <3>3 DEF Inv, Types
    <3> QED
      BY <3>3, <3>4
  <2>2. ASSUME NEW p \in Onward, Moves(a, p),
               p = "message" => attempt[a].guest \in conversations'
        PROVE  /\ attempt' \in [Attempt -> AttemptType]
               /\ \A b \in Attempt : b # a => attempt'[b] = attempt[b]
               /\ attempt'[a].at = p
               /\ attempt'[a].guest = attempt[a].guest
               /\ attempt'[a].amount = attempt[a].amount
               /\ attempt'[a].attached = attempt[a].attached
    BY <1>2, <2>2, MovesEffect DEF Inv
  <2>3. CASE EarningWritten(a)
    BY <2>2, <2>3 DEF EarningWritten
  <2>4. CASE ConversationRead(a)
    BY <2>2, <2>4 DEF ConversationRead
  <2>5. CASE ConversationWritten(a)
    BY <2>2, <2>5 DEF ConversationWritten
  <2> QED
    BY <2>1, <2>3, <2>4, <2>5
<1> HIDE DEF Onward
<1> QED
  BY <1>1, <1>2, <1>3, <1>5, <1>6, AdvanceInv

\* The message, or the failure of a write: the attempt is over.
LEMMA SaveEndsInv ==
    ASSUME Inv, NEW a \in Attempt, MessageSent(a) \/ SaveFails(a)
    PROVE  Inv'
<1>1. Running(a) /\ EndsAndPops(a)
  BY DEF MessageSent, SaveFails, Running, SavePlaces
<1>2. UNCHANGED <<bookings, earning, conversations, haste, charged>>
      /\ reported' \subseteq Attempt
      /\ (messages' = messages \/ (messages' = messages \union {a} /\ attempt[a].at = "message"))
  BY DEF MessageSent, SaveFails, docs, Reports, Inv, Types
<1>3. charged' \in [Attempt -> Nat]
  BY <1>2 DEF Inv, Types
<1> QED
  BY <1>1, <1>2, <1>3, PopInv
-----------------------------------------------------------------------------
(* The theorems.                                                           *)

\* At first nothing is asked for, paid or stored.
LEMMA InitInv == Init => Inv
<1> SUFFICES ASSUME Init PROVE Inv
  OBVIOUS
<1>1. \A a \in Attempt : attempt[a].at = "free"
  BY FreeType DEF Init
<1>2. Types
  BY FreeType, FreshType DEF Init, Types
<1>3. Chain
  BY <1>1 DEF Init, Chain, Progress, BookedOnce, SentOnce, PaidBeforeBooked,
              MessageHasConversation, SavePlaces, Later
<1>4. Calm
  BY <1>1 DEF Init, Calm, Alone, Priced, ChargeMatchesBooking, Running
<1> QED
  BY <1>2, <1>3, <1>4 DEF Inv

\* Every step keeps the invariant.
LEMMA NextInv ==
    ASSUME Inv, [Next]_vars
    PROVE  Inv'
<1>1. CASE \E g \in Guest : SetupReturns(g) \/ Leave(g) \/ Reopen(g)
  BY <1>1, SetupReturnsInv, LeaveInv, ReopenInv
<1>2. CASE \/ \E g \in Guest, t \in Tag : SetCurrentTag(g, t)
           \/ \E g \in Guest, d \in Day : UpdateSelectedDate(g, d)
  BY <1>2, SetCurrentTagInv, UpdateSelectedDateInv
<1>3. CASE \E g \in Guest, a \in Attempt : GetPaymentIntent(a, g)
  BY <1>3, GetPaymentIntentInv
<1>4. CASE \E a \in Attempt : SheetPaid(a) \/ SheetFails(a) \/ Steps(a)
  BY <1>4, SheetPaidInv, SheetInv, BookingCreatedInv, SaveInv, SaveEndsInv DEF Steps
<1>5. CASE UNCHANGED vars
  <2>1. Types'
    BY <1>5 DEF Inv, Types, vars
  <2>2. Chain'
    BY <1>5, ChainFrame DEF Inv, vars, Same
  <2>3. Calm'
    BY <1>5, ScreenStep DEF Inv, Types, Chain, vars
  <2> QED
    BY <2>1, <2>2, <2>3 DEF Inv
<1> QED
  BY <1>1, <1>2, <1>3, <1>4, <1>5 DEF Next

\* The invariant holds in every reachable state.
LEMMA Invariance == Spec => []Inv
<1>1. Inv /\ [Next]_vars => Inv'
  BY NextInv
<1> QED
  BY <1>1, InitInv, PTL DEF Spec

\* Booking is type correct: the days shown as blocked are days of the calendar
\* and an attempt stores at most one booking.
THEOREM TypeCorrect == Spec => []TypeOK
<1>1. Inv => TypeOK
  <2> SUFFICES ASSUME Inv PROVE TypeOK
    OBVIOUS
  <2>1. ASSUME NEW g \in Guest
        PROVE  /\ {screen[g].dates, screen[g].param} \subseteq [Tag -> Day \union {NoDay}]
               /\ screen[g].tag \in Tag
               /\ screen[g].unselectable \subseteq (1 - UtcShift)..(LastDay - UtcShift)
               /\ {screen[g].open, screen[g].ready, screen[g].isSaving} \subseteq BOOLEAN
    BY DEF Inv, Types, ScreenType, Dates, Horizon
  <2>2. \A a \in Attempt : attempt[a].guest \in Guest \union {Host}
    BY DEF Inv, Types, AttemptType
  <2> QED
    BY <2>1, <2>2 DEF Inv, Types, Chain, BookedOnce, TypeOK
<1> QED
  BY <1>1, Invariance, PTL

\* No booking is stored before its own attempt has been charged, whatever the
\* guest does meanwhile and whichever calls fail.
THEOREM BookedIsPaid == Spec => []PaidBeforeBooked
<1>1. Inv => PaidBeforeBooked
  BY DEF Inv, Chain
<1> QED
  BY <1>1, Invariance, PTL

\* The host's message always has its booking and its conversation.
THEOREM MessagesHaveConversations == Spec => []MessageHasConversation
<1>1. Inv => MessageHasConversation
  BY DEF Inv, Chain
<1> QED
  BY <1>1, Invariance, PTL

\* A guest who touches nothing while an attempt is under way gets the stay that
\* was paid for, for every calendar, price and time zone.
THEOREM ChargesMatch == Spec => []ChargeMatchesBooking
<1>1. Inv => ChargeMatchesBooking
  BY DEF Inv, Calm
<1> QED
  BY <1>1, Invariance, PTL
=============================================================================
