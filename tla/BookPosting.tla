---------------------------- MODULE BookPosting ----------------------------
(***************************************************************************)
(* Booking a posting: BookPostingCubit and BookPostingScreen on each       *)
(* guest's device, Stripe, and what saveBooking writes to Firestore.       *)
(*                                                                         *)
(* An attempt is one press of "Book Now".  It awaits a payment intent, the *)
(* set-up of the payment sheet and the sheet itself, then the writes of    *)
(* saveBooking, one after the other.  The cubit's state (dates, tag,       *)
(* isSaving) stays editable until the sheet is up, and saveBooking reads   *)
(* the dates again after the payment.  When the screen goes away its cubit *)
(* is closed, and an attempt that is still running can emit nothing more   *)
(* (emit throws): it is no longer attached to a screen.  There is one      *)
(* posting, valid, with a host and a price.                                *)
(***************************************************************************)
EXTENDS Integers, FiniteSets

CONSTANTS Guest, Host,
          Attempt,     \* presses of the button
          LastDay,     \* days on the calendar: 1..LastDay, 1 is today
          ShortDays,   \* days of 23 hours (clocks go forward)
          UtcShift,    \* 1 where local midnight is the day before in UTC
          Price,       \* posting.price, in cents
          MaxHaste     \* bound on what a guest does while an attempt is in flight

ASSUME HostAssumption == Host \notin Guest
ASSUME DayAssumption == LastDay \in Nat \ {0} /\ ShortDays \subseteq 1..LastDay
ASSUME ShiftAssumption == UtcShift \in {0, 1}
ASSUME PriceAssumption == Price \in Nat
ASSUME HasteAssumption == MaxHaste \in Nat

Day == 1..LastDay
NoDay == 0
Tag == {"check_in", "check_out"}
NoDates == [t \in Tag |-> NoDay]

VARIABLES
    screen,    \* per guest: the cubit's state
    attempt,   \* per attempt: what it waits for and what it carries
    charged,   \* per attempt: the amount Stripe has taken, 0 for none
    bookings,  \* the booking documents
    earning,   \* the earning field of each user document
    conversations, messages,  \* documents, by guest and by attempt
    reported,  \* attempts that ended with an error message
    haste      \* what was done so far while an attempt was in flight

docs == <<bookings, earning, conversations, messages>>
vars == <<screen, attempt, charged, bookings, earning, conversations, messages,
          reported, haste>>
-----------------------------------------------------------------------------
(* BookPostingState.                                                       *)

\* Hours from the calendar's first midnight to the midnight of day d.
Midnight(d) == 24 * d - Cardinality({s \in ShortDays : s < d})

\* Duration.inDays truncates towards zero.
DaysBetween(a, b) == IF a <= b THEN (Midnight(b) - Midnight(a)) \div 24
                     ELSE -((Midnight(a) - Midnight(b)) \div 24)

\* canBook
CanBook(dates) == /\ dates["check_in"] # NoDay /\ dates["check_out"] # NoDay
                  /\ dates["check_out"] > dates["check_in"]

\* saveBooking's own check.
CanSave(dates) == dates["check_in"] # NoDay /\ dates["check_out"] # NoDay

\* Mutant of BookDates: the day of departure is counted as a night.
BookDatesInclusive(dates) ==
    IF NoDay \in {dates["check_in"], dates["check_out"]} THEN 0
    ELSE DaysBetween(dates["check_in"], dates["check_out"]) + 1

\* bookDates
BookDates(dates) ==
    IF NoDay \in {dates["check_in"], dates["check_out"]} THEN 0
    ELSE DaysBetween(dates["check_in"], dates["check_out"])

\* Mutant of DaysInBetween: one day too many.
DaysInBetweenAndAfter(checkIn, checkOut) ==
    {checkIn - UtcShift + i : i \in 0..DaysBetween(checkIn, checkOut) + 1}

\* _getDaysInBetween: both ends included.  Realm hands back the stored
\* midnights in UTC: their difference is that of the instants, and the first
\* day is the calendar day of the check-in as UTC has it.
DaysInBetween(checkIn, checkOut) ==
    {checkIn - UtcShift + i : i \in 0..DaysBetween(checkIn, checkOut)}

\* (price * bookDates).round(), price in dollars.
Rounded(cents) == (cents + 50) \div 100

\* _getUnselectableDates
Unselectable == UNION {DaysInBetween(b.checkIn, b.checkOut) : b \in bookings}

Free == [dates |-> NoDates, at |-> "free", guest |-> Host, attached |-> TRUE,
         amount |-> 0, pay |-> 0, read |-> 0]

Of(g) == {a \in Attempt : attempt[a].guest = g
                          /\ attempt[a].at \notin {"free", "done"}}

\* The screen's own state changes: hastily, if an attempt is in flight.
Touches(g) == IF Of(g) = {} THEN UNCHANGED haste
              ELSE haste < MaxHaste /\ haste' = haste + 1

\* The native payment sheet is modal: nothing else can be touched.
Modal(g) == \E a \in Of(g) : attempt[a].at = "sheet"

\* A new cubit: BookPostingState() and the dates parameter of the route.
Fresh(dates) == [dates |-> NoDates, open |-> TRUE, ready |-> FALSE,
                 tag |-> "check_in", param |-> dates, unselectable |-> {},
                 isSaving |-> FALSE]

Moves(a, place) == attempt' = [attempt EXCEPT ![a].at = place]

\* An attempt that is over keeps only its guest.
Over(a) == [Free EXCEPT !.at = "done", !.guest = attempt[a].guest]

Ends(a) == attempt' = [attempt EXCEPT ![a] = Over(a)]

\* Attempt a is over and the screen pops, if it is still
\* there: its dates are returned to ViewPosting, its cubit is closed and the
\* guest's other attempts are detached from it.
EndsAndPops(a) ==
    LET g == attempt[a].guest
    IN IF attempt[a].attached
       THEN /\ screen' = [screen EXCEPT ![g].open = FALSE, ![g].isSaving = FALSE,
                                        ![g].param = screen[g].dates]
            /\ attempt' = [b \in Attempt |->
                  IF b = a THEN Over(a)
                  ELSE IF b \in Of(g) THEN [attempt[b] EXCEPT !.attached = FALSE]
                  ELSE attempt[b]]
       ELSE Ends(a) /\ UNCHANGED screen

\* An error message reaches the guest through a cubit that is not closed.
Reports(a) == reported' = IF attempt[a].attached THEN reported \union {a}
                          ELSE reported
-----------------------------------------------------------------------------
(* The screen.                                                             *)

\* The answer of _getUnselectableDates: a fresh state replaces the current
\* one, with the dates parameter or else check-in today.
SetupReturns(g) ==
    /\ screen[g].open /\ ~screen[g].ready /\ Touches(g)
    /\ screen' = [screen EXCEPT ![g] =
          [Fresh(screen[g].param) EXCEPT
              !.ready = TRUE, !.unselectable = Unselectable,
              !.dates = IF screen[g].param = NoDates
                        THEN [NoDates EXCEPT !["check_in"] = 1]
                        ELSE screen[g].param]]
    /\ UNCHANGED <<attempt, charged, docs, reported>>

\* setCurrentTag
SetCurrentTag(g, t) ==
    /\ screen[g].open /\ screen[g].tag # t /\ ~Modal(g)
    /\ screen' = [screen EXCEPT ![g].tag = t]
    /\ UNCHANGED <<attempt, charged, docs, reported, haste>>

\* updateSelectedDate, from the calendar and its isDaySelectable.
UpdateSelectedDate(g, d) ==
    /\ screen[g].open /\ Touches(g) /\ ~Modal(g)
    /\ d \notin screen[g].unselectable
    /\ screen' = [screen EXCEPT ![g].dates[screen[g].tag] = d]
    /\ UNCHANGED <<attempt, charged, docs, reported>>

\* The guest goes back, which closes the cubit.
Leave(g) ==
    /\ screen[g].open /\ Touches(g) /\ ~Modal(g)
    /\ screen' = [screen EXCEPT ![g].open = FALSE]
    /\ attempt' = [a \in Attempt |->
          IF a \in Of(g) THEN [attempt[a] EXCEPT !.attached = FALSE]
          ELSE attempt[a]]
    /\ UNCHANGED <<charged, docs, reported>>

\* ViewPosting opens the screen again with the dates it was last given.
Reopen(g) ==
    /\ ~screen[g].open
    /\ screen' = [screen EXCEPT ![g] = Fresh(screen[g].param)]
    /\ UNCHANGED <<attempt, charged, docs, reported, haste>>
-----------------------------------------------------------------------------
(* getPaymentIntent and the payment sheet.                                 *)

\* The button is enabled by canBook and not isSaving; with no night to pay
\* for, getPaymentIntent only reports an error.
GetPaymentIntent(a, g) ==
    /\ attempt[a] = Free /\ screen[g].open /\ Touches(g) /\ ~Modal(g)
    /\ CanBook(screen[g].dates) /\ ~screen[g].isSaving
    /\ LET nights == BookDates(screen[g].dates)
       IN IF nights > 0
          THEN /\ attempt' = [attempt EXCEPT ![a] =
                     [Free EXCEPT !.at = "intent", !.guest = g,
                                  !.amount = Rounded(Price * nights)]]
               /\ UNCHANGED reported
          ELSE /\ attempt' = [attempt EXCEPT ![a] =
                     [Free EXCEPT !.at = "done", !.guest = g]]
               /\ reported' = reported \union {a}
    /\ UNCHANGED <<screen, charged, docs>>

\* The intent arrives: the listener sets up the payment sheet.  A closed
\* cubit cannot emit it.  External (Stripe): nothing rounds to an intent of
\* nothing, which Stripe refuses.
IntentReturns(a) ==
    /\ attempt[a].at = "intent" /\ attempt[a].amount > 0
    /\ IF attempt[a].attached THEN Moves(a, "init") ELSE Ends(a)
    /\ UNCHANGED <<screen, charged, docs, reported, haste>>

IntentFails(a) ==
    /\ attempt[a].at = "intent"
    /\ Ends(a)
    /\ Reports(a)
    /\ UNCHANGED <<screen, charged, docs, haste>>

\* initPaymentSheet returns and presentPaymentSheet begins, also when the
\* screen behind it is gone.
SheetPresented(a) ==
    /\ attempt[a].at = "init"
    /\ Moves(a, "sheet")
    /\ UNCHANGED <<screen, charged, docs, reported, haste>>

\* The set-up fails, the guest dismisses the sheet or the card is declined:
\* an exception that the listener swallows.
SheetFails(a) ==
    /\ attempt[a].at \in {"init", "sheet"}
    /\ Ends(a)
    /\ UNCHANGED <<screen, charged, docs, reported, haste>>

\* saveBooking up to its first write: it reads the dates of the moment, gives
\* up without them (and the screen pops), and sets isSaving, which throws when
\* the cubit is closed.
SaveBegins(a) ==
    LET g == attempt[a].guest
        dates == screen[g].dates
    IN IF attempt[a].attached /\ CanSave(dates)
       THEN /\ attempt' = [attempt EXCEPT ![a].at = "booking", ![a].dates = dates,
                                          ![a].pay = BookDates(dates) * Price]
            /\ screen' = [screen EXCEPT ![g].isSaving = TRUE]
       ELSE EndsAndPops(a)

\* Mutant of SheetPaid: the sheet is presented without awaiting the payment.
SheetNotAwaited(a) ==
    /\ attempt[a].at = "sheet"
    /\ SaveBegins(a)
    /\ UNCHANGED <<charged, docs, reported, haste>>

\* The payment succeeds and saveBooking begins.
SheetPaid(a) ==
    /\ attempt[a].at = "sheet"
    /\ charged' = [charged EXCEPT ![a] = attempt[a].amount]
    /\ SaveBegins(a)
    /\ UNCHANGED <<docs, reported, haste>>
-----------------------------------------------------------------------------
(* saveBooking: each step is one awaited call that succeeds.               *)

\* createBooking
BookingCreated(a) ==
    /\ attempt[a].at = "booking"
    /\ bookings' = bookings \union
          {[checkIn |-> attempt[a].dates["check_in"],
            checkOut |-> attempt[a].dates["check_out"],
            guest |-> attempt[a].guest, pay |-> attempt[a].pay, by |-> a]}
    /\ Moves(a, "readEarning")
    /\ UNCHANGED <<screen, charged, earning, conversations, messages, reported, haste>>

\* getUser(userId): the guest's document.
EarningRead(a) ==
    /\ attempt[a].at = "readEarning"
    /\ attempt' = [attempt EXCEPT ![a].at = "writeEarning",
                                  ![a].read = earning[attempt[a].guest]]
    /\ UNCHANGED <<screen, charged, docs, reported, haste>>

\* updateUser(hostId, ...): the host's document.
EarningWritten(a) ==
    /\ attempt[a].at = "writeEarning"
    /\ earning' = [earning EXCEPT ![Host] = attempt[a].read + attempt[a].pay]
    /\ Moves(a, "getConversation")
    /\ UNCHANGED <<screen, charged, bookings, conversations, messages, reported, haste>>

\* getUser and getConversation of the pair's conversation id.
ConversationRead(a) ==
    /\ attempt[a].at = "getConversation"
    /\ Moves(a, IF attempt[a].guest \in conversations THEN "updateConversation"
                ELSE "createConversation")
    /\ UNCHANGED <<screen, charged, docs, reported, haste>>

\* Mutant of ConversationWritten: only an existing conversation is touched.
ConversationOnlyUpdated(a) ==
    /\ attempt[a].at \in {"updateConversation", "createConversation"}
    /\ Moves(a, "message")
    /\ UNCHANGED <<screen, charged, docs, reported, haste>>

\* updateConversation or createConversation (which overwrites).
ConversationWritten(a) ==
    /\ attempt[a].at \in {"updateConversation", "createConversation"}
    /\ conversations' = conversations \union {attempt[a].guest}
    /\ Moves(a, "message")
    /\ UNCHANGED <<screen, charged, bookings, earning, messages, reported, haste>>

\* createMessage, isSaving is cleared and the screen pops.
MessageSent(a) ==
    /\ attempt[a].at = "message"
    /\ messages' = messages \union {a}
    /\ EndsAndPops(a)
    /\ UNCHANGED <<charged, bookings, earning, conversations, reported, haste>>

SavePlaces == {"booking", "readEarning", "writeEarning", "getConversation",
               "updateConversation", "createConversation", "message"}

\* Mutant of SaveFails: no catch, so that nothing is emitted or popped.
SaveFailsUncaught(a) ==
    /\ attempt[a].at \in SavePlaces
    /\ Ends(a)
    /\ UNCHANGED <<screen, charged, docs, reported, haste>>

\* Mutant of SaveFails: the error is not shown.
SaveFailsSilently(a) ==
    /\ attempt[a].at \in SavePlaces
    /\ EndsAndPops(a)
    /\ UNCHANGED <<charged, docs, reported, haste>>

\* Any of those calls throws: what was written stays, "Booking failed" is
\* emitted, and the screen pops all the same.
SaveFails(a) ==
    /\ attempt[a].at \in SavePlaces
    /\ EndsAndPops(a)
    /\ Reports(a)
    /\ UNCHANGED <<charged, docs, haste>>
-----------------------------------------------------------------------------
Init == /\ screen = [g \in Guest |-> Fresh(NoDates)]
        /\ attempt = [a \in Attempt |-> Free]
        /\ charged = [a \in Attempt |-> 0]
        /\ bookings = {}
        /\ earning = [u \in Guest \union {Host} |-> 0]
        /\ conversations \in SUBSET Guest
        /\ messages = {}
        /\ reported = {}
        /\ haste = 0

Steps(a) == \/ IntentReturns(a) \/ IntentFails(a) \/ SheetPresented(a)
            \/ BookingCreated(a) \/ EarningRead(a) \/ EarningWritten(a)
            \/ ConversationRead(a) \/ ConversationWritten(a) \/ MessageSent(a)
            \/ SaveFails(a)

Next == \/ \E g \in Guest : SetupReturns(g) \/ Leave(g) \/ Reopen(g)
        \/ \E g \in Guest, t \in Tag : SetCurrentTag(g, t)
        \/ \E g \in Guest, d \in Day : UpdateSelectedDate(g, d)
        \/ \E g \in Guest, a \in Attempt : GetPaymentIntent(a, g)
        \/ \E a \in Attempt : SheetPaid(a) \/ SheetFails(a) \/ Steps(a)

\* Calls are answered or time out.  The guest owes nothing.
Fairness == \A a \in Attempt : WF_vars(Steps(a))

Spec == Init /\ [][Next]_vars /\ Fairness
-----------------------------------------------------------------------------
(* Properties.                                                             *)

\* Types; a booking belongs to one attempt.
TypeOK ==
    /\ \A g \in Guest : /\ {screen[g].dates, screen[g].param}
                              \subseteq [Tag -> Day \union {NoDay}]
                        /\ screen[g].tag \in Tag
                        /\ screen[g].unselectable \subseteq
                              (1 - UtcShift)..(LastDay - UtcShift)
                        /\ {screen[g].open, screen[g].ready, screen[g].isSaving}
                              \subseteq BOOLEAN
    /\ \A a \in Attempt : attempt[a].guest \in Guest \union {Host}
    /\ \A u \in Guest \union {Host} : earning[u] \in Int
    /\ conversations \subseteq Guest
    /\ messages \union reported \subseteq Attempt
    /\ \A b, c \in bookings : b.by = c.by => b = c

\* A booking is stored only after its own payment went through.
PaidBeforeBooked == \A b \in bookings : charged[b.by] > 0

\* The stored booking is the one that was paid for: a stay of at least one
\* night, its recorded amount the price of its nights (unless the clocks go
\* forward in one of them), and the charge that amount rounded.
ChargeMatchesBooking ==
    haste = 0 => \A b \in bookings :
        /\ b.checkIn < b.checkOut
        /\ ShortDays \cap b.checkIn..(b.checkOut - 1) = {}
              => b.pay = Price * (b.checkOut - b.checkIn)
        /\ charged[b.by] = Rounded(b.pay)

\* The host is never messaged about a booking in a conversation that does not
\* exist, or for a booking that was not stored.
MessageHasConversation ==
    \A a \in messages : /\ attempt[a].guest \in conversations
                        /\ \E b \in bookings : b.by = a

\* The amount sent to Stripe is the price of the nights in cents.
AmountInCents ==
    \A a \in Attempt : \A b \in bookings :
        b.by = a => charged[a] = Price * (b.checkOut - b.checkIn)

\* A guest who has been charged, and who waits for it, gets a booking or an
\* error message.
PaidIsAnswered ==
    \A a \in Attempt : charged[a] > 0 ~>
        (haste > 0 \/ a \in reported \/ \E b \in bookings : b.by = a)

\* A screen does not stay behind its progress indicator: saving ends, whatever
\* fails, with the button enabled or the screen gone.
SavingEnds ==
    \A g \in Guest : (screen[g].open /\ screen[g].isSaving) ~>
                         ~(screen[g].open /\ screen[g].isSaving)
=============================================================================
