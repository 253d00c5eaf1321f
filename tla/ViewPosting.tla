----------------------------- MODULE ViewPosting -----------------------------
(***************************************************************************)
(* ViewPostingCubit over the guest's favourites: the heart and             *)
(* toggleFavourite, on a screen pushed over Saved, which stays alive below, *)
(* or over Explore (no list open).  The rows of ListScreens are the guest's *)
(* favourites of this posting.                                             *)
(*                                                                         *)
(* ViewPostingState.copyWith gives isFavorite the default false where the  *)
(* other fields keep their value, so every emission but the heart's own    *)
(* empties the heart.  The posting is valid and shows all its fields.      *)
(***************************************************************************)
EXTENDS ListScreens

VARIABLES
    view,     \* the cubit's state
    asked,    \* its calls under way: "user", "favourite", "bookings"
    taps,     \* toggleFavourite calls under way; live: the cubit is still open
    removed   \* history: a favourite was deleted since the screen was opened

viewVars == <<view, asked, taps, removed>>

NoView == [open |-> FALSE, isFavorite |-> FALSE, isHost |-> FALSE]

\* state.copyWith without isFavorite.
CopyWith(v) == [v EXCEPT !.isFavorite = FALSE]

\* A new document: the least row that is neither stored nor being written.
Fresh(r) == LET free == {q \in Row : rows[q].gone /\ ~\E t \in taps : t.row = q}
            IN r \in free /\ \A q \in free : r <= q
-----------------------------------------------------------------------------
\* The constructor: _setupInitialValues asks for the user's id.
OpenPosting ==
    /\ ~view.open
    /\ view' = [NoView EXCEPT !.open = TRUE]
    /\ asked' = {"user"}
    /\ removed' = FALSE
    /\ UNCHANGED <<taps, listVars>>

\* The screen is popped.  An answer still under way finds a closed cubit, whose
\* emit throws, but a favourite is created all the same.
ClosePosting ==
    /\ view.open
    /\ view' = NoView
    /\ asked' = {}
    /\ taps' = {[t EXCEPT !.live = FALSE] : t \in taps}
    /\ removed' = FALSE
    /\ UNCHANGED listVars

\* The user's id arrives: isHost is emitted, and the favourite and the bookings
\* are asked for.
UserKnown(isHost) ==
    /\ "user" \in asked
    /\ view' = CopyWith([view EXCEPT !.isHost = isHost])
    /\ asked' = {"favourite", "bookings"}
    /\ UNCHANGED <<taps, removed, listVars>>

\* No user: isHost is false, nothing else is asked for.
UserUnknown ==
    /\ "user" \in asked
    /\ view' = CopyWith(view)
    /\ asked' = {}
    /\ UNCHANGED <<taps, removed, listVars>>

\* getFavouritePosting: the favourites the server has are stored, with their
\* posting linked (one that Realm did not have counts as a change made
\* elsewhere); is there one in Realm?
FavouriteRead(found) ==
    /\ "favourite" \in asked
    /\ asked' = asked \ {"favourite"}
    /\ Write([r \in Row |-> IF r \in found THEN Stored(NoTime, TRUE) ELSE rows[r]])
    /\ IF rows' = rows THEN UNCHANGED rowChanges
       ELSE rowChanges < MaxRowChanges /\ rowChanges' = rowChanges + 1
    /\ view' = [view EXCEPT !.isFavorite = Present(rows') # {}]
    /\ UNCHANGED <<taps, removed, list, awaiting, shown, deletes, late>>

\* getBookingsForPosting returns and canReview is emitted.
BookingsRead ==
    /\ "bookings" \in asked
    /\ asked' = asked \ {"bookings"}
    /\ view' = CopyWith(view)
    /\ UNCHANGED <<taps, removed, listVars>>

\* Either read throws; nothing catches it.
ReadFails ==
    /\ \E q \in asked : q # "user" /\ asked' = asked \ {q}
    /\ UNCHANGED <<view, taps, removed, listVars>>

\* setReviewRating, selectedMarker and its timer, updateBookingTimeMap and the
\* reviews' listener.
OtherEmission ==
    /\ view.open
    /\ view' = CopyWith(view)
    /\ UNCHANGED <<asked, taps, removed, listVars>>

\* Mutant of ToggleFavourite: the heart is filled before the call returns.
ToggleFavouriteAtOnce(r) ==
    /\ view.open /\ ~view.isHost /\ ~view.isFavorite
    /\ Fresh(r)
    /\ taps' = taps \union {[row |-> r, live |-> TRUE]}
    /\ view' = [view EXCEPT !.isFavorite = TRUE]
    /\ UNCHANGED <<asked, removed, listVars>>

\* toggleFavourite: a new document r is written, unless the guest is the host or
\* the heart is filled.
ToggleFavourite(r) ==
    /\ view.open /\ ~view.isHost /\ ~view.isFavorite
    /\ Fresh(r)
    /\ taps' = taps \union {[row |-> r, live |-> TRUE]}
    /\ UNCHANGED <<view, asked, removed, listVars>>

\* The favourite is stored, with its posting linked, and the heart filled.
FavouriteCreated(t) ==
    /\ t \in taps
    /\ taps' = taps \ {t}
    /\ Write([rows EXCEPT ![t.row] = Stored(NoTime, TRUE)])
    /\ view' = IF t.live THEN [view EXCEPT !.isFavorite = TRUE] ELSE view
    /\ UNCHANGED <<asked, removed, list, awaiting, shown, deletes, rowChanges, late>>

\* The call throws, which nothing catches, or there is no user.
FavouriteFails(t) ==
    /\ t \in taps
    /\ taps' = taps \ {t}
    /\ UNCHANGED <<view, asked, removed, listVars>>
-----------------------------------------------------------------------------
ViewInit == /\ view = NoView
            /\ asked = {} /\ taps = {}
            /\ removed = FALSE

ViewAnswers == \/ \E h \in BOOLEAN : UserKnown(h)
               \/ \E found \in SUBSET Row : FavouriteRead(found)
               \/ UserUnknown \/ BookingsRead \/ ReadFails
               \/ \E t \in taps : FavouriteCreated(t) \/ FavouriteFails(t)

ViewUser == ClosePosting \/ OtherEmission \/ \E r \in Row : ToggleFavourite(r)
-----------------------------------------------------------------------------
(* Properties.                                                             *)

\* The heart is filled only over a favourite that is stored: neither a tap whose
\* call has not returned, or fails, nor a tap of an earlier visit fills it.
\* Excepted is a favourite deleted while the screen is open, which it does not
\* hear of.
HeartEarned == view.open /\ view.isFavorite /\ ~removed => Present(rows) # {}
=============================================================================
