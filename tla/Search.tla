------------------------------- MODULE Search -------------------------------
(***************************************************************************)
(* The two search boxes: ExploreCubit (kind "explore"), which asks         *)
(* Firestore for postings, stores them in Realm and shows what Realm       *)
(* finds, and SearchPropertyLocationCubit (kind "place"), which asks a     *)
(* geocoding service.  Both debounce what is typed, drop a text equal to   *)
(* the last one searched, and begin a search without waiting for the one   *)
(* before: answers may overtake each other, and outlive the screen.        *)
(*                                                                         *)
(* A posting is the set of the words in its name, address and type.  Words *)
(* and texts are abstract: Rank is their order in Firestore, RankEnd the   *)
(* rank of the text followed by U+F8FF, and Contains says which text       *)
(* occurs in which word, ignoring case (Realm's CONTAINS[c]).              *)
(***************************************************************************)
EXTENDS Integers

CONSTANTS Offer,         \* the postings
          Word, Text,
          EmptyText,
          Rank, RankEnd, Contains,
          NoText,        \* nothing typed, or nothing searched yet
          MaxSearches,   \* bound on the searches begun
          MaxChanges     \* bound on the changes other clients make

ASSUME TextAssumption == EmptyText \in Text /\ NoText \notin Text
ASSUME RankAssumption == /\ Rank \in [Word \union Text -> Int]
                         /\ RankEnd \in [Text -> Int]
                         /\ \A t \in Text : Rank[t] <= RankEnd[t]
ASSUME ContainsAssumption == Contains \subseteq Text \X Word
ASSUME SearchBoundAssumption == MaxSearches \in Nat /\ MaxChanges \in Nat

VARIABLES
    box,       \* the cubit on the screen
    searches,  \* the searches under way
    offered,   \* the postings on the server, {} for none
    stored,    \* their Realm copies
    begun,     \* searches begun
    changes    \* changes made by other clients

searchVars == <<box, searches, offered, stored, begun, changes>>

\* A cubit's state.  result.text, overlapped and failed are history: what the
\* list answers, whether a search began while another one ran, and whether
\* the last place search failed.
NoBox == [open |-> FALSE, kind |-> "explore", typed |-> NoText, pending |-> NoText,
          last |-> NoText, loading |-> FALSE, error |-> FALSE,
          result |-> [text |-> NoText, found |-> {}, by |-> 0],
          overlapped |-> FALSE, failed |-> FALSE]

Attached == {s \in searches : s.attached}
-----------------------------------------------------------------------------
(* getPostingsForExplore.                                                  *)

\* Mutant of ServerFinds: the two bounds are joined with AND.
ServerFindsPrefix(t, words) ==
    words # {} /\ (t # EmptyText =>
        \E w \in words : Rank[w] >= Rank[t] /\ Rank[w] <= RankEnd[t])

\* The Firestore filter: one bound or the other, of any of the three fields.
ServerFinds(t, words) ==
    words # {} /\ (t # EmptyText =>
        \E w \in words : Rank[w] >= Rank[t] \/ Rank[w] <= RankEnd[t])

\* The Realm query: orContains, or everything.
RealmFinds(t, words) ==
    words # {} /\ (t # EmptyText => \E w \in words : <<t, w>> \in Contains)
-----------------------------------------------------------------------------
\* The screen is opened.  Explore begins with the empty text.
OpenSearch(kind) ==
    /\ ~box.open
    /\ box' = [NoBox EXCEPT !.open = TRUE, !.kind = kind,
                            !.typed = IF kind = "explore" THEN EmptyText ELSE NoText,
                            !.pending = IF kind = "explore" THEN EmptyText ELSE NoText]
    /\ UNCHANGED <<searches, offered, stored, begun, changes>>

\* Mutant of CloseSearch: a search under way is not cut off.
CloseSearchStillAttached ==
    /\ box.open
    /\ box' = NoBox
    /\ UNCHANGED <<searches, offered, stored, begun, changes>>

\* close: the subscription is cancelled, and a search under way can emit
\* nothing more.
CloseSearch ==
    /\ box.open
    /\ box' = NoBox
    /\ searches' = {[s EXCEPT !.attached = FALSE] : s \in searches}
    /\ UNCHANGED <<offered, stored, begun, changes>>

\* Mutant of SetSearchTxt: throttled, the first text of a burst is kept.
SetSearchTxtThrottled(t) ==
    /\ box.open /\ t # box.typed
    /\ box' = [box EXCEPT !.typed = t,
                          !.pending = IF @ = NoText THEN t ELSE @]
    /\ UNCHANGED <<searches, offered, stored, begun, changes>>

\* setSearchTxt: the debounce starts over with the new text.
SetSearchTxt(t) ==
    /\ box.open /\ t # box.typed
    /\ box' = [box EXCEPT !.typed = t, !.pending = t]
    /\ UNCHANGED <<searches, offered, stored, begun, changes>>

\* A search for t begins; an Explore search shows the progress indicator.
Begin(t) ==
    /\ begun < MaxSearches /\ begun' = begun + 1
    /\ searches' = searches \union
          {[kind |-> box.kind, n |-> begun', text |-> t, at |-> "asked", attached |-> TRUE,
            stable |-> Offer]}
    /\ box' = [box EXCEPT !.pending = NoText, !.last = t,
                          !.loading = box.kind = "explore",
                          !.error = FALSE, !.failed = FALSE,
                          !.overlapped = @ \/ Attached # {}]

\* 500 ms pass: distinct drops a text equal to the last one, _searchPlace
\* answers the empty text at once, and any other text is searched.
Debounced ==
    /\ box.pending # NoText
    /\ \/ /\ box.pending = box.last
          /\ box' = [box EXCEPT !.pending = NoText]
          /\ UNCHANGED <<searches, begun>>
       \/ /\ box.pending # box.last
          /\ box.kind = "place" /\ box.pending = EmptyText
          /\ box' = [box EXCEPT !.pending = NoText, !.last = EmptyText,
                                !.failed = FALSE, !.overlapped = @ \/ Attached # {},
                                !.result = [NoBox.result EXCEPT !.text = EmptyText]]
          /\ UNCHANGED <<searches, begun>>
       \/ /\ box.pending # box.last
          /\ box.kind = "place" => box.pending # EmptyText
          /\ Begin(box.pending)
    /\ UNCHANGED <<offered, stored, changes>>

\* getCollection returns: what the server finds is stored in Realm.
ServerAnswers(s) ==
    /\ s \in searches /\ s.at = "asked" /\ s.kind = "explore"
    /\ searches' = (searches \ {s}) \union {[s EXCEPT !.at = "stored"]}
    /\ stored' = [p \in Offer |-> IF ServerFinds(s.text, offered[p])
                                  THEN offered[p] ELSE stored[p]]
    /\ UNCHANGED <<box, offered, begun, changes>>

Ends(s) == /\ searches' = searches \ {s}
           /\ UNCHANGED <<offered, stored, begun, changes>>

\* getEntities returns and the postings are shown.
PostingsShown(s) ==
    /\ s \in searches /\ s.at = "stored"
    /\ box' = IF ~s.attached THEN box
              ELSE [box EXCEPT !.loading = FALSE, !.error = FALSE,
                       !.result = [text |-> s.text, by |-> s.n, found |->
                          {p \in Offer : RealmFinds(s.text, stored[p])}]]
    /\ Ends(s)

\* getPlaces returns.
PlacesShown(s) ==
    /\ s \in searches /\ s.at = "asked" /\ s.kind = "place"
    /\ box' = IF ~s.attached THEN box
              ELSE [box EXCEPT !.result = [text |-> s.text, by |-> s.n, found |-> {}]]
    /\ Ends(s)

\* The request throws.  Explore shows an empty list and the error; nothing
\* catches a failed place search, whose screen keeps the places it had.
SearchFails(s) ==
    /\ s \in searches
    /\ box' = IF ~s.attached THEN box
              ELSE IF box.kind = "explore"
              THEN [box EXCEPT !.loading = FALSE, !.error = TRUE,
                       !.result = [text |-> s.text, found |-> {}, by |-> s.n]]
              ELSE [box EXCEPT !.failed = TRUE]
    /\ Ends(s)

\* Another client changes or deletes a posting.
OfferChanges(p, words) ==
    /\ changes < MaxChanges /\ changes' = changes + 1
    /\ box.open /\ offered[p] # words
    /\ offered' = [offered EXCEPT ![p] = words]
    /\ searches' = {[s EXCEPT !.stable = @ \ {p}] : s \in searches}
    /\ UNCHANGED <<box, stored, begun>>
-----------------------------------------------------------------------------
SearchInit == /\ box = NoBox
              /\ searches = {}
              /\ offered \in [Offer -> {{}} \union {{w} : w \in Word}]
              /\ stored \in [Offer -> {{}} \union {{w} : w \in Word}]
              /\ begun = 0
              /\ changes = 0

SearchStep(s) == ServerAnswers(s) \/ PostingsShown(s) \/ PlacesShown(s) \/ SearchFails(s)

SearchRuns(i) == \E s \in searches : s.n = i /\ SearchStep(s)

SearchNext ==
    \/ \E kind \in {"explore", "place"} : OpenSearch(kind)
    \/ CloseSearch \/ Debounced
    \/ \E i \in 1..MaxSearches : SearchRuns(i)
    \/ \E t \in Text : SetSearchTxt(t)
    \/ \E p \in Offer, words \in {{}} \union {{w} : w \in Word} : OfferChanges(p, words)
-----------------------------------------------------------------------------
(* Properties.                                                             *)

\* Types; a closed screen has nothing to search, and an open one is attached
\* only to searches of its own kind.
SearchTypeOK ==
    /\ {box.open, box.loading, box.error} \subseteq BOOLEAN
    /\ {box.typed, box.pending, box.last, box.result.text} \subseteq Text \union {NoText}
    /\ box.result.found \subseteq Offer
    /\ ~box.open => box = NoBox
    /\ \A s \in searches : /\ s.n \in 1..begun /\ s.text \in Text
                           /\ s.attached => box.open /\ s.kind = box.kind
    /\ begun \in 0..MaxSearches /\ changes \in 0..MaxChanges

\* Once the typing is over and the searches are answered, the list answers the
\* text in the box: neither the debounce nor distinct loses a text.  Excepted
\* are a screen whose searches ran at the same time (their answers may have
\* overtaken each other) and a place search that failed.
LatestShown ==
    box.open /\ box.pending = NoText /\ Attached = {}
        /\ ~box.overlapped /\ ~box.failed
      => box.result.text = box.typed

\* The list shown for a text misses no posting that contains it, if the posting
\* was on the server, unchanged, since the search began: whatever Realm's query
\* would find, the filter sent to Firestore fetches.
SearchComplete ==
    [][\A s \in searches :
          s.kind = "explore" /\ box'.result.by = s.n /\ box.result.by # s.n /\ ~box'.error
          => {p \in s.stable : RealmFinds(s.text, offered[p])} \subseteq box'.result.found
      ]_searchVars
=============================================================================
