---------------------------- MODULE SearchProofs ----------------------------
(***************************************************************************)
(* Proofs about the search boxes, for any postings, words and texts, any   *)
(* order of them and any number of searches.  The theorems are stated in   *)
(* ScreensProofs, of the specification that opens and closes the screens;  *)
(* here are the invariant of the searches and its lemmas.                  *)
(*                                                                         *)
(* While searches do not overlap, the one attached search is about the     *)
(* text searched last, which is the text in the box unless the debounce    *)
(* still holds a newer one.                                                *)
(***************************************************************************)
EXTENDS Search, TLAPS

MaybeText == Text \union {NoText}
ResultType == [text : MaybeText, found : SUBSET Offer, by : Nat]
BoxType == [open : BOOLEAN, kind : {"explore", "place"}, typed : MaybeText,
            pending : MaybeText, last : MaybeText, loading : BOOLEAN, error : BOOLEAN,
            result : ResultType, overlapped : BOOLEAN, failed : BOOLEAN]
SearchType == [kind : {"explore", "place"}, n : Nat, text : Text,
               at : {"asked", "stored"}, attached : BOOLEAN, stable : SUBSET Offer]

SearchTyped ==
    /\ box \in BoxType
    /\ searches \subseteq SearchType
    /\ offered \in [Offer -> SUBSET Word] /\ stored \in [Offer -> SUBSET Word]
    /\ begun \in 0..MaxSearches /\ changes \in 0..MaxChanges

\* Searches are numbered, and attached to the box that began them.
SearchesNumbered ==
    /\ \A s \in searches : s.n \in 1..begun
    /\ \A s, t \in searches : s.n = t.n => s = t
    /\ \A s \in searches : s.attached => box.open /\ s.kind = box.kind
    /\ ~box.open => box = NoBox

\* The debounce holds the text in the box, or it is the last one searched.
DebounceKeeps ==
    IF box.pending = NoText THEN box.last = box.typed ELSE box.pending = box.typed

\* While no searches overlapped, the one attached, if any, is about the last text,
\* and if there is none its result is shown or it failed.
LastAnswered ==
    ~box.overlapped =>
        /\ \A s \in Attached : s.text = box.last
        /\ \A s, t \in Attached : s = t
        /\ Attached = {} /\ ~box.failed => box.result.text = box.last

\* What was on the server when it answered, and has not changed since, is in Realm.
AnswersStored ==
    \A s \in searches : s.at = "stored" =>
        \A p \in s.stable : offered[p] # {} => stored[p] = offered[p]

\* The invariant of the searches.
SearchInv == /\ SearchTyped /\ SearchesNumbered /\ DebounceKeeps
             /\ LastAnswered /\ AnswersStored
-----------------------------------------------------------------------------
\* A closed box is one.
LEMMA NoBoxType == NoBox \in BoxType
BY DEF NoBox, BoxType, ResultType, MaybeText

\* No box is open and nothing is searched.
LEMMA SearchInitInv == SearchInit => SearchInv
<1> SUFFICES ASSUME SearchInit PROVE SearchInv
  OBVIOUS
<1>1. SearchTyped
  <2>1. {{}} \union {{w} : w \in Word} \subseteq SUBSET Word
    OBVIOUS
  <2>2. offered \in [Offer -> SUBSET Word] /\ stored \in [Offer -> SUBSET Word]
    BY <2>1 DEF SearchInit
  <2> QED
    BY <2>2, NoBoxType, SearchBoundAssumption DEF SearchInit, SearchTyped
<1>2. box = NoBox /\ searches = {}
  BY DEF SearchInit
<1>3. SearchesNumbered /\ DebounceKeeps /\ LastAnswered /\ AnswersStored
  BY <1>2 DEF SearchesNumbered, DebounceKeeps, LastAnswered, AnswersStored, Attached, NoBox
<1> QED
  BY <1>1, <1>3 DEF SearchInv

\* A closed screen has no search attached, so a new one starts clean.
LEMMA OpenSearchInv ==
    ASSUME SearchInv, NEW kind \in {"explore", "place"}, OpenSearch(kind)
    PROVE  SearchInv'
<1>1. /\ ~box.open /\ UNCHANGED <<searches, offered, stored, begun, changes>>
      /\ box' = [NoBox EXCEPT !.open = TRUE, !.kind = kind,
                    !.typed = IF kind = "explore" THEN EmptyText ELSE NoText,
                    !.pending = IF kind = "explore" THEN EmptyText ELSE NoText]
  BY DEF OpenSearch
<1>2. /\ box' \in BoxType /\ box'.open /\ box'.pending = box'.typed
      /\ box'.last = NoText /\ box'.result.text = NoText
  BY <1>1, TextAssumption DEF NoBox, BoxType, ResultType, MaybeText
<1>3. Attached = {} /\ Attached' = {}
  BY <1>1 DEF SearchInv, SearchesNumbered, Attached
<1>4. SearchTyped'
  BY <1>1, <1>2 DEF SearchInv, SearchTyped
<1>5. SearchesNumbered'
  BY <1>1, <1>2 DEF SearchInv, SearchesNumbered
<1>6. DebounceKeeps' /\ LastAnswered'
  BY <1>2, <1>3 DEF DebounceKeeps, LastAnswered
<1>7. AnswersStored'
  BY <1>1 DEF SearchInv, AnswersStored
<1> QED
  BY <1>4, <1>5, <1>6, <1>7 DEF SearchInv

\* close cuts the searches off.
LEMMA CloseSearchInv ==
    ASSUME SearchInv, CloseSearch
    PROVE  SearchInv'
<1> DEFINE f(s) == [s EXCEPT !.attached = FALSE]
<1>1. /\ box' = NoBox /\ UNCHANGED <<offered, stored, begun, changes>>
      /\ searches' = {f(s) : s \in searches}
  BY DEF CloseSearch
<1>2. \A s \in searches : s \in SearchType
  BY DEF SearchInv, SearchTyped
<1>3. \A s \in searches :
         /\ f(s) \in SearchType /\ f(s).n = s.n /\ f(s).kind = s.kind /\ f(s).text = s.text
         /\ f(s).at = s.at /\ f(s).attached = FALSE /\ f(s).stable = s.stable
  BY <1>2 DEF SearchType
<1> HIDE DEF f
<1>4. /\ searches' \subseteq SearchType
      /\ \A t \in searches' : \E s \in searches : t = f(s)
      /\ \A s, t \in searches' : s.n = t.n => s = t
  BY <1>1, <1>3 DEF SearchInv, SearchesNumbered
<1>5. SearchTyped'
  BY <1>1, <1>4, NoBoxType DEF SearchInv, SearchTyped
<1>6. SearchesNumbered'
  BY <1>1, <1>3, <1>4 DEF SearchInv, SearchesNumbered
<1>7. Attached' = {}
  BY <1>3, <1>4 DEF Attached
<1>8. DebounceKeeps' /\ LastAnswered'
  BY <1>1, <1>7 DEF DebounceKeeps, LastAnswered, NoBox
<1>9. AnswersStored'
  BY <1>1, <1>3, <1>4 DEF SearchInv, AnswersStored
<1> QED
  BY <1>5, <1>6, <1>8, <1>9 DEF SearchInv

\* Typing starts the debounce over with what the box shows.
LEMMA SetSearchTxtInv ==
    ASSUME SearchInv, NEW t \in Text, SetSearchTxt(t)
    PROVE  SearchInv'
<1>1. /\ box \in BoxType /\ box.open /\ box' = [box EXCEPT !.typed = t, !.pending = t]
      /\ UNCHANGED <<searches, offered, stored, begun, changes>>
  BY DEF SearchInv, SearchTyped, SetSearchTxt
<1>2. /\ box' \in BoxType /\ box'.open /\ box'.kind = box.kind
      /\ box'.typed = t /\ box'.pending = t /\ box'.last = box.last
      /\ box'.result = box.result /\ box'.overlapped = box.overlapped
      /\ box'.failed = box.failed
  BY <1>1 DEF BoxType, MaybeText
<1>3. SearchTyped' /\ SearchesNumbered' /\ AnswersStored'
  BY <1>1, <1>2 DEF SearchInv, SearchTyped, SearchesNumbered, AnswersStored
<1>4. DebounceKeeps' /\ LastAnswered'
  BY <1>1, <1>2, TextAssumption DEF SearchInv, DebounceKeeps, LastAnswered, Attached
<1> QED
  BY <1>3, <1>4 DEF SearchInv

\* The debounce lets a text through: dropped, answered at once, or searched.
LEMMA DebouncedInv ==
    ASSUME SearchInv, Debounced
    PROVE  SearchInv'
<1>1. /\ box \in BoxType /\ box.open /\ box.pending \in Text /\ box.pending = box.typed
      /\ UNCHANGED <<offered, stored, changes>>
  BY DEF SearchInv, SearchTyped, Debounced, BoxType, MaybeText, SearchesNumbered,
         DebounceKeeps, NoBox
<1>2. CASE /\ box.pending = box.last
           /\ box' = [box EXCEPT !.pending = NoText] /\ UNCHANGED <<searches, begun>>
  <2>1. /\ box' \in BoxType /\ box'.open /\ box'.kind = box.kind
        /\ box'.typed = box.typed /\ box'.pending = NoText /\ box'.last = box.last
        /\ box'.result = box.result /\ box'.overlapped = box.overlapped
        /\ box'.failed = box.failed
    BY <1>1, <1>2 DEF BoxType, MaybeText
  <2>2. SearchTyped' /\ SearchesNumbered' /\ AnswersStored'
    BY <1>1, <1>2, <2>1 DEF SearchInv, SearchTyped, SearchesNumbered, AnswersStored
  <2>3. DebounceKeeps' /\ LastAnswered'
    BY <1>1, <1>2, <2>1 DEF SearchInv, DebounceKeeps, LastAnswered, Attached
  <2> QED
    BY <2>2, <2>3 DEF SearchInv
<1>3. CASE /\ box.kind = "place" /\ box.pending = EmptyText
           /\ box' = [box EXCEPT !.pending = NoText, !.last = EmptyText,
                         !.failed = FALSE, !.overlapped = @ \/ Attached # {},
                         !.result = [NoBox.result EXCEPT !.text = EmptyText]]
           /\ UNCHANGED <<searches, begun>>
  <2> DEFINE r == [NoBox.result EXCEPT !.text = EmptyText]
  <2>1. r \in ResultType /\ r.text = EmptyText
    BY TextAssumption DEF NoBox, ResultType, MaybeText
  <2> HIDE DEF r
  <2>2. /\ box' \in BoxType /\ box'.open /\ box'.kind = box.kind
        /\ box'.typed = box.typed /\ box'.pending = NoText /\ box'.last = EmptyText
        /\ box'.result = r /\ box'.overlapped = (box.overlapped \/ Attached # {})
    <3>1. box' = [box EXCEPT !.pending = NoText, !.last = EmptyText,
                     !.failed = FALSE, !.overlapped = (box.overlapped \/ Attached # {}),
                     !.result = r]
      BY <1>3 DEF r
    <3>2. (box.overlapped \/ Attached # {}) \in BOOLEAN
      BY <1>1 DEF BoxType
    <3> QED
      BY <1>1, <2>1, <3>1, <3>2, TextAssumption DEF BoxType, MaybeText
  <2>3. SearchTyped' /\ SearchesNumbered' /\ AnswersStored'
    BY <1>1, <1>3, <2>2 DEF SearchInv, SearchTyped, SearchesNumbered, AnswersStored
  <2>4. DebounceKeeps' /\ LastAnswered'
    BY <1>1, <1>3, <2>1, <2>2 DEF DebounceKeeps, LastAnswered, Attached
  <2> QED
    BY <2>3, <2>4 DEF SearchInv
<1>4. CASE Begin(box.pending)
  <2> DEFINE t == box.pending
             s == [kind |-> box.kind, n |-> begun + 1, text |-> t, at |-> "asked",
                   attached |-> TRUE, stable |-> Offer]
  <2>1. /\ begun < MaxSearches /\ begun' = begun + 1 /\ begun \in Nat
        /\ searches' = searches \union {s}
        /\ box' = [box EXCEPT !.pending = NoText, !.last = t,
                          !.loading = box.kind = "explore",
                          !.error = FALSE, !.failed = FALSE,
                          !.overlapped = @ \/ Attached # {}]
    BY <1>4 DEF Begin, SearchInv, SearchTyped
  <2>2. s \in SearchType
    BY <1>1, <2>1 DEF SearchType, BoxType
  <2>3. /\ s.kind = box.kind /\ s.n = begun + 1 /\ s.text = t /\ s.at = "asked" /\ s.attached
    OBVIOUS
  <2>4. /\ box' \in BoxType /\ box'.open /\ box'.kind = box.kind
        /\ box'.typed = box.typed /\ box'.pending = NoText /\ box'.last = t
        /\ box'.result = box.result /\ box'.overlapped = (box.overlapped \/ Attached # {})
    <3> DEFINE o == box.overlapped \/ Attached # {}
               l == box.kind = "explore"
    <3>1. o \in BOOLEAN /\ l \in BOOLEAN /\ t \in MaybeText /\ NoText \in MaybeText
      BY <1>1 DEF BoxType, MaybeText
    <3>2. box' = [box EXCEPT !.pending = NoText, !.last = t, !.loading = l,
                         !.error = FALSE, !.failed = FALSE, !.overlapped = o]
      BY <2>1
    <3> HIDE DEF o, l, t
    <3>3. /\ box' \in BoxType /\ box'.open = box.open /\ box'.kind = box.kind
          /\ box'.typed = box.typed /\ box'.pending = NoText /\ box'.last = t
          /\ box'.result = box.result /\ box'.overlapped = o
      BY <1>1, <3>1, <3>2 DEF BoxType
    <3> QED
      BY <1>1, <3>3 DEF o, t
  <2> HIDE DEF s
  <2>5. begun' \in 0..MaxSearches
    BY <2>1, SearchBoundAssumption
  <2>6. SearchTyped'
    BY <1>1, <2>1, <2>2, <2>4, <2>5 DEF SearchInv, SearchTyped
  <2>7. SearchesNumbered'
    BY <1>1, <2>1, <2>3, <2>4 DEF SearchInv, SearchesNumbered
  <2>8. Attached' = Attached \union {s}
    BY <2>1, <2>3 DEF Attached
  <2>9. DebounceKeeps' /\ LastAnswered'
    BY <1>1, <2>3, <2>4, <2>8 DEF DebounceKeeps, LastAnswered
  <2>10. AnswersStored'
    BY <1>1, <2>1, <2>3 DEF SearchInv, AnswersStored
  <2> QED
    BY <2>6, <2>7, <2>9, <2>10 DEF SearchInv
<1> QED
  BY <1>2, <1>3, <1>4 DEF Debounced

\* The two bounds of the Firestore filter are joined with OR, so it lets every
\* posting with a word through, in whatever order the words are.
LEMMA FilterFindsAll ==
    ASSUME NEW t \in Text, NEW words \in SUBSET Word, words # {}
    PROVE  ServerFinds(t, words)
BY RankAssumption DEF ServerFinds

\* The server answers: all it has is stored.
LEMMA ServerAnswersInv ==
    ASSUME SearchInv, NEW s \in searches, ServerAnswers(s)
    PROVE  SearchInv'
<1> DEFINE t == [s EXCEPT !.at = "stored"]
<1>1. /\ searches' = (searches \ {s}) \union {t}
      /\ stored' = [p \in Offer |-> IF ServerFinds(s.text, offered[p])
                                    THEN offered[p] ELSE stored[p]]
      /\ UNCHANGED <<box, offered, begun, changes>>
  BY DEF ServerAnswers
<1>2. s \in SearchType
  BY DEF SearchInv, SearchTyped
<1>3. /\ t \in SearchType /\ t.n = s.n /\ t.kind = s.kind /\ t.text = s.text
      /\ t.attached = s.attached /\ t.stable = s.stable
  BY <1>2 DEF SearchType
<1> HIDE DEF t
<1>4. SearchTyped'
  BY <1>1, <1>3 DEF SearchInv, SearchTyped
<1>5. SearchesNumbered'
  BY <1>1, <1>3 DEF SearchInv, SearchesNumbered
<1>6. LastAnswered'
  <2>1. Attached' = IF s \in Attached THEN (Attached \ {s}) \union {t} ELSE Attached
    BY <1>1, <1>3 DEF Attached, SearchInv, SearchesNumbered
  <2> QED
    BY <1>1, <1>3, <2>1 DEF SearchInv, LastAnswered
<1>7. \A p \in Offer : offered[p] # {} => stored'[p] = offered[p]
  BY <1>1, <1>2, FilterFindsAll DEF SearchInv, SearchTyped, SearchType
<1>8. AnswersStored'
  BY <1>1, <1>4, <1>7 DEF AnswersStored, SearchTyped, SearchType
<1> QED
  BY <1>1, <1>4, <1>5, <1>6, <1>8 DEF SearchInv, DebounceKeeps

\* A search ends: shown or failed if attached, and without a trace if not.
LEMMA SearchEndsInv ==
    ASSUME SearchInv, NEW s \in searches, Ends(s), box' \in BoxType,
           ~s.attached => box' = box,
           box'.open = box.open, box'.kind = box.kind, box'.typed = box.typed,
           box'.pending = box.pending, box'.last = box.last,
           box'.overlapped = box.overlapped,
           s.attached => box'.failed \/ box'.result.text = s.text
    PROVE  SearchInv'
<1>1. searches' = searches \ {s} /\ UNCHANGED <<offered, stored, begun, changes>>
  BY DEF Ends
<1>2. SearchTyped'
  BY <1>1 DEF SearchInv, SearchTyped
<1>3. SearchesNumbered'
  BY <1>1 DEF SearchInv, SearchesNumbered
<1>4. LastAnswered'
  <2>1. Attached' = Attached \ {s} /\ (s \in Attached <=> s.attached)
    BY <1>1 DEF Attached
  <2>2. CASE s.attached
    BY <2>1, <2>2 DEF SearchInv, LastAnswered
  <2>3. CASE ~s.attached
    BY <2>1, <2>3 DEF SearchInv, LastAnswered
  <2> QED
    BY <2>2, <2>3
<1>5. DebounceKeeps' /\ AnswersStored'
  BY <1>1 DEF SearchInv, DebounceKeeps, AnswersStored
<1> QED
  BY <1>2, <1>3, <1>4, <1>5 DEF SearchInv

\* Whatever ends a search.
LEMMA AnswersInv ==
    ASSUME SearchInv, NEW s \in searches,
           PostingsShown(s) \/ PlacesShown(s) \/ SearchFails(s)
    PROVE  SearchInv'
<1>1. box \in BoxType /\ s \in SearchType /\ Ends(s)
  BY DEF SearchInv, SearchTyped, PostingsShown, PlacesShown, SearchFails
<1>2. ASSUME NEW r, r \in ResultType, r.text = s.text, NEW loading \in BOOLEAN, NEW error \in BOOLEAN,
             box' = [box EXCEPT !.loading = loading, !.error = error, !.result = r]
      PROVE  SearchInv'
  <2>1. /\ box' \in BoxType /\ box'.open = box.open /\ box'.kind = box.kind
        /\ box'.typed = box.typed /\ box'.pending = box.pending /\ box'.last = box.last
        /\ box'.overlapped = box.overlapped /\ box'.result = r
    BY <1>1, <1>2 DEF BoxType
  <2>2. s.attached \/ ~s.attached
    OBVIOUS
  <2>3. CASE s.attached
    BY <1>1, <1>2, <2>1, <2>3, SearchEndsInv
  <2>4. CASE ~s.attached
    <3>1. box' = box
      BY <2>4 DEF PostingsShown, PlacesShown, SearchFails
    <3> QED
      BY <1>1, <2>4, <3>1, SearchEndsInv
  <2> QED
    BY <2>3, <2>4
<1>3. CASE ~s.attached
  <2>1. box' = box
    BY <1>3 DEF PostingsShown, PlacesShown, SearchFails
  <2> QED
    BY <1>1, <1>3, <2>1, SearchEndsInv
<1>4. CASE s.attached /\ PostingsShown(s)
  <2> DEFINE r == [text |-> s.text, by |-> s.n,
                   found |-> {p \in Offer : RealmFinds(s.text, stored[p])}]
  <2>1. r \in ResultType /\ r.text = s.text
    BY <1>1 DEF ResultType, SearchType, MaybeText
  <2>2. box' = [box EXCEPT !.loading = FALSE, !.error = FALSE, !.result = r]
    BY <1>4 DEF PostingsShown
  <2> HIDE DEF r
  <2> QED
    BY <1>2, <2>1, <2>2
<1>5. CASE s.attached /\ PlacesShown(s)
  <2> DEFINE r == [text |-> s.text, by |-> s.n, found |-> {}]
  <2>1. r \in ResultType /\ r.text = s.text
    BY <1>1 DEF ResultType, SearchType, MaybeText
  <2>2. box' = [box EXCEPT !.result = r]
    BY <1>5 DEF PlacesShown
  <2> HIDE DEF r
  <2>3. /\ box.loading \in BOOLEAN /\ box.error \in BOOLEAN
        /\ box' = [box EXCEPT !.loading = box.loading, !.error = box.error, !.result = r]
    BY <1>1, <2>2 DEF BoxType
  <2> QED
    BY <1>2, <2>1, <2>3
<1>6. CASE s.attached /\ SearchFails(s) /\ box.kind = "explore"
  <2> DEFINE r == [text |-> s.text, found |-> {}, by |-> s.n]
  <2>1. r \in ResultType /\ r.text = s.text
    BY <1>1 DEF ResultType, SearchType, MaybeText
  <2>2. box' = [box EXCEPT !.loading = FALSE, !.error = TRUE, !.result = r]
    BY <1>6 DEF SearchFails
  <2> HIDE DEF r
  <2> QED
    BY <1>2, <2>1, <2>2
<1>7. CASE s.attached /\ SearchFails(s) /\ box.kind # "explore"
  <2>1. box' = [box EXCEPT !.failed = TRUE]
    BY <1>7 DEF SearchFails
  <2>2. /\ box' \in BoxType /\ box'.open = box.open /\ box'.kind = box.kind
        /\ box'.typed = box.typed /\ box'.pending = box.pending /\ box'.last = box.last
        /\ box'.overlapped = box.overlapped /\ box'.failed
    BY <1>1, <2>1 DEF BoxType
  <2> QED
    BY <1>1, <1>7, <2>2, SearchEndsInv
<1> QED
  BY <1>3, <1>4, <1>5, <1>6, <1>7

\* A change of the server takes the posting out of what searches must find.
LEMMA OfferChangesInv ==
    ASSUME SearchInv, NEW p \in Offer, NEW words \in SUBSET Word, OfferChanges(p, words)
    PROVE  SearchInv'
<1> DEFINE f(s) == [s EXCEPT !.stable = @ \ {p}]
<1>1. /\ changes < MaxChanges /\ changes' = changes + 1
      /\ offered' = [offered EXCEPT ![p] = words] /\ UNCHANGED <<box, stored, begun>>
      /\ searches' = {f(s) : s \in searches}
  BY DEF OfferChanges
<1>2. \A s \in searches : s \in SearchType
  BY DEF SearchInv, SearchTyped
<1>3. \A s \in searches :
         /\ f(s) \in SearchType /\ f(s).n = s.n /\ f(s).kind = s.kind /\ f(s).text = s.text
         /\ f(s).at = s.at /\ f(s).attached = s.attached /\ f(s).stable = s.stable \ {p}
  BY <1>2 DEF SearchType
<1> HIDE DEF f
<1>4. /\ searches' \subseteq SearchType
      /\ \A t \in searches' : \E s \in searches : t = f(s)
      /\ \A s, t \in searches' : s.n = t.n => s = t
  BY <1>1, <1>3 DEF SearchInv, SearchesNumbered
<1>5. /\ offered' \in [Offer -> SUBSET Word]
      /\ \A q \in Offer : q # p => offered'[q] = offered[q]
      /\ changes' \in 0..MaxChanges
  BY <1>1, SearchBoundAssumption DEF SearchInv, SearchTyped
<1>6. SearchTyped'
  BY <1>1, <1>4, <1>5 DEF SearchInv, SearchTyped
<1>7. SearchesNumbered'
  BY <1>1, <1>3, <1>4 DEF SearchInv, SearchesNumbered
<1>8. LastAnswered'
  <2>1. \A t \in Attached' : \E s \in Attached : t = f(s) /\ t.text = s.text
    BY <1>3, <1>4 DEF Attached
  <2>2. Attached # {} => Attached' # {}
    BY <1>1, <1>3 DEF Attached
  <2> QED
    BY <1>1, <2>1, <2>2 DEF SearchInv, LastAnswered
<1>9. AnswersStored'
  BY <1>1, <1>2, <1>3, <1>4, <1>5 DEF SearchInv, AnswersStored, SearchType
<1> QED
  BY <1>1, <1>6, <1>7, <1>8, <1>9 DEF SearchInv, DebounceKeeps

\* Every step of the search boxes, their requests and other clients keeps it.
LEMMA SearchNextInv ==
    ASSUME SearchInv, SearchNext
    PROVE  SearchInv'
<1>1. ASSUME NEW i \in 1..MaxSearches, SearchRuns(i) PROVE SearchInv'
  BY <1>1, ServerAnswersInv, AnswersInv DEF SearchRuns, SearchStep
<1>2. ASSUME NEW p \in Offer, NEW words \in {{}} \union {{w} : w \in Word},
             OfferChanges(p, words)
      PROVE  SearchInv'
  <2>1. words \in SUBSET Word
    OBVIOUS
  <2> QED
    BY <1>2, <2>1, OfferChangesInv
<1> QED
  BY <1>1, <1>2, OpenSearchInv, CloseSearchInv, DebouncedInv, SetSearchTxtInv DEF SearchNext

\* Steps of other screens.
LEMMA SearchFrame ==
    ASSUME SearchInv, UNCHANGED searchVars
    PROVE  SearchInv'
BY DEF searchVars, SearchInv, SearchTyped, SearchesNumbered, DebounceKeeps,
       LastAnswered, AnswersStored, Attached

\* What the invariant says of the types and of the list shown.
LEMMA SearchInvImplies ==
    ASSUME SearchInv
    PROVE  SearchTypeOK /\ LatestShown
<1>1. SearchTypeOK
  BY DEF SearchInv, SearchTyped, SearchesNumbered, SearchTypeOK, BoxType, ResultType,
         MaybeText, SearchType
<1>2. LatestShown
  BY DEF SearchInv, DebounceKeeps, LastAnswered, LatestShown
<1> QED
  BY <1>1, <1>2

\* A list that is new is that of a search that ends, and holds all that Realm
\* finds; what the server had all along is among it.
LEMMA CompleteStep ==
    ASSUME SearchInv, SearchNext, NEW s \in searches, s.kind = "explore",
           box'.result.by = s.n, box.result.by # s.n, ~box'.error
    PROVE  {p \in s.stable : RealmFinds(s.text, offered[p])} \subseteq box'.result.found
<1>1. box \in BoxType /\ s \in SearchType /\ s.n >= 1 /\ s.n \in Nat
  BY DEF SearchInv, SearchTyped, SearchesNumbered, SearchType
<1>2. box'.result # box.result
  OBVIOUS
<1>3. /\ \A kind \in {"explore", "place"} : ~OpenSearch(kind)
      /\ ~CloseSearch
  <2>1. NoBox \in BoxType /\ NoBox.result.by = 0
    BY NoBoxType DEF NoBox
  <2>2. \A kind \in {"explore", "place"} : OpenSearch(kind) => box'.result = NoBox.result
    BY <2>1 DEF OpenSearch, BoxType
  <2> QED
    BY <1>1, <2>1, <2>2 DEF CloseSearch
<1>4. /\ \A t \in Text : ~SetSearchTxt(t)
      /\ \A p \in Offer, words \in {{}} \union {{w} : w \in Word} : ~OfferChanges(p, words)
  BY <1>1, <1>2 DEF SetSearchTxt, OfferChanges, BoxType
<1>5. ~Debounced
  <2>1. ~Begin(box.pending) /\ box' # [box EXCEPT !.pending = NoText]
    BY <1>1, <1>2 DEF Begin, BoxType
  <2>2. box' # [box EXCEPT !.pending = NoText, !.last = EmptyText,
                           !.failed = FALSE, !.overlapped = @ \/ Attached # {},
                           !.result = [NoBox.result EXCEPT !.text = EmptyText]]
    <3> DEFINE r == [NoBox.result EXCEPT !.text = EmptyText]
    <3>1. r.by = 0
      BY DEF NoBox
    <3> HIDE DEF r
    <3>2. \A o : box' # [box EXCEPT !.pending = NoText, !.last = EmptyText,
                                    !.failed = FALSE, !.overlapped = o, !.result = r]
      <4> SUFFICES ASSUME NEW o, box' = [box EXCEPT !.pending = NoText, !.last = EmptyText,
                                            !.failed = FALSE, !.overlapped = o, !.result = r]
                   PROVE  FALSE
        OBVIOUS
      <4>1. box'.result = r
        BY <1>1 DEF BoxType
      <4> QED
        BY <1>1, <3>1, <4>1
    <3> QED
      BY <3>2 DEF r
  <2> QED
    BY <2>1, <2>2 DEF Debounced
<1>6. PICK t \in searches : SearchStep(t)
  BY <1>3, <1>4, <1>5 DEF SearchNext, SearchRuns
<1>7. ~ServerAnswers(t)
  BY <1>2 DEF ServerAnswers
<1>8. t.attached
  BY <1>2, <1>6, <1>7 DEF SearchStep, PostingsShown, PlacesShown, SearchFails
<1>9. ~SearchFails(t)
  <2>1. box' # [box EXCEPT !.failed = TRUE]
    BY <1>1, <1>2 DEF BoxType
  <2>2. box' # [box EXCEPT !.loading = FALSE, !.error = TRUE,
                           !.result = [text |-> t.text, found |-> {}, by |-> t.n]]
    BY <1>1 DEF BoxType
  <2> QED
    BY <1>8, <2>1, <2>2 DEF SearchFails
<1>10. PostingsShown(t) \/ PlacesShown(t)
  BY <1>6, <1>7, <1>9 DEF SearchStep
<1>11. box'.result.by = t.n
  <2>1. CASE PostingsShown(t)
    <3> DEFINE r == [text |-> t.text, by |-> t.n,
                     found |-> {p \in Offer : RealmFinds(t.text, stored[p])}]
    <3>1. box' = [box EXCEPT !.loading = FALSE, !.error = FALSE, !.result = r]
      BY <1>8, <2>1 DEF PostingsShown
    <3>2. r.by = t.n
      OBVIOUS
    <3> HIDE DEF r
    <3> QED
      BY <1>1, <3>1, <3>2 DEF BoxType
  <2>2. CASE PlacesShown(t)
    BY <1>1, <1>8, <2>2 DEF PlacesShown, BoxType
  <2> QED
    BY <1>10, <2>1, <2>2
<1>12. t = s
  BY <1>11 DEF SearchInv, SearchesNumbered
<1>13. PostingsShown(s)
  BY <1>10, <1>12 DEF PlacesShown
<1>14. box'.result.found = {p \in Offer : RealmFinds(s.text, stored[p])}
  BY <1>1, <1>8, <1>12, <1>13 DEF PostingsShown, BoxType
<1>15. s.at = "stored" /\ s.stable \subseteq Offer
  BY <1>1, <1>13 DEF PostingsShown, SearchType
<1>16. \A p \in s.stable : RealmFinds(s.text, offered[p]) => stored[p] = offered[p]
  BY <1>15 DEF SearchInv, AnswersStored, RealmFinds
<1> QED
  BY <1>14, <1>15, <1>16
=============================================================================
