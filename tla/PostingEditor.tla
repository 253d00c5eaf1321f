---------------------------- MODULE PostingEditor ----------------------------
(***************************************************************************)
(* The host's posting editor, UpdatePostingCubit and its screen: pictures  *)
(* are picked, the place is chosen on a screen pushed above, and saving    *)
(* uploads the pictures one by one, awaits the user's id and writes the    *)
(* posting to Firestore, then to Realm.  The form stays editable meanwhile, *)
(* and the screen may be left.  Below it MyPostings keeps listening, so    *)
(* snapshots of the host's postings reach Realm on their own.              *)
(*                                                                         *)
(* Of a posting the pictures and the place are kept, the latter twice: the *)
(* address and the coordinates, which the form holds apart and saving      *)
(* reads at different times.                                               *)
(* The order of the pictures and the form's validation are left out.       *)
(***************************************************************************)
EXTENDS Integers, FiniteSets, Sequences

CONSTANTS Posting,      \* documents, as numbers
          NoPosting,
          Listed,       \* the ones there at first
          Picture,      \* pictures, as numbers
          Place,
          Home,         \* the place of the stored postings and of a new form
          Plus,         \* the tile that adds a picture
          MaxEditors,   \* bound on the editors opened
          MaxPresses,   \* bound on the saves begun
          MaxDeletes    \* bound on deletions by other clients

ASSUME IdAssumption == /\ Posting \subseteq Nat /\ NoPosting \notin Posting
                       /\ Listed \subseteq Posting \intersect Picture
                       /\ Picture \subseteq Nat /\ IsFiniteSet(Picture)
ASSUME HomeAssumption == Home \in Place
ASSUME BoundAssumption == {MaxEditors, MaxPresses, MaxDeletes} \subseteq Nat

Editor == 1..MaxEditors

VARIABLES
    server, realm,  \* the postings
    snapshots,      \* postings deleted elsewhere, the event still to come
    cubit,          \* the editors' states; a save keeps a closed one alive
    visit,          \* the number of the last editor opened
    top,            \* the screen shown: "list", "editor" or "search"
    picks,          \* the tiles with a selectImage call under way
    used,           \* pictures in use
    hosted,         \* pictures the image host has
    saves,          \* createPosting calls under way
    acks,           \* committed saves whose write is not yet acknowledged
    presses, deletes,
    made, excused,  \* history, per editor: postings created; saves that did not
                    \* close the editor though they wrote the posting
    crossed,        \* history: postings written again between commit and store
    torn            \* history: address and coordinates of the saves between whose
                    \* two reads the place was changed

vars == <<server, realm, snapshots, cubit, visit, top, picks, used, hosted, saves, acks,
          presses, deletes, made, excused, crossed, torn>>

formVars == <<cubit, visit, top, picks, used>>
dataVars == <<server, realm, snapshots, hosted, deletes, crossed>>
saveVars == <<saves, acks, presses, made, excused, torn>>

NoDoc == [there |-> FALSE, pictures |-> {}, address |-> Home, coords |-> Home]
Doc(pictures, address, coords) ==
    [there |-> TRUE, pictures |-> pictures, address |-> address, coords |-> coords]

Closed == [target |-> NoPosting, tiles |-> {}, address |-> Home, coords |-> Home,
           loading |-> FALSE]

Tile(x, local) == [picture |-> x, local |-> local]
Local(tiles) == {t.picture : t \in {u \in tiles : u.local}}
Remote(tiles) == {t.picture : t \in {u \in tiles : ~u.local}}

Shows(n) == top # "list" /\ n = visit
-----------------------------------------------------------------------------
(* The form.                                                               *)

\* _setUpInitialValues, for a posting of the list or for a new one.
OpenEditor(p) ==
    /\ top = "list" /\ visit < MaxEditors
    /\ p # NoPosting => realm[p].there
    /\ visit' = visit + 1 /\ top' = "editor"
    /\ cubit' = [cubit EXCEPT ![visit'] =
           IF p = NoPosting THEN Closed
           ELSE [target |-> p, tiles |-> {Tile(x, FALSE) : x \in realm[p].pictures},
                 address |-> realm[p].address, coords |-> realm[p].coords,
                 loading |-> FALSE]]
    /\ UNCHANGED <<picks, used, dataVars, saveVars>>

\* A picture still being picked finds a closed cubit, whose emit throws.
LeaveEditor ==
    /\ top = "editor" /\ top' = "list"
    /\ picks' = {}
    /\ cubit' = [cubit EXCEPT ![visit] = IF @.loading THEN [@ EXCEPT !.tiles = {}] ELSE Closed]
    /\ UNCHANGED <<visit, used, dataVars, saveVars>>

\* selectImage on a tile; the gallery and the compression take their time.
SelectImage(onto) ==
    /\ top = "editor"
    /\ onto \in cubit[visit].tiles \union {Plus}
    /\ Cardinality(used) + Cardinality(picks) < Cardinality(Picture)
    /\ onto \notin picks
    /\ picks' = picks \union {onto}
    /\ UNCHANGED <<cubit, visit, top, used, dataVars, saveVars>>

\* The picture takes the place of the tile, or is added where the tile is the
\* plus tile or is no longer there.
ImageSelected(onto, x) ==
    /\ onto \in picks /\ picks' = picks \ {onto}
    /\ x \in Picture \ used /\ \A y \in Picture \ used : x <= y
    /\ used' = used \union {x}
    /\ cubit' = [cubit EXCEPT ![visit].tiles = (@ \ {onto}) \union {Tile(x, TRUE)}]
    /\ UNCHANGED <<visit, top, dataVars, saveVars>>

\* No picture is chosen, or picking fails.
NoImage(onto) ==
    /\ onto \in picks /\ picks' = picks \ {onto}
    /\ UNCHANGED <<cubit, visit, top, used, dataVars, saveVars>>

\* The place search is pushed over the editor.
PushSearch ==
    /\ top = "editor" /\ top' = "search"
    /\ UNCHANGED <<cubit, visit, picks, used, dataVars, saveVars>>

\* A place is chosen: updatePlace sets address and coordinates.
UpdatePlace(pl) ==
    /\ top = "search" /\ top' = "editor"
    /\ cubit' = [cubit EXCEPT ![visit].address = pl, ![visit].coords = pl]
    /\ UNCHANGED <<visit, picks, used, dataVars, saveVars>>

\* The search is left without a place.
NoPlace ==
    /\ top = "search" /\ top' = "editor"
    /\ UNCHANGED <<cubit, visit, picks, used, dataVars, saveVars>>
-----------------------------------------------------------------------------
(* createPosting.                                                          *)

\* Mutant of PressSave: the button stays while a save is under way.
PressSaveAgain ==
    /\ top = "editor"
    /\ presses < MaxPresses /\ presses' = presses + 1
    /\ LET c == cubit[visit] IN
       saves' = saves \union
          {[id |-> presses', n |-> visit, left |-> Local(c.tiles), urls |-> Remote(c.tiles),
            at |-> IF Local(c.tiles) = {} THEN "user" ELSE "upload",
            address |-> IF Local(c.tiles) = {} THEN c.address ELSE Home,
            coords |-> Home, to |-> NoPosting]}
    /\ cubit' = [cubit EXCEPT ![visit].loading = TRUE]
    /\ UNCHANGED <<visit, top, picks, used, dataVars, acks, made, excused, torn>>

\* The save button, which the progress indicator replaces.  The tiles are those
\* of now.  Without a picture to upload the address is read at once.
PressSave ==
    /\ top = "editor" /\ ~cubit[visit].loading
    /\ presses < MaxPresses /\ presses' = presses + 1
    /\ LET c == cubit[visit] IN
       saves' = saves \union
          {[id |-> presses', n |-> visit, left |-> Local(c.tiles), urls |-> Remote(c.tiles),
            at |-> IF Local(c.tiles) = {} THEN "user" ELSE "upload",
            address |-> IF Local(c.tiles) = {} THEN c.address ELSE Home,
            coords |-> Home, to |-> NoPosting]}
    /\ cubit' = [cubit EXCEPT ![visit].loading = TRUE]
    /\ UNCHANGED <<visit, top, picks, used, dataVars, acks, made, excused, torn>>

\* A save of p is committed and not yet stored.
Storing(p) == \E s \in saves : s.at = "store" /\ s.to = p

Becomes(s, t) == saves' = (saves \ {s}) \union {t}

\* Mutant of Uploaded: a refused picture is added all the same.
UploadedAnyway(s, x, urls) ==
    /\ s \in saves /\ s.at = "upload" /\ x \in s.left
    /\ LET rest == s.left \ {x} IN
       Becomes(s, [s EXCEPT !.left = rest, !.urls = @ \union {x},
                            !.at = IF rest = {} THEN "user" ELSE "upload",
                            !.address = IF rest = {} THEN cubit[s.n].address ELSE Home])
    /\ hosted' = hosted \union urls
    /\ UNCHANGED <<formVars, server, realm, snapshots, deletes, crossed,
                   acks, presses, made, excused, torn>>

\* uploadImage returns: the url of x, or null (no urls) if the host refused it,
\* and then the picture is left out.  After the last one the address is read.
Uploaded(s, x, urls) ==
    /\ s \in saves /\ s.at = "upload" /\ x \in s.left
    /\ LET rest == s.left \ {x} IN
       Becomes(s, [s EXCEPT !.left = rest, !.urls = @ \union urls,
                            !.at = IF rest = {} THEN "user" ELSE "upload",
                            !.address = IF rest = {} THEN cubit[s.n].address ELSE Home])
    /\ hosted' = hosted \union urls
    /\ UNCHANGED <<formVars, server, realm, snapshots, deletes, crossed,
                   acks, presses, made, excused, torn>>

\* The place was changed since the save read the address.
Tears(s, coords) == IF s.address # cubit[s.n].address
                    THEN torn' = torn \union {<<s.address, coords>>}
                    ELSE UNCHANGED torn

\* Mutant of UserIdReturns: updatePlace kept the old coordinates.
UserIdReturnsOldCoords(s) ==
    /\ s \in saves /\ s.at = "user"
    /\ Becomes(s, [s EXCEPT !.coords = Home, !.at = "write", !.to = cubit[s.n].target])
    /\ Tears(s, Home)
    /\ UNCHANGED <<formVars, dataVars, acks, presses, made, excused>>

\* The user's id returns: the coordinates are read, and whether the posting is
\* to be updated or, new or deleted meanwhile, created.
UserIdReturns(s) ==
    /\ s \in saves /\ s.at = "user"
    /\ Becomes(s, [s EXCEPT !.coords = cubit[s.n].coords, !.at = "write",
                            !.to = cubit[s.n].target])
    /\ Tears(s, cubit[s.n].coords)
    /\ UNCHANGED <<formVars, dataVars, acks, presses, made, excused>>

Ends(s) == saves' = saves \ {s}

\* The progress ends, if the screen is still there.
Idle(n) == cubit' = [cubit EXCEPT ![n] = IF top' # "list" /\ n = visit
                                         THEN [@ EXCEPT !.loading = FALSE] ELSE Closed]

\* Mutant of SaveFails: the error is not caught.
SaveFailsUncaught(s) ==
    /\ s \in saves /\ s.at # "store"
    /\ Ends(s)
    /\ UNCHANGED <<formVars, dataVars, acks, presses, made, excused, torn>>

\* An upload, the user's id or the write throws: caught, and the progress ends.
SaveFails(s) ==
    /\ s \in saves /\ s.at # "store"
    /\ Ends(s)
    /\ UNCHANGED top /\ Idle(s.n)
    /\ UNCHANGED <<visit, picks, used, dataVars, acks, presses, made, excused, torn>>

\* The documents a new posting may become, of which it takes the least.
Unused == {p \in Posting \ (snapshots \union crossed) :
              ~server[p].there /\ ~realm[p].there /\ \A t \in saves : t.to # p}

\* Firestore takes the write.  toFirestore leaves out an empty list of pictures:
\* an update keeps those the document has.  The listener hears of a write of its
\* own client before it is acknowledged, and stores the document.  An update of
\* a deleted document is refused (SaveFails).
Commits(s, p) ==
    /\ s \in saves /\ s.at = "write"
    /\ IF s.to # NoPosting
       THEN p = s.to /\ server[p].there
       ELSE p \in Unused /\ \A q \in Unused : p <= q
    /\ server' = [server EXCEPT ![p] =
           Doc(IF s.urls = {} THEN @.pictures ELSE s.urls, s.address, s.coords)]
    /\ realm' = [realm EXCEPT ![p] = server'[p]]
    /\ made' = IF s.to = NoPosting THEN [made EXCEPT ![s.n] = @ + 1] ELSE made
    /\ crossed' = IF Storing(p) THEN crossed \union {p} ELSE crossed
    /\ Becomes(s, [s EXCEPT !.at = "store", !.to = p])
    /\ acks' = Append(acks, s.id)
    /\ UNCHANGED <<formVars, snapshots, hosted, deletes, presses, excused, torn>>

\* Mutant of Copy: the coordinates are not mapped.
CopyWithoutCoords(s) == Doc(s.urls, s.address, Home)

\* The object made of the data written, not of the document.
Copy(s) == Doc(s.urls, s.address, s.coords)

Acknowledged(s) == /\ s \in saves /\ s.at = "store" /\ s.id = Head(acks)
                   /\ acks' = Tail(acks) /\ Ends(s)

\* createPosting returns true: the screen on top, which may be the place search,
\* is popped if the editor is still mounted.
Succeeds(s) ==
    /\ top' = IF ~Shows(s.n) THEN top ELSE IF top = "search" THEN "editor" ELSE "list"
    /\ Idle(s.n)
    /\ picks' = IF top' = "list" THEN {} ELSE picks
    /\ excused' = IF Shows(s.n) /\ top = "search" THEN [excused EXCEPT ![s.n] = @ + 1] ELSE excused

\* The write is acknowledged and the copy stored, where getEntity finds it.
Saved(s) ==
    /\ Acknowledged(s) /\ Succeeds(s)
    /\ realm' = [realm EXCEPT ![s.to] = Copy(s)]
    /\ UNCHANGED <<visit, used, server, snapshots, hosted, deletes, crossed, torn,
                   presses, made>>

\* Storing the copy throws, in a future that nobody awaits.  getEntity decides:
\* with an object of the listener, or an old one, the save succeeds all the same;
\* without any it counts as failed, though it is written.
StoreFails(s) ==
    /\ Acknowledged(s)
    /\ \/ realm[s.to].there /\ Succeeds(s)
       \/ /\ ~realm[s.to].there
          /\ UNCHANGED <<top, picks>> /\ Idle(s.n)
          /\ excused' = [excused EXCEPT ![s.n] = @ + 1]
    /\ UNCHANGED <<visit, used, dataVars, presses, made, torn>>
-----------------------------------------------------------------------------
(* MyPostings' listener, and other clients.                                *)

\* The document is stored in Realm, or the posting deleted, which makes the
\* object an editor holds invalid.
Snapshot(p) ==
    /\ p \in snapshots /\ snapshots' = snapshots \ {p}
    /\ realm' = [realm EXCEPT ![p] = server[p]]
    /\ cubit' = [n \in Editor |-> IF cubit[n].target = p /\ ~server[p].there
                                  THEN [cubit[n] EXCEPT !.target = NoPosting] ELSE cubit[n]]
    /\ crossed' = IF Storing(p) THEN crossed ELSE crossed \ {p}
    /\ UNCHANGED <<visit, top, picks, used, server, hosted, deletes, saveVars>>

\* Another client deletes a posting that is being edited or saved.
OtherDeletes(p) ==
    /\ deletes < MaxDeletes /\ deletes' = deletes + 1
    /\ server[p].there
    /\ (\E n \in Editor : cubit[n].target = p) \/ \E s \in saves : s.to = p
    /\ server' = [server EXCEPT ![p] = NoDoc]
    /\ snapshots' = snapshots \union {p}
    /\ crossed' = IF Storing(p) THEN crossed \union {p} ELSE crossed
    /\ UNCHANGED <<formVars, realm, hosted, saveVars>>
-----------------------------------------------------------------------------
\* Stored postings have one picture each; they are the same in Realm.
Init ==
    /\ server = [p \in Posting |-> IF p \in Listed THEN Doc({p}, Home, Home) ELSE NoDoc]
    /\ realm = server
    /\ used = Listed /\ hosted = used
    /\ snapshots = {} /\ picks = {} /\ saves = {} /\ acks = <<>>
    /\ cubit = [n \in Editor |-> Closed] /\ visit = 0 /\ top = "list"
    /\ presses = 0 /\ deletes = 0
    /\ made = [n \in Editor |-> 0] /\ excused = made
    /\ crossed = {} /\ torn = {}

SaveStep(s) == \/ \E x \in s.left : Uploaded(s, x, {x}) \/ Uploaded(s, x, {})
               \/ UserIdReturns(s) \/ SaveFails(s)
               \/ \E p \in Posting : Commits(s, p)
               \/ Saved(s) \/ StoreFails(s)

SaveOf(n) == \E s \in saves : s.n = n /\ SaveStep(s)

Next == \/ \E p \in Posting \union {NoPosting} : OpenEditor(p)
        \/ LeaveEditor \/ PushSearch \/ NoPlace \/ PressSave
        \/ \E onto \in {Tile(x, l) : x \in Picture, l \in BOOLEAN} \union {Plus} :
              SelectImage(onto)
        \/ \E onto \in picks : NoImage(onto) \/ \E x \in Picture : ImageSelected(onto, x)
        \/ \E pl \in Place : UpdatePlace(pl)
        \/ \E n \in Editor : SaveOf(n)
        \/ \E p \in Posting : Snapshot(p) \/ OtherDeletes(p)

\* Every call of a save returns or throws; users need do nothing.
Spec == Init /\ [][Next]_vars /\ \A n \in Editor : WF_vars(SaveOf(n))
-----------------------------------------------------------------------------
(* Properties.                                                             *)

EditorLoading == top # "list" /\ cubit[visit].loading

\* Types; an editor shows progress exactly while a save of it is under way.
TypeOK ==
    /\ \A p \in Posting : /\ {server[p].pictures, realm[p].pictures} \subseteq SUBSET Picture
                          /\ {server[p].address, server[p].coords} \subseteq Place
    /\ top \in {"list", "editor", "search"} /\ visit \in 0..MaxEditors
    /\ \A n \in Editor : cubit[n].loading <=> \E s \in saves : s.n = n
    /\ Len(acks) = Cardinality({s \in saves : s.at = "store"})
    /\ presses \in 0..MaxPresses /\ deletes \in 0..MaxDeletes

\* A stored posting shows only pictures the image host has: one whose upload was
\* refused, or whose file is only on this device, is in no document and no copy.
PicturesHosted ==
    \A p \in Posting : server[p].pictures \union realm[p].pictures \subseteq hosted

\* The server's and the local postings have the coordinates of their address,
\* also when they are opened and saved again.  The only mismatches are those of
\* saves between whose two reads, with the user's id awaited in between, the
\* place was changed.
PlaceMatchesCoords ==
    \A p \in Posting : \A d \in {server[p], realm[p]} :
        d.address # d.coords => <<d.address, d.coords>> \in torn

\* An editor creates one posting, however often it is saved, and one more only
\* after a save that wrote the posting but left the editor open: Realm did not
\* have it and could not store it, or the save popped the place search instead
\* of the editor.
OnePostingPerEditor == \A n \in Editor : made[n] <= 1 + excused[n]

\* When neither a snapshot nor an acknowledgement is to come, Realm has what the
\* server has, but for the pictures that an update without any empties in the
\* copy only.  Excepted is a posting saved again, or deleted elsewhere, before
\* the copy of an earlier save was stored.
CopiesAgree ==
    \A p \in Posting \ (snapshots \union crossed) :
        ~Storing(p) => realm[p] \in {server[p], [server[p] EXCEPT !.pictures = {}]}

\* The progress indicator of the editor shown goes away, whatever fails and when.
EditorSpinnerEnds == EditorLoading ~> ~EditorLoading
=============================================================================
