------------------------ MODULE PostingEditorProofs ------------------------
(***************************************************************************)
(* Proofs about PostingEditor, for any postings, pictures and places and   *)
(* any number of editors, saves and deletions.                             *)
(*                                                                         *)
(* An editor has at most one save, since the progress indicator replaces   *)
(* the button, and the end of the save is the end of the progress.  What   *)
(* a save has still to do is bounded by what it may still create, and the  *)
(* document it wrote stays the one it will copy until somebody else writes *)
(* it, which the history records.                                          *)
(***************************************************************************)
EXTENDS PostingEditor, FiniteSetTheorems, TLAPS

Document == [there : BOOLEAN, pictures : SUBSET Picture, address : Place, coords : Place]
TileType == [picture : Picture, local : BOOLEAN]
CubitType == [target : Posting \union {NoPosting}, tiles : SUBSET TileType,
              address : Place, coords : Place, loading : BOOLEAN]
SaveType == [id : Nat, n : Editor, left : SUBSET Picture, urls : SUBSET Picture,
             at : {"upload", "user", "write", "store"}, address : Place, coords : Place,
             to : Posting \union {NoPosting}]

FormTyped ==
    /\ cubit \in [Editor -> CubitType]
    /\ visit \in 0..MaxEditors /\ top \in {"list", "editor", "search"}
    /\ picks \subseteq TileType \union {Plus} /\ used \subseteq Picture
    /\ top # "list" \/ picks # {} => visit \in Editor

DataTyped ==
    /\ server \in [Posting -> Document] /\ realm \in [Posting -> Document]
    /\ snapshots \subseteq Posting /\ crossed \subseteq Posting
    /\ hosted \subseteq Picture /\ deletes \in 0..MaxDeletes

SavesTyped ==
    /\ saves \subseteq SaveType /\ acks \in Seq(Nat)
    /\ presses \in 0..MaxPresses
    /\ made \in [Editor -> Nat] /\ excused \in [Editor -> Nat]
    /\ \A s \in saves : s.at = "store" => s.to \in Posting

Typed == FormTyped /\ DataTyped /\ SavesTyped

StoreSaves == {s \in saves : s.at = "store"}

\* One save per editor, of editors that were opened; the progress indicator
\* tells of it; every write taken and not stored awaits an acknowledgement.
OneSave ==
    /\ \A s, t \in saves : s.n = t.n => s = t
    /\ \A s \in saves : s.n <= visit
    /\ \A n \in Editor : cubit[n].loading <=> \E s \in saves : s.n = n
AcksCounted == /\ IsFiniteSet(StoreSaves)
               /\ Len(acks) = Cardinality(StoreSaves)

\* The pictures of a form that are not local, and the urls of a save, are hosted.
Hosted ==
    /\ PicturesHosted
    /\ \A n \in Editor : Remote(cubit[n].tiles) \subseteq hosted
    /\ \A s \in saves : s.urls \subseteq hosted

\* An address and coordinates that a save may have put together: a torn pair is
\* loaded into the form, copied and written again as it is.
Known(address, coords) == address = coords \/ <<address, coords>> \in torn
DocsKnown ==
    \A p \in Posting : /\ Known(server[p].address, server[p].coords)
                       /\ Known(realm[p].address, realm[p].coords)
FormsKnown ==
    /\ \A n \in Editor : Known(cubit[n].address, cubit[n].coords)
    /\ \A s \in saves : s.at \in {"write", "store"} => Known(s.address, s.coords)
PlacesRead == DocsKnown /\ FormsKnown

\* Editors that may still create a posting: those to come, those shown or saving
\* whose save is not yet written.
MayCreate(n) ==
    /\ n > visit \/ Shows(n) \/ \E s \in saves : s.n = n
    /\ ~\E s \in saves : s.n = n /\ s.at = "store"
Budget == /\ OnePostingPerEditor
          /\ \A n \in Editor : MayCreate(n) => made[n] <= excused[n]

\* A save about to store its copy wrote the document, alone, and Realm has it.
Matches(s, d) == /\ d.there /\ d.address = s.address /\ d.coords = s.coords
                 /\ s.urls \in {{}, d.pictures}
StoringMatches ==
    /\ \A s \in saves : s.at = "store" /\ s.to \notin crossed => Matches(s, server[s.to])
    /\ \A s, t \in saves : s.at = "store" /\ t.at = "store" /\ s.to = t.to
                              => s = t \/ s.to \in crossed
Mirrored == \A p \in Posting \ (snapshots \union crossed) :
               realm[p] \in {server[p], [server[p] EXCEPT !.pictures = {}]}

\* The inductive invariant.
Inv == /\ Typed /\ OneSave /\ AcksCounted /\ Hosted /\ PlacesRead
       /\ Budget /\ StoringMatches /\ Mirrored
-----------------------------------------------------------------------------
\* No editor is open and the listed postings are stored alike.
LEMMA InitInv == Init => Inv
<1> SUFFICES ASSUME Init PROVE Inv
  OBVIOUS
<1>1. NoDoc \in Document /\ Closed \in CubitType
  BY HomeAssumption DEF NoDoc, Document, Closed, CubitType
<1>2. \A p \in Listed : Doc({p}, Home, Home) \in Document /\ {p} \subseteq Listed
  BY HomeAssumption, IdAssumption DEF Doc, Document
<1>3. server \in [Posting -> Document] /\ realm = server
  BY <1>1, <1>2 DEF Init
<1>4. 0 \in 0..MaxEditors /\ 0 \in 0..MaxPresses /\ 0 \in 0..MaxDeletes
  BY BoundAssumption
<1>5. Typed
  BY <1>1, <1>3, <1>4, IdAssumption
     DEF Init, Typed, FormTyped, DataTyped, SavesTyped
<1>6. OneSave
  BY DEF Init, OneSave, Closed
<1>7. AcksCounted
  <2>1. StoreSaves = {}
    BY DEF Init, StoreSaves
  <2> QED
    BY <2>1, FS_EmptySet DEF Init, AcksCounted
<1>8. Hosted
  <2>1. \A n \in Editor : Remote(cubit[n].tiles) = {}
    BY DEF Init, Closed, Remote
  <2>2. PicturesHosted
    BY DEF Init, PicturesHosted, Doc, NoDoc
  <2> QED
    BY <2>1, <2>2 DEF Init, Hosted
<1>9. PlacesRead /\ StoringMatches /\ Mirrored
  BY DEF Init, PlacesRead, DocsKnown, FormsKnown, Known, Closed, Doc, NoDoc, StoringMatches, Mirrored
<1>10. Budget
  BY DEF Init, Budget, OnePostingPerEditor
<1> QED
  BY <1>5, <1>6, <1>7, <1>8, <1>9, <1>10 DEF Inv

\* The tiles of stored pictures are remote ones.
LEMMA StoredTiles ==
    ASSUME NEW pictures \in SUBSET Picture
    PROVE  /\ {Tile(x, FALSE) : x \in pictures} \subseteq TileType
           /\ Remote({Tile(x, FALSE) : x \in pictures}) \subseteq pictures
<1>1. \A x \in Picture : Tile(x, FALSE) \in TileType /\ Tile(x, FALSE).picture = x
  BY DEF Tile, TileType
<1> QED
  BY <1>1 DEF Remote

\* The pictures of tiles are pictures.
LEMMA TilePictures ==
    ASSUME NEW tiles \in SUBSET TileType
    PROVE  Local(tiles) \subseteq Picture /\ Remote(tiles) \subseteq Picture
BY DEF TileType, Local, Remote

\* Steps of the form alone: they open no editor anew, leave the progress as it is
\* and bring no place but those chosen or stored.
LEMMA FormStep ==
    ASSUME Inv, UNCHANGED <<dataVars, saveVars>>, FormTyped', visit <= visit',
           \A n \in Editor : n > visit' \/ Shows(n)' => n > visit \/ Shows(n),
           \A n \in Editor : cubit'[n].loading = cubit[n].loading,
           \A n \in Editor : Known(cubit'[n].address, cubit'[n].coords),
           \A n \in Editor : Remote(cubit'[n].tiles) \subseteq hosted
    PROVE  Inv'
<1>1. /\ server' = server /\ realm' = realm /\ snapshots' = snapshots
      /\ hosted' = hosted /\ crossed' = crossed /\ saves' = saves
      /\ made' = made /\ excused' = excused /\ torn' = torn
  BY DEF dataVars, saveVars
<1>2. \A s \in saves : s.n \in Editor /\ cubit[s.n].loading
  BY DEF Inv, Typed, SavesTyped, SaveType, OneSave
<1>3. Typed'
  BY DEF Inv, Typed, DataTyped, SavesTyped, dataVars, saveVars
<1>4. OneSave'
  <2>1. \A s \in saves : s.n <= visit'
    BY <1>2, <1>3 DEF Inv, OneSave, Typed, FormTyped, Editor
  <2> QED
    BY <1>1, <2>1 DEF Inv, OneSave
<1>5. AcksCounted'
  BY <1>1 DEF Inv, AcksCounted, StoreSaves, saveVars
<1>6. Hosted' /\ PlacesRead'
  BY <1>1, <1>2 DEF Inv, Hosted, PicturesHosted, PlacesRead, DocsKnown, FormsKnown, Known
<1>7. Budget'
  BY <1>1 DEF Inv, Budget, MayCreate, OnePostingPerEditor
<1>8. StoringMatches' /\ Mirrored'
  BY <1>1 DEF Inv, StoringMatches, Mirrored
<1> QED
  BY <1>3, <1>4, <1>5, <1>6, <1>7, <1>8 DEF Inv

\* An editor is opened with the stored pictures and place, or empty.
LEMMA OpenEditorInv ==
    ASSUME Inv, NEW p \in Posting \union {NoPosting}, OpenEditor(p)
    PROVE  Inv'
<1> DEFINE tiles == {Tile(x, FALSE) : x \in realm[p].pictures}
           c == IF p = NoPosting THEN Closed
                ELSE [target |-> p, tiles |-> tiles, address |-> realm[p].address,
                      coords |-> realm[p].coords, loading |-> FALSE]
<1>1. /\ cubit \in [Editor -> CubitType] /\ visit \in Nat /\ visit < MaxEditors
      /\ visit' = visit + 1 /\ top' = "editor"
      /\ cubit' = [cubit EXCEPT ![visit + 1] = c]
      /\ picks' = picks /\ used' = used /\ UNCHANGED <<dataVars, saveVars>>
  BY DEF Inv, Typed, FormTyped, OpenEditor
<1>2. visit + 1 \in Editor
  BY <1>1, BoundAssumption DEF Editor
<1>3. p # NoPosting => realm[p] \in Document
  BY DEF Inv, Typed, DataTyped
<1>4. p # NoPosting => /\ tiles \subseteq TileType
                       /\ Remote(tiles) \subseteq realm[p].pictures
  BY <1>3, StoredTiles DEF Document
<1>5. c \in CubitType /\ c.loading = FALSE /\ Known(c.address, c.coords)
  <2>1. CASE p = NoPosting
    BY <2>1, HomeAssumption DEF Closed, CubitType, Known
  <2>2. CASE p # NoPosting
    BY <2>2, <1>3, <1>4 DEF CubitType, Document, Inv, PlacesRead, DocsKnown, FormsKnown
  <2> QED
    BY <2>1, <2>2
<1>6. Remote(c.tiles) \subseteq hosted
  <2>1. CASE p = NoPosting
    BY <2>1 DEF Closed, Remote
  <2>2. CASE p # NoPosting
    <3>1. c.tiles = tiles
      BY <2>2
    <3>2. realm[p].pictures \subseteq hosted
      BY <2>2 DEF Inv, Hosted, PicturesHosted
    <3> QED
      BY <2>2, <3>1, <3>2, <1>4
  <2> QED
    BY <2>1, <2>2
<1> HIDE DEF c
<1>7. \A n \in Editor : cubit'[n] = IF n = visit + 1 THEN c ELSE cubit[n]
  BY <1>1
<1>8. cubit[visit + 1].loading = FALSE
  <2>1. ~\E s \in saves : s.n = visit + 1
    BY <1>1 DEF Inv, OneSave
  <2> QED
    BY <1>1, <1>2, <2>1 DEF Inv, OneSave, CubitType
<1>9. FormTyped'
  BY <1>1, <1>2, <1>5 DEF Inv, Typed, FormTyped, Editor
<1>10. \A n \in Editor : n > visit' \/ Shows(n)' => n > visit \/ Shows(n)
  BY <1>1 DEF Shows, Editor
<1>11. \A n \in Editor : /\ cubit'[n].loading = cubit[n].loading
                         /\ Known(cubit'[n].address, cubit'[n].coords)
                         /\ Remote(cubit'[n].tiles) \subseteq hosted
  BY <1>5, <1>6, <1>7, <1>8 DEF Inv, Hosted, PlacesRead, DocsKnown, FormsKnown
<1>12. visit <= visit'
  BY <1>1
<1> QED
  BY <1>1, <1>9, <1>10, <1>11, <1>12, FormStep

\* The editor is left; a save of it goes on.
LEMMA LeaveEditorInv ==
    ASSUME Inv, LeaveEditor
    PROVE  Inv'
<1> DEFINE c == IF cubit[visit].loading THEN [cubit[visit] EXCEPT !.tiles = {}] ELSE Closed
<1>1. /\ cubit \in [Editor -> CubitType] /\ visit \in Editor
      /\ visit' = visit /\ top' = "list" /\ picks' = {} /\ used' = used
      /\ UNCHANGED <<dataVars, saveVars>>
      /\ cubit' = [cubit EXCEPT ![visit] = c]
  BY DEF Inv, Typed, FormTyped, LeaveEditor
<1>2. cubit[visit] \in CubitType
  BY <1>1
<1>3. /\ c \in CubitType /\ c.tiles = {} /\ c.loading = cubit[visit].loading
      /\ Known(c.address, c.coords)
  <2>1. CASE cubit[visit].loading
    BY <1>1, <1>2, <2>1 DEF CubitType, Inv, PlacesRead, DocsKnown, FormsKnown
  <2>2. CASE ~cubit[visit].loading
    BY <1>2, <2>2, HomeAssumption DEF CubitType, Closed, Known
  <2> QED
    BY <2>1, <2>2
<1> HIDE DEF c
<1>4. \A n \in Editor : cubit'[n] = IF n = visit THEN c ELSE cubit[n]
  BY <1>1
<1>5. FormTyped'
  BY <1>1, <1>3 DEF Inv, Typed, FormTyped
<1>6. \A n \in Editor : /\ cubit'[n].loading = cubit[n].loading
                        /\ Known(cubit'[n].address, cubit'[n].coords)
                        /\ Remote(cubit'[n].tiles) \subseteq hosted
  BY <1>3, <1>4 DEF Inv, Hosted, Remote, PlacesRead, DocsKnown, FormsKnown
<1>7. \A n \in Editor : n > visit' \/ Shows(n)' => n > visit \/ Shows(n)
  BY <1>1 DEF Shows
<1>8. visit <= visit'
  BY <1>1 DEF Editor
<1> QED
  BY <1>1, <1>5, <1>6, <1>7, <1>8, FormStep

\* A picture arrives on a tile: it is local.
LEMMA ImageSelectedInv ==
    ASSUME Inv, NEW onto \in picks, NEW x \in Picture, ImageSelected(onto, x)
    PROVE  Inv'
<1> DEFINE tiles == (cubit[visit].tiles \ {onto}) \union {Tile(x, TRUE)}
           c == [cubit[visit] EXCEPT !.tiles = tiles]
<1>1. /\ cubit \in [Editor -> CubitType] /\ visit \in Editor
      /\ visit' = visit /\ top' = top /\ picks' = picks \ {onto}
      /\ used' = used \union {x} /\ UNCHANGED <<dataVars, saveVars>>
      /\ cubit' = [cubit EXCEPT ![visit] = c]
  BY DEF Inv, Typed, FormTyped, ImageSelected
<1>2. cubit[visit] \in CubitType
  BY <1>1
<1>3. tiles \subseteq TileType
  <2>1. cubit[visit].tiles \subseteq TileType
    BY <1>2 DEF CubitType
  <2>2. Tile(x, TRUE) \in TileType
    BY DEF Tile, TileType
  <2> QED
    BY <2>1, <2>2
<1>4. Remote(tiles) \subseteq Remote(cubit[visit].tiles)
  BY DEF Remote, Tile
<1>5. /\ c \in CubitType /\ c.tiles = tiles /\ c.loading = cubit[visit].loading
      /\ c.address = cubit[visit].address /\ c.coords = cubit[visit].coords
  BY <1>2, <1>3 DEF CubitType
<1> HIDE DEF c, tiles
<1>6. \A n \in Editor : cubit'[n] = IF n = visit THEN c ELSE cubit[n]
  BY <1>1
<1>7. FormTyped'
  BY <1>1, <1>5 DEF Inv, Typed, FormTyped
<1>8. \A n \in Editor : /\ cubit'[n].loading = cubit[n].loading
                        /\ Known(cubit'[n].address, cubit'[n].coords)
                        /\ Remote(cubit'[n].tiles) \subseteq hosted
  BY <1>1, <1>4, <1>5, <1>6 DEF Inv, Hosted, PlacesRead, DocsKnown, FormsKnown
<1>9. \A n \in Editor : n > visit' \/ Shows(n)' => n > visit \/ Shows(n)
  BY <1>1 DEF Shows
<1>10. visit <= visit'
  BY <1>1 DEF Editor
<1> QED
  BY <1>1, <1>7, <1>8, <1>9, <1>10, FormStep

\* The steps that change no cubit.
LEMMA BesideCubitInv ==
    ASSUME Inv,
           \/ \E onto : SelectImage(onto)
           \/ \E onto \in picks : NoImage(onto)
           \/ PushSearch \/ NoPlace
    PROVE  Inv'
<1>1. cubit' = cubit /\ visit' = visit /\ UNCHANGED <<dataVars, saveVars>>
  BY DEF SelectImage, NoImage, PushSearch, NoPlace
<1>2. visit <= visit' /\ \A n \in Editor : Shows(n)' => Shows(n)
  BY <1>1 DEF SelectImage, NoImage, PushSearch, NoPlace, Shows, Inv, Typed, FormTyped
<1>3. FormTyped'
  <2>1. ASSUME NEW onto, SelectImage(onto) PROVE FormTyped'
    <3>1. /\ visit \in Editor /\ top' = top /\ used' = used
          /\ picks' = picks \union {onto}
      BY <2>1 DEF SelectImage, Inv, Typed, FormTyped
    <3>2. cubit[visit] \in CubitType
      BY <3>1 DEF Inv, Typed, FormTyped
    <3>3. onto \in TileType \union {Plus}
      BY <2>1, <3>2 DEF SelectImage, CubitType
    <3> QED
      BY <1>1, <3>1, <3>3 DEF Inv, Typed, FormTyped
  <2>2. ASSUME NEW onto \in picks, NoImage(onto) PROVE FormTyped'
    BY <1>1, <2>2 DEF NoImage, Inv, Typed, FormTyped
  <2>3. CASE PushSearch
    BY <1>1, <2>3 DEF PushSearch, Inv, Typed, FormTyped
  <2>4. CASE NoPlace
    BY <1>1, <2>4 DEF NoPlace, Inv, Typed, FormTyped
  <2> QED
    BY <2>1, <2>2, <2>3, <2>4
<1> QED
  BY <1>1, <1>2, <1>3, FormStep DEF Inv, Hosted, PlacesRead, DocsKnown, FormsKnown

\* A place is chosen, with its own coordinates.
LEMMA UpdatePlaceInv ==
    ASSUME Inv, NEW pl \in Place, UpdatePlace(pl)
    PROVE  Inv'
<1> DEFINE c == [cubit[visit] EXCEPT !.address = pl, !.coords = pl]
<1>1. /\ cubit \in [Editor -> CubitType] /\ visit \in Editor
      /\ visit' = visit /\ top = "search" /\ top' = "editor" /\ picks' = picks
      /\ used' = used /\ UNCHANGED <<dataVars, saveVars>>
      /\ cubit' = [cubit EXCEPT ![visit] = c]
  BY DEF Inv, Typed, FormTyped, UpdatePlace
<1>2. cubit[visit] \in CubitType
  BY <1>1
<1>3. /\ c \in CubitType /\ c.tiles = cubit[visit].tiles
      /\ c.loading = cubit[visit].loading /\ c.address = pl /\ c.coords = pl
  BY <1>2 DEF CubitType
<1> HIDE DEF c
<1>4. \A n \in Editor : cubit'[n] = IF n = visit THEN c ELSE cubit[n]
  BY <1>1
<1>5. FormTyped'
  BY <1>1, <1>3 DEF Inv, Typed, FormTyped
<1>6. \A n \in Editor : /\ cubit'[n].loading = cubit[n].loading
                        /\ Known(cubit'[n].address, cubit'[n].coords)
                        /\ Remote(cubit'[n].tiles) \subseteq hosted
  BY <1>3, <1>4 DEF Inv, Hosted, PlacesRead, DocsKnown, FormsKnown, Known
<1>7. \A n \in Editor : n > visit' \/ Shows(n)' => n > visit \/ Shows(n)
  BY <1>1 DEF Shows
<1>8. visit <= visit'
  BY <1>1 DEF Editor
<1> QED
  BY <1>1, <1>5, <1>6, <1>7, <1>8, FormStep

\* A save begins: the editor has none, and its remote tiles are hosted.
LEMMA PressSaveInv ==
    ASSUME Inv, PressSave
    PROVE  Inv'
<1> DEFINE c == cubit[visit]
           d == [c EXCEPT !.loading = TRUE]
           s == [id |-> presses + 1, n |-> visit, left |-> Local(c.tiles), urls |-> Remote(c.tiles),
                 at |-> IF Local(c.tiles) = {} THEN "user" ELSE "upload",
                 address |-> IF Local(c.tiles) = {} THEN c.address ELSE Home,
                 coords |-> Home, to |-> NoPosting]
<1>1. /\ cubit \in [Editor -> CubitType] /\ visit \in Editor /\ ~c.loading
      /\ visit' = visit /\ top = "editor" /\ top' = top /\ picks' = picks
      /\ used' = used /\ UNCHANGED <<dataVars, acks, made, excused, torn>>
      /\ presses \in Nat /\ presses' = presses + 1 /\ presses < MaxPresses
      /\ cubit' = [cubit EXCEPT ![visit] = d]
      /\ saves' = saves \union {s}
  BY DEF Inv, Typed, FormTyped, SavesTyped, PressSave
<1>2. c \in CubitType
  BY <1>1
<1>3. /\ d \in CubitType /\ d.tiles = c.tiles /\ d.loading = TRUE
      /\ d.address = c.address /\ d.coords = c.coords
      /\ c.address \in Place /\ c.tiles \in SUBSET TileType
  BY <1>2 DEF CubitType
<1>4. s \in SaveType
  BY <1>1, <1>3, TilePictures, HomeAssumption DEF SaveType
<1>5. s.n = visit /\ s.urls = Remote(c.tiles) /\ s.at \in {"user", "upload"}
  OBVIOUS
<1>6. \A t \in saves : t.n # visit
  BY <1>1 DEF Inv, OneSave
<1> HIDE DEF s, d
<1>7. \A n \in Editor : cubit'[n] = IF n = visit THEN d ELSE cubit[n]
  BY <1>1
<1>8. presses' \in 0..MaxPresses
  BY <1>1, BoundAssumption
<1>9. Typed'
  BY <1>1, <1>3, <1>4, <1>5, <1>8 DEF Inv, Typed, FormTyped, DataTyped, SavesTyped, dataVars
<1>10. OneSave'
  BY <1>1, <1>3, <1>5, <1>6, <1>7 DEF Inv, OneSave, Editor
<1>11. AcksCounted'
  <2>1. StoreSaves' = StoreSaves
    BY <1>1, <1>5 DEF StoreSaves
  <2> QED
    BY <1>1, <2>1 DEF Inv, AcksCounted
<1>12. Hosted'
  BY <1>1, <1>3, <1>5, <1>7 DEF Inv, Hosted, PicturesHosted, dataVars
<1>13. PlacesRead'
  BY <1>1, <1>3, <1>5, <1>7 DEF Inv, PlacesRead, DocsKnown, FormsKnown, Known, dataVars
<1>14. Budget'
  <2>1. \A n \in Editor : MayCreate(n)' => MayCreate(n)
    BY <1>1, <1>5 DEF MayCreate, Shows
  <2> QED
    BY <1>1, <2>1 DEF Inv, Budget, OnePostingPerEditor
<1>15. StoringMatches' /\ Mirrored'
  BY <1>1, <1>5 DEF Inv, StoringMatches, Mirrored, dataVars
<1> QED
  BY <1>9, <1>10, <1>11, <1>12, <1>13, <1>14, <1>15 DEF Inv

\* A save goes on before its write: another record of the same editor.
LEMMA SaveGoesOn ==
    ASSUME Inv, NEW s \in saves, NEW t \in SaveType, Becomes(s, t),
           s.at # "store", t.at # "store", t.n = s.n,
           UNCHANGED <<formVars, server, realm, snapshots, deletes, crossed,
                       acks, presses, made, excused>>,
           hosted \subseteq hosted', hosted' \subseteq Picture, t.urls \subseteq hosted',
           torn \subseteq torn',
           t.at = "write" => t.address = t.coords \/ <<t.address, t.coords>> \in torn'
    PROVE  Inv'
<1>1. saves' = (saves \ {s}) \union {t}
  BY DEF Becomes
<1>2. UNCHANGED <<cubit, visit, top, picks, used>>
  BY DEF formVars
<1>3. Typed'
  BY <1>1, <1>2 DEF Inv, Typed, FormTyped, DataTyped, SavesTyped
<1>4. OneSave'
  BY <1>1, <1>2 DEF Inv, OneSave
<1>5. AcksCounted'
  <2>1. StoreSaves' = StoreSaves
    BY <1>1 DEF StoreSaves
  <2> QED
    BY <2>1 DEF Inv, AcksCounted
<1>6. Hosted' /\ PlacesRead'
  BY <1>1, <1>2 DEF Inv, Hosted, PicturesHosted, PlacesRead, DocsKnown, FormsKnown, Known
<1>7. Budget'
  <2>1. \A n \in Editor : MayCreate(n)' => MayCreate(n)
    BY <1>1, <1>2 DEF MayCreate, Shows, Inv, OneSave
  <2> QED
    BY <2>1 DEF Inv, Budget, OnePostingPerEditor
<1>8. StoringMatches' /\ Mirrored'
  BY <1>1 DEF Inv, StoringMatches, Mirrored
<1> QED
  BY <1>3, <1>4, <1>5, <1>6, <1>7, <1>8 DEF Inv

\* An upload returns.
LEMMA UploadedInv ==
    ASSUME Inv, NEW s \in saves, NEW x \in s.left, NEW urls \in SUBSET {x},
           Uploaded(s, x, urls)
    PROVE  Inv'
<1> DEFINE rest == s.left \ {x}
           t == [s EXCEPT !.left = rest, !.urls = @ \union urls,
                          !.at = IF rest = {} THEN "user" ELSE "upload",
                          !.address = IF rest = {} THEN cubit[s.n].address ELSE Home]
<1>1. /\ Becomes(s, t) /\ hosted' = hosted \union urls
      /\ UNCHANGED <<formVars, server, realm, snapshots, deletes, crossed,
                     acks, presses, made, excused, torn>>
      /\ s.at = "upload"
  BY DEF Uploaded
<1>2. s \in SaveType /\ x \in Picture
  BY DEF Inv, Typed, SavesTyped, SaveType
<1>3. cubit[s.n] \in CubitType
  BY <1>2 DEF Inv, Typed, FormTyped, SaveType
<1>4. cubit[s.n].address \in Place
  BY <1>3 DEF CubitType
<1>5. /\ t \in SaveType /\ t.n = s.n /\ t.urls = s.urls \union urls
      /\ t.at \in {"user", "upload"}
  BY <1>2, <1>4, HomeAssumption DEF SaveType
<1> HIDE DEF t
<1>6. hosted \subseteq Picture /\ s.urls \subseteq hosted
  BY DEF Inv, Typed, DataTyped, Hosted
<1> QED
  BY <1>1, <1>2, <1>5, <1>6, SaveGoesOn

\* The user's id returns.
LEMMA UserIdReturnsInv ==
    ASSUME Inv, NEW s \in saves, UserIdReturns(s)
    PROVE  Inv'
<1> DEFINE t == [s EXCEPT !.coords = cubit[s.n].coords, !.at = "write",
                          !.to = cubit[s.n].target]
<1>1. /\ Becomes(s, t) /\ UNCHANGED <<formVars, dataVars, acks, presses, made, excused>>
      /\ Tears(s, cubit[s.n].coords) /\ s.at = "user"
  BY DEF UserIdReturns
<1>2. s \in SaveType
  BY DEF Inv, Typed, SavesTyped
<1>3. cubit[s.n] \in CubitType
  BY <1>2 DEF Inv, Typed, FormTyped, SaveType
<1>4. /\ t \in SaveType /\ t.n = s.n /\ t.urls = s.urls /\ t.at = "write"
      /\ t.address = s.address /\ t.coords = cubit[s.n].coords
  BY <1>2, <1>3 DEF SaveType, CubitType
<1> HIDE DEF t
<1>5. hosted \subseteq Picture /\ s.urls \subseteq hosted
  BY DEF Inv, Typed, DataTyped, Hosted
<1>6. /\ torn \subseteq torn'
      /\ t.address = t.coords \/ <<t.address, t.coords>> \in torn'
  <2>1. Known(cubit[s.n].address, cubit[s.n].coords)
    BY <1>2 DEF Inv, PlacesRead, FormsKnown, SaveType
  <2>2. CASE s.address = cubit[s.n].address
    BY <1>1, <1>4, <2>1, <2>2 DEF Tears, Known
  <2>3. CASE s.address # cubit[s.n].address
    BY <1>1, <1>4, <2>3 DEF Tears, Known
  <2> QED
    BY <2>2, <2>3
<1>7. /\ hosted' = hosted
      /\ UNCHANGED <<formVars, server, realm, snapshots, deletes, crossed,
                     acks, presses, made, excused>>
  BY <1>1 DEF dataVars
<1> QED
  BY <1>1, <1>4, <1>5, <1>6, <1>7, SaveGoesOn

\* What the end of a save leaves in order, failed or not: the progress of its
\* editor ends with it, or the editor is gone.
LEMMA SaveEnds ==
    ASSUME Inv, NEW s \in saves, Ends(s), Idle(s.n),
           UNCHANGED <<visit, used, hosted, torn>>,
           top' \in {"list", "editor", "search"}, top = "list" => top' = "list",
           picks' \subseteq picks
    PROVE  /\ FormTyped' /\ OneSave' /\ FormsKnown'
           /\ saves' \subseteq SaveType /\ s \in SaveType
           /\ \A n \in Editor : Remote(cubit'[n].tiles) \subseteq hosted'
           /\ \A t \in saves' : t.urls \subseteq hosted'
           /\ \A n \in Editor : n # s.n /\ MayCreate(n)' => MayCreate(n)
           /\ MayCreate(s.n)' => top' # "list" /\ s.n = visit
<1> DEFINE c == IF top' # "list" /\ s.n = visit
                THEN [cubit[s.n] EXCEPT !.loading = FALSE] ELSE Closed
<1>1. /\ saves' = saves \ {s} /\ cubit' = [cubit EXCEPT ![s.n] = c]
      /\ visit' = visit
  BY DEF Ends, Idle
<1>2. s \in SaveType /\ saves' \subseteq SaveType /\ s.n \in Editor
  BY <1>1 DEF Inv, Typed, SavesTyped, SaveType
<1>3. cubit \in [Editor -> CubitType] /\ cubit[s.n] \in CubitType
  BY <1>2 DEF Inv, Typed, FormTyped
<1>4. /\ c \in CubitType /\ c.loading = FALSE
      /\ Remote(c.tiles) \subseteq hosted
  <2>1. CASE top' # "list" /\ s.n = visit
    <3>1. c = [cubit[s.n] EXCEPT !.loading = FALSE]
      BY <2>1
    <3>2. c \in CubitType /\ c.loading = FALSE /\ c.tiles = cubit[s.n].tiles
      BY <3>1, <1>3 DEF CubitType
    <3> QED
      BY <1>2, <3>2 DEF Inv, Hosted
  <2>2. CASE ~(top' # "list" /\ s.n = visit)
    BY <2>2, HomeAssumption DEF Closed, CubitType, Remote
  <2> QED
    BY <2>1, <2>2
<1> HIDE DEF c
<1>5. \A n \in Editor : cubit'[n] = IF n = s.n THEN c ELSE cubit[n]
  BY <1>1, <1>3
<1>6. FormTyped'
  BY <1>1, <1>2, <1>3, <1>4 DEF Inv, Typed, FormTyped
<1>7. \A t \in saves' : t \in saves /\ t.n # s.n
  BY <1>1 DEF Inv, OneSave
<1>8. OneSave'
  <2>1. \A n \in Editor : cubit'[n].loading <=> \E t \in saves' : t.n = n
    BY <1>1, <1>4, <1>5, <1>7 DEF Inv, OneSave
  <2> QED
    BY <1>1, <1>7, <2>1 DEF Inv, OneSave
<1>9. FormsKnown'
  <2>1. \A n \in Editor : Known(cubit[n].address, cubit[n].coords)
    BY DEF Inv, PlacesRead, FormsKnown
  <2>2. Known(c.address, c.coords)
    BY <1>2, <1>3, <2>1 DEF c, Closed, Known, CubitType
  <2>3. \A n \in Editor : Known(cubit'[n].address, cubit'[n].coords)
    BY <1>5, <2>1, <2>2
  <2> QED
    BY <1>7, <2>3 DEF Inv, PlacesRead, FormsKnown, Known
<1>10. /\ \A n \in Editor : Remote(cubit'[n].tiles) \subseteq hosted'
       /\ \A t \in saves' : t.urls \subseteq hosted'
  BY <1>4, <1>5, <1>7 DEF Inv, Hosted
<1>11. \A n \in Editor : n # s.n /\ MayCreate(n)' => MayCreate(n)
  BY <1>1 DEF MayCreate, Shows
<1>12. MayCreate(s.n)' => top' # "list" /\ s.n = visit
  BY <1>1, <1>2, <1>7 DEF MayCreate, Shows, Inv, OneSave, Editor, Typed, FormTyped
<1> QED
  BY <1>2, <1>6, <1>8, <1>9, <1>10, <1>11, <1>12

\* A save fails before its write was taken.
LEMMA SaveFailsInv ==
    ASSUME Inv, NEW s \in saves, SaveFails(s)
    PROVE  Inv'
<1>1. /\ Ends(s) /\ Idle(s.n) /\ top' = top /\ picks' = picks /\ s.at # "store"
      /\ UNCHANGED <<visit, used, dataVars, acks, presses, made, excused, torn>>
  BY DEF SaveFails
<1>2. /\ hosted' = hosted /\ top \in {"list", "editor", "search"}
      /\ saves' = saves \ {s}
  BY <1>1 DEF dataVars, Inv, Typed, FormTyped, Ends
<1>3. /\ FormTyped' /\ OneSave' /\ FormsKnown' /\ saves' \subseteq SaveType /\ s \in SaveType
      /\ \A n \in Editor : Remote(cubit'[n].tiles) \subseteq hosted'
      /\ \A t \in saves' : t.urls \subseteq hosted'
      /\ \A n \in Editor : n # s.n /\ MayCreate(n)' => MayCreate(n)
      /\ MayCreate(s.n)' => top' # "list" /\ s.n = visit
  BY <1>1, <1>2, SaveEnds
<1>4. Typed'
  BY <1>1, <1>2, <1>3 DEF Inv, Typed, DataTyped, SavesTyped, dataVars
<1>5. AcksCounted'
  <2>1. StoreSaves' = StoreSaves
    BY <1>1, <1>2 DEF StoreSaves
  <2> QED
    BY <1>1, <2>1 DEF Inv, AcksCounted
<1>6. Hosted'
  BY <1>1, <1>3 DEF Inv, Hosted, PicturesHosted, dataVars
<1>7. Budget'
  <2>1. MayCreate(s.n)
    BY <1>1 DEF MayCreate, Inv, OneSave
  <2> QED
    BY <1>1, <1>3, <2>1 DEF Inv, Budget, OnePostingPerEditor
<1>8. StoringMatches' /\ Mirrored'
  BY <1>1, <1>2 DEF Inv, StoringMatches, Mirrored, dataVars
<1>9. PlacesRead'
  BY <1>1, <1>3 DEF Inv, PlacesRead, DocsKnown, Known, dataVars
<1> QED
  BY <1>3, <1>4, <1>5, <1>6, <1>7, <1>8, <1>9 DEF Inv

\* The acknowledgement of a write is the first of those awaited.
LEMMA AckEnds ==
    ASSUME Inv, NEW s \in saves, s.at = "store", Ends(s), acks' = Tail(acks)
    PROVE  acks' \in Seq(Nat) /\ AcksCounted'
<1>1. StoreSaves' = StoreSaves \ {s} /\ s \in StoreSaves
  BY DEF Ends, StoreSaves
<1>2. /\ IsFiniteSet(StoreSaves') /\ Cardinality(StoreSaves') = Cardinality(StoreSaves) - 1
      /\ Cardinality(StoreSaves) \in Nat /\ Cardinality(StoreSaves') \in Nat
  BY <1>1, FS_RemoveElement, FS_CardinalityType DEF Inv, AcksCounted
<1>3. acks \in Seq(Nat) /\ acks # <<>>
  BY <1>2 DEF Inv, AcksCounted, Typed, SavesTyped
<1> QED
  BY <1>2, <1>3 DEF Inv, AcksCounted

\* A document whose pictures are taken away.
LEMMA WithoutPictures ==
    ASSUME NEW d \in Document
    PROVE  [d EXCEPT !.pictures = {}] =
              [there |-> d.there, pictures |-> {}, address |-> d.address, coords |-> d.coords]
BY DEF Document

\* A save succeeds, the copy stored or left as it is, and a screen is popped.
LEMMA SucceedsInv ==
    ASSUME Inv, NEW s \in saves, Acknowledged(s), Succeeds(s),
           NEW d \in {Copy(s), realm[s.to]}, realm' = [realm EXCEPT ![s.to] = d],
           UNCHANGED <<visit, used, server, snapshots, hosted, deletes, crossed, torn,
                       presses, made>>
    PROVE  Inv'
<1>1. /\ Ends(s) /\ Idle(s.n) /\ s.at = "store" /\ acks' = Tail(acks)
      /\ top' = IF ~Shows(s.n) THEN top ELSE IF top = "search" THEN "editor" ELSE "list"
      /\ picks' = IF top' = "list" THEN {} ELSE picks
      /\ excused' = IF Shows(s.n) /\ top = "search"
                    THEN [excused EXCEPT ![s.n] = @ + 1] ELSE excused
  BY DEF Acknowledged, Succeeds
<1>2. /\ top' \in {"list", "editor", "search"}
      /\ top = "list" => top' = "list"
      /\ picks' \subseteq picks /\ saves' = saves \ {s}
  BY <1>1 DEF Inv, Typed, FormTyped, Ends, Shows
<1>3. /\ FormTyped' /\ OneSave' /\ FormsKnown' /\ saves' \subseteq SaveType /\ s \in SaveType
      /\ \A n \in Editor : Remote(cubit'[n].tiles) \subseteq hosted'
      /\ \A t \in saves' : t.urls \subseteq hosted'
      /\ \A n \in Editor : n # s.n /\ MayCreate(n)' => MayCreate(n)
      /\ MayCreate(s.n)' => top' # "list" /\ s.n = visit
  BY <1>1, <1>2, SaveEnds
<1>4. acks' \in Seq(Nat) /\ AcksCounted'
  BY <1>1, AckEnds
<1>5. s.to \in Posting /\ s.n \in Editor
  BY <1>1, <1>3 DEF Inv, Typed, SavesTyped, SaveType
<1>6. /\ Copy(s) \in Document /\ Copy(s).pictures = s.urls /\ Copy(s).there = TRUE
      /\ Copy(s).address = s.address /\ Copy(s).coords = s.coords
  BY <1>3 DEF Copy, Doc, Document, SaveType
<1>7. /\ realm' \in [Posting -> Document]
      /\ \A p \in Posting : realm'[p] = IF p = s.to THEN d ELSE realm[p]
      /\ d = Copy(s) \/ d = realm[s.to]
  BY <1>5, <1>6 DEF Inv, Typed, DataTyped
<1>8. /\ excused' \in [Editor -> Nat]
      /\ \A n \in Editor : excused'[n] = IF n = s.n /\ Shows(s.n) /\ top = "search"
                                         THEN excused[n] + 1 ELSE excused[n]
  BY <1>1, <1>5 DEF Inv, Typed, SavesTyped
<1>9. Typed'
  BY <1>1, <1>2, <1>3, <1>4, <1>7, <1>8 DEF Inv, Typed, DataTyped, SavesTyped
<1>10. Hosted'
  BY <1>1, <1>3, <1>6, <1>7 DEF Inv, Hosted, PicturesHosted
<1>11. Budget'
  <2>1. \A n \in Editor : made[n] \in Nat /\ excused[n] \in Nat /\ made[n] <= 1 + excused[n]
    BY DEF Inv, Typed, SavesTyped, Budget, OnePostingPerEditor
  <2>2. MayCreate(s.n)' => Shows(s.n) /\ top = "search"
    BY <1>1, <1>3 DEF Shows
  <2>3. \A n \in Editor : n # s.n /\ MayCreate(n)' => made[n] <= excused[n]
    BY <1>3 DEF Inv, Budget
  <2>4. OnePostingPerEditor'
    BY <1>1, <1>8, <2>1 DEF OnePostingPerEditor
  <2>5. ASSUME NEW n \in Editor, MayCreate(n)' PROVE made'[n] <= excused'[n]
    BY <1>1, <1>8, <2>1, <2>2, <2>3, <2>5
  <2> QED
    BY <2>4, <2>5 DEF Budget
<1>12. StoringMatches'
  BY <1>1, <1>2 DEF Inv, StoringMatches
<1>13. Mirrored'
  <2> SUFFICES ASSUME NEW p \in Posting \ (snapshots \union crossed)
               PROVE  realm'[p] \in {server[p], [server[p] EXCEPT !.pictures = {}]}
    BY <1>1 DEF Mirrored
  <2>1. CASE p # s.to \/ d = realm[s.to]
    BY <2>1, <1>7 DEF Inv, Mirrored
  <2>2. CASE p = s.to /\ d = Copy(s)
    <3>1. Matches(s, server[p]) /\ server[p] \in Document
      BY <1>1, <2>2 DEF Inv, StoringMatches, Typed, DataTyped
    <3>2. CASE s.urls = server[p].pictures
      <4>1. server[p] = Copy(s)
        BY <3>1, <3>2 DEF Matches, Document, Copy, Doc
      <4> QED
        BY <1>7, <2>2, <4>1
    <3>3. CASE s.urls = {}
      <4>1. [server[p] EXCEPT !.pictures = {}] = Copy(s)
        BY <3>1, <3>3, WithoutPictures DEF Matches, Copy, Doc
      <4> QED
        BY <1>7, <2>2, <4>1
    <3> QED
      BY <3>1, <3>2, <3>3 DEF Matches
  <2> QED
    BY <1>7, <2>1, <2>2
<1>14. PlacesRead'
  <2>1. /\ Known(s.address, s.coords) /\ DocsKnown
    BY <1>1 DEF Inv, PlacesRead, FormsKnown
  <2>2. Known(d.address, d.coords)
    BY <1>5, <1>6, <1>7, <2>1 DEF DocsKnown
  <2> QED
    BY <1>3, <1>7, <2>1, <2>2 DEF PlacesRead, DocsKnown, Known
<1> QED
  BY <1>3, <1>4, <1>9, <1>10, <1>11, <1>12, <1>13, <1>14 DEF Inv

\* The copy is stored.
LEMMA SavedInv ==
    ASSUME Inv, NEW s \in saves, Saved(s)
    PROVE  Inv'
BY SucceedsInv DEF Saved

\* The copy cannot be stored.
LEMMA StoreFailsInv ==
    ASSUME Inv, NEW s \in saves, StoreFails(s)
    PROVE  Inv'
<1>s. CASE realm[s.to].there /\ Succeeds(s)
  <2>1. s.to \in Posting /\ realm \in [Posting -> Document]
    BY DEF StoreFails, Acknowledged, Inv, Typed, SavesTyped, DataTyped
  <2>2. realm' = [realm EXCEPT ![s.to] = realm[s.to]]
    BY <2>1 DEF StoreFails, dataVars
  <2> QED
    BY <1>s, <2>2, SucceedsInv DEF StoreFails, dataVars
<1> SUFFICES ASSUME ~(realm[s.to].there /\ Succeeds(s)) PROVE Inv'
  BY <1>s
<1>1. /\ Ends(s) /\ Idle(s.n) /\ s.at = "store" /\ acks' = Tail(acks)
      /\ top' = top /\ picks' = picks
      /\ excused' = [excused EXCEPT ![s.n] = @ + 1]
      /\ UNCHANGED <<visit, used, dataVars, presses, made, torn>>
  BY DEF StoreFails, Acknowledged
<1>2. /\ top' \in {"list", "editor", "search"} /\ saves' = saves \ {s} /\ hosted' = hosted
  BY <1>1 DEF Inv, Typed, FormTyped, Ends, dataVars
<1>3. /\ FormTyped' /\ OneSave' /\ FormsKnown' /\ saves' \subseteq SaveType /\ s \in SaveType
      /\ \A n \in Editor : Remote(cubit'[n].tiles) \subseteq hosted'
      /\ \A t \in saves' : t.urls \subseteq hosted'
      /\ \A n \in Editor : n # s.n /\ MayCreate(n)' => MayCreate(n)
  BY <1>1, <1>2, SaveEnds
<1>4. acks' \in Seq(Nat) /\ AcksCounted'
  BY <1>1, AckEnds
<1>5. s.n \in Editor
  BY <1>3 DEF SaveType
<1>6. /\ excused' \in [Editor -> Nat]
      /\ \A n \in Editor : excused'[n] = IF n = s.n THEN excused[n] + 1 ELSE excused[n]
  BY <1>1, <1>5 DEF Inv, Typed, SavesTyped
<1>7. Typed'
  BY <1>1, <1>2, <1>3, <1>4, <1>6 DEF Inv, Typed, DataTyped, SavesTyped, dataVars
<1>8. Hosted'
  BY <1>1, <1>3 DEF Inv, Hosted, PicturesHosted, dataVars
<1>9. Budget'
  <2>1. \A n \in Editor : made[n] \in Nat /\ excused[n] \in Nat /\ made[n] <= 1 + excused[n]
    BY DEF Inv, Typed, SavesTyped, Budget, OnePostingPerEditor
  <2>2. \A n \in Editor : n # s.n /\ MayCreate(n)' => made[n] <= excused[n]
    BY <1>3 DEF Inv, Budget
  <2>3. OnePostingPerEditor'
    BY <1>1, <1>6, <2>1 DEF OnePostingPerEditor
  <2>4. ASSUME NEW n \in Editor, MayCreate(n)' PROVE made'[n] <= excused'[n]
    BY <1>1, <1>6, <2>1, <2>2, <2>4
  <2> QED
    BY <2>3, <2>4 DEF Budget
<1>10. StoringMatches' /\ Mirrored'
  BY <1>1, <1>2 DEF Inv, StoringMatches, Mirrored, dataVars
<1>11. PlacesRead'
  BY <1>1, <1>3 DEF Inv, PlacesRead, DocsKnown, Known, dataVars
<1> QED
  BY <1>3, <1>4, <1>7, <1>8, <1>9, <1>10, <1>11 DEF Inv

\* Firestore takes the write; the listener stores the document at once.
LEMMA CommitsInv ==
    ASSUME Inv, NEW s \in saves, NEW p \in Posting, Commits(s, p)
    PROVE  Inv'
<1> DEFINE d == Doc(IF s.urls = {} THEN server[p].pictures ELSE s.urls, s.address, s.coords)
           t == [s EXCEPT !.at = "store", !.to = p]
<1>1. /\ s.at = "write" /\ server' = [server EXCEPT ![p] = d]
      /\ realm' = [realm EXCEPT ![p] = server'[p]]
      /\ made' = IF s.to = NoPosting THEN [made EXCEPT ![s.n] = @ + 1] ELSE made
      /\ crossed' = IF Storing(p) THEN crossed \union {p} ELSE crossed
      /\ saves' = (saves \ {s}) \union {t} /\ acks' = Append(acks, s.id)
      /\ UNCHANGED <<cubit, visit, top, picks, used, snapshots, hosted, deletes,
                     presses, excused, torn>>
  BY DEF Commits, Becomes, formVars
<1>2. s \in SaveType /\ s.n \in Editor /\ s.id \in Nat /\ server[p] \in Document
  BY DEF Inv, Typed, SavesTyped, DataTyped, SaveType
<1>3. /\ t \in SaveType /\ t.at = "store" /\ t.to = p /\ t.n = s.n
      /\ t.urls = s.urls /\ t.address = s.address /\ t.coords = s.coords
  BY <1>2 DEF SaveType
<1>4. /\ d \in Document /\ Matches(t, d) /\ d.address = s.address /\ d.coords = s.coords
      /\ d.pictures \subseteq s.urls \union server[p].pictures
  BY <1>2, <1>3 DEF Doc, Document, SaveType, Matches
<1> HIDE DEF d, t
<1>5. /\ server' \in [Posting -> Document] /\ realm' \in [Posting -> Document]
      /\ \A q \in Posting : server'[q] = IF q = p THEN d ELSE server[q]
      /\ \A q \in Posting : realm'[q] = IF q = p THEN d ELSE realm[q]
  BY <1>1, <1>4 DEF Inv, Typed, DataTyped
<1>6. /\ made' \in [Editor -> Nat]
      /\ \A n \in Editor : made'[n] = IF n = s.n /\ s.to = NoPosting THEN made[n] + 1
                                      ELSE made[n]
  BY <1>1, <1>2 DEF Inv, Typed, SavesTyped
<1>7. acks \in Seq(Nat) /\ acks' \in Seq(Nat) /\ Len(acks') = Len(acks) + 1
  BY <1>1, <1>2 DEF Inv, Typed, SavesTyped
<1>8. Typed'
  BY <1>1, <1>3, <1>5, <1>6, <1>7 DEF Inv, Typed, FormTyped, DataTyped, SavesTyped
<1>9. \A u \in saves' : u # t => u \in saves /\ u.n # s.n
  BY <1>1 DEF Inv, OneSave
<1>10. OneSave'
  BY <1>1, <1>3 DEF Inv, OneSave
<1>11. AcksCounted'
  <2>1. t \notin StoreSaves
    BY <1>1, <1>3 DEF StoreSaves, Inv, OneSave
  <2>2. StoreSaves' = StoreSaves \union {t}
    BY <1>1, <1>3 DEF StoreSaves
  <2>3. IsFiniteSet(StoreSaves) /\ Cardinality(StoreSaves) = Len(acks)
    BY DEF Inv, AcksCounted
  <2>4. IsFiniteSet(StoreSaves') /\ Cardinality(StoreSaves') = Cardinality(StoreSaves) + 1
    BY <2>1, <2>2, <2>3, FS_AddElement
  <2> QED
    BY <1>7, <2>3, <2>4 DEF AcksCounted
<1>12. Hosted'
  <2>1. s.urls \subseteq hosted /\ d.pictures \subseteq hosted
    BY <1>4 DEF Inv, Hosted, PicturesHosted
  <2> QED
    BY <1>1, <1>3, <1>5, <2>1 DEF Inv, Hosted, PicturesHosted
<1>13. PlacesRead'
  <2>1. Known(s.address, s.coords) /\ DocsKnown /\ FormsKnown
    BY <1>1 DEF Inv, PlacesRead, FormsKnown
  <2>2. DocsKnown'
    BY <1>1, <1>4, <1>5, <2>1 DEF DocsKnown, Known
  <2>3. FormsKnown'
    BY <1>1, <1>3, <1>9, <2>1 DEF FormsKnown, Known
  <2> QED
    BY <2>2, <2>3 DEF PlacesRead
<1>14. Budget'
  <2>1. MayCreate(s.n)
    BY <1>1 DEF MayCreate, Inv, OneSave
  <2>2. \A n \in Editor : MayCreate(n)' => n # s.n /\ MayCreate(n)
    BY <1>1, <1>3, <1>9 DEF MayCreate, Shows
  <2>3. \A n \in Editor : made[n] \in Nat /\ excused[n] \in Nat
    BY DEF Inv, Typed, SavesTyped
  <2>4. OnePostingPerEditor'
    BY <1>1, <1>2, <1>6, <2>1, <2>3 DEF Inv, Budget, OnePostingPerEditor
  <2>5. \A n \in Editor : MayCreate(n)' => made'[n] <= excused'[n]
    BY <1>1, <1>6, <2>2 DEF Inv, Budget
  <2> QED
    BY <2>4, <2>5 DEF Budget
<1>15. StoringMatches'
  <2>1. \A u \in saves' : u # t /\ u.at = "store" /\ u.to = p => p \in crossed'
    BY <1>1, <1>9 DEF Storing
  <2>2. crossed \subseteq crossed'
    BY <1>1
  <2>3. \A u \in saves' : u.at = "store" => u.to \in Posting
    BY <1>8 DEF Typed, SavesTyped
  <2>4. ASSUME NEW u \in saves', u.at = "store", u.to \notin crossed'
        PROVE  Matches(u, server'[u.to])
    <3>1. CASE u = t
      BY <1>3, <1>4, <1>5, <3>1
    <3>2. CASE u # t
      BY <1>5, <1>9, <2>1, <2>2, <2>3, <2>4, <3>2 DEF Inv, StoringMatches
    <3> QED
      BY <3>1, <3>2
  <2>5. ASSUME NEW u \in saves', NEW w \in saves', u.at = "store", w.at = "store",
               u.to = w.to, u # w
        PROVE  u.to \in crossed'
    BY <1>3, <1>9, <2>1, <2>2, <2>5 DEF Inv, StoringMatches
  <2> QED
    BY <2>4, <2>5 DEF StoringMatches
<1>16. Mirrored'
  <2> SUFFICES ASSUME NEW q \in Posting \ (snapshots \union crossed')
               PROVE  realm'[q] \in {server'[q], [server'[q] EXCEPT !.pictures = {}]}
    BY <1>1 DEF Mirrored
  <2>1. q \notin crossed
    BY <1>1
  <2> QED
    BY <1>5, <2>1 DEF Inv, Mirrored
<1> QED
  BY <1>8, <1>10, <1>11, <1>12, <1>13, <1>14, <1>15, <1>16 DEF Inv

\* MyPostings hears of a posting; an editor of a deleted one has no posting.
LEMMA SnapshotInv ==
    ASSUME Inv, NEW p \in Posting, Snapshot(p)
    PROVE  Inv'
<1>1. /\ snapshots' = snapshots \ {p} /\ realm' = [realm EXCEPT ![p] = server[p]]
      /\ crossed' = IF Storing(p) THEN crossed ELSE crossed \ {p}
      /\ UNCHANGED <<visit, top, picks, used, server, hosted, deletes, saves, acks,
                     presses, made, excused, torn>>
  BY DEF Snapshot, saveVars
<1>2. /\ cubit' \in [Editor -> CubitType]
      /\ \A n \in Editor : /\ cubit'[n].tiles = cubit[n].tiles
                           /\ cubit'[n].address = cubit[n].address
                           /\ cubit'[n].coords = cubit[n].coords
                           /\ cubit'[n].loading = cubit[n].loading
  <2> DEFINE f(n) == IF cubit[n].target = p /\ ~server[p].there
                     THEN [cubit[n] EXCEPT !.target = NoPosting] ELSE cubit[n]
  <2>1. \A n \in Editor : cubit[n] \in CubitType
    BY DEF Inv, Typed, FormTyped
  <2>2. \A n \in Editor : f(n) \in CubitType /\ f(n).tiles = cubit[n].tiles
                             /\ f(n).address = cubit[n].address
                             /\ f(n).coords = cubit[n].coords /\ f(n).loading = cubit[n].loading
    BY <2>1 DEF CubitType
  <2>3. cubit' = [n \in Editor |-> f(n)]
    BY DEF Snapshot
  <2> HIDE DEF f
  <2> QED
    BY <2>2, <2>3
<1>3. /\ realm' \in [Posting -> Document]
      /\ \A q \in Posting : realm'[q] = IF q = p THEN server[q] ELSE realm[q]
  BY <1>1 DEF Inv, Typed, DataTyped
<1>4. Typed'
  BY <1>1, <1>2, <1>3 DEF Inv, Typed, FormTyped, DataTyped, SavesTyped
<1>5. OneSave'
  BY <1>1, <1>2 DEF Inv, OneSave
<1>6. AcksCounted'
  BY <1>1 DEF Inv, AcksCounted, StoreSaves
<1>7. Hosted'
  BY <1>1, <1>2, <1>3 DEF Inv, Hosted, PicturesHosted
<1>8. PlacesRead'
  <2>1. DocsKnown'
    BY <1>1, <1>3 DEF Inv, PlacesRead, DocsKnown, Known
  <2>2. FormsKnown'
    BY <1>1, <1>2 DEF Inv, PlacesRead, FormsKnown, Known
  <2> QED
    BY <2>1, <2>2 DEF PlacesRead
<1>9. Budget'
  BY <1>1 DEF Inv, Budget, OnePostingPerEditor, MayCreate, Shows
<1>10. \A s \in saves : s.at = "store" /\ s.to \notin crossed' => s.to \notin crossed
  BY <1>1 DEF Storing
<1>11. StoringMatches'
  BY <1>1, <1>10 DEF Inv, StoringMatches
<1>12. Mirrored'
  BY <1>1, <1>3 DEF Inv, Mirrored
<1> QED
  BY <1>4, <1>5, <1>6, <1>7, <1>8, <1>9, <1>11, <1>12 DEF Inv

\* A deletion elsewhere will be heard of, and crosses a save being stored.
LEMMA OtherDeletesInv ==
    ASSUME Inv, NEW p \in Posting, OtherDeletes(p)
    PROVE  Inv'
<1>1. /\ server' = [server EXCEPT ![p] = NoDoc] /\ snapshots' = snapshots \union {p}
      /\ crossed' = IF Storing(p) THEN crossed \union {p} ELSE crossed
      /\ deletes < MaxDeletes /\ deletes' = deletes + 1
      /\ UNCHANGED <<cubit, visit, top, picks, used, realm, hosted, saves, acks,
                     presses, made, excused, torn>>
  BY DEF OtherDeletes, formVars, saveVars
<1>2. NoDoc \in Document /\ NoDoc.pictures = {} /\ NoDoc.address = NoDoc.coords
  BY HomeAssumption DEF NoDoc, Document
<1>3. /\ server' \in [Posting -> Document]
      /\ \A q \in Posting : server'[q] = IF q = p THEN NoDoc ELSE server[q]
  BY <1>1, <1>2 DEF Inv, Typed, DataTyped
<1>4. deletes' \in 0..MaxDeletes
  BY <1>1, BoundAssumption DEF Inv, Typed, DataTyped
<1>5. Typed'
  BY <1>1, <1>3, <1>4 DEF Inv, Typed, FormTyped, DataTyped, SavesTyped
<1>6. OneSave' /\ AcksCounted'
  BY <1>1 DEF Inv, OneSave, AcksCounted, StoreSaves
<1>12. PlacesRead'
  BY <1>1, <1>2, <1>3 DEF Inv, PlacesRead, DocsKnown, FormsKnown, Known
<1>7. Hosted'
  BY <1>1, <1>2, <1>3 DEF Inv, Hosted, PicturesHosted
<1>8. Budget'
  BY <1>1 DEF Inv, Budget, OnePostingPerEditor, MayCreate, Shows
<1>9. \A s \in saves : s.at = "store" /\ s.to \notin crossed' =>
         s.to \notin crossed /\ s.to # p /\ s.to \in Posting
  BY <1>1 DEF Storing, Inv, Typed, SavesTyped
<1>10. StoringMatches'
  BY <1>1, <1>3, <1>9 DEF Inv, StoringMatches
<1>11. Mirrored'
  BY <1>1, <1>3 DEF Inv, Mirrored
<1> QED
  BY <1>5, <1>6, <1>7, <1>8, <1>10, <1>11, <1>12 DEF Inv

\* Every step of a save keeps the invariant.
LEMMA SaveStepInv ==
    ASSUME Inv, NEW s \in saves, SaveStep(s)
    PROVE  Inv'
<1>1. ASSUME NEW x \in s.left, Uploaded(s, x, {x}) PROVE Inv'
  <2>1. {x} \in SUBSET {x}
    OBVIOUS
  <2> QED
    BY <1>1, <2>1, UploadedInv
<1>2. ASSUME NEW x \in s.left, Uploaded(s, x, {}) PROVE Inv'
  <2>1. {} \in SUBSET {x}
    OBVIOUS
  <2> QED
    BY <1>2, <2>1, UploadedInv
<1> QED
  BY <1>1, <1>2, UserIdReturnsInv, SaveFailsInv, CommitsInv, SavedInv, StoreFailsInv
     DEF SaveStep

\* Every step of the host, the editors, the listener and other clients does.
LEMMA NextInv ==
    ASSUME Inv, [Next]_vars
    PROVE  Inv'
<1>1. CASE UNCHANGED vars
  <2>1. UNCHANGED <<dataVars, saveVars>> /\ UNCHANGED <<cubit, visit, top, picks, used>>
    BY <1>1 DEF vars, dataVars, saveVars
  <2>2. FormTyped' /\ visit <= visit' /\ \A n \in Editor : Shows(n)' => Shows(n)
    BY <2>1 DEF Inv, Typed, FormTyped, Shows
  <2> QED
    BY <2>1, <2>2, FormStep DEF Inv, Hosted, PlacesRead, FormsKnown
<1>2. ASSUME NEW n \in Editor, SaveOf(n) PROVE Inv'
  BY <1>2, SaveStepInv DEF SaveOf
<1> QED
  BY <1>1, <1>2, OpenEditorInv, LeaveEditorInv, PressSaveInv, UpdatePlaceInv,
     ImageSelectedInv, BesideCubitInv, SnapshotInv, OtherDeletesInv DEF Next

\* The invariant holds of every behaviour.
LEMMA AlwaysInv == Spec => []Inv
<1> QED
  BY InitInv, NextInv, PTL DEF Spec

\* Types; an editor shows progress exactly while a save of it is under way, and
\* every committed save awaits one acknowledgement.
THEOREM TypeCorrect == Spec => []TypeOK
<1>1. Inv => TypeOK
  <2> SUFFICES ASSUME Inv PROVE TypeOK
    OBVIOUS
  <2>1. \A p \in Posting : server[p] \in Document /\ realm[p] \in Document
    BY DEF Inv, Typed, DataTyped
  <2>2. \A p \in Posting : /\ {server[p].pictures, realm[p].pictures} \subseteq SUBSET Picture
                           /\ {server[p].address, server[p].coords} \subseteq Place
    BY <2>1 DEF Document
  <2>3. Len(acks) = Cardinality({s \in saves : s.at = "store"})
    BY DEF Inv, AcksCounted, StoreSaves
  <2> QED
    BY <2>2, <2>3 DEF TypeOK, Inv, Typed, FormTyped, DataTyped, SavesTyped, OneSave
<1> QED
  BY <1>1, AlwaysInv, PTL

\* A stored posting never shows a picture that was not uploaded, whatever is
\* refused, picked or edited while a save is under way.
THEOREM StoredPicturesHosted == Spec => []PicturesHosted
<1>1. Inv => PicturesHosted
  BY DEF Inv, Hosted
<1> QED
  BY <1>1, AlwaysInv, PTL

\* However often an editor is saved, left or popped, it creates one posting, and
\* one more only after a save that wrote and left it open.
THEOREM CreatesOnce == Spec => []OnePostingPerEditor
<1>1. Inv => OnePostingPerEditor
  BY DEF Inv, Budget
<1> QED
  BY <1>1, AlwaysInv, PTL

\* The copies of createPosting and those of the listener leave Realm with what
\* the server has, in whichever order they come, unless writes crossed.
THEOREM CopiesAlwaysAgree == Spec => []CopiesAgree
<1>1. Inv => CopiesAgree
  BY DEF Inv, Mirrored, CopiesAgree
<1> QED
  BY <1>1, AlwaysInv, PTL

\* A posting whose coordinates are not those of its address, on the server or in
\* Realm, goes back to a save between whose two reads the place was changed,
\* however often it was opened, edited and saved since.
THEOREM PlacesMatch == Spec => []PlaceMatchesCoords
<1>1. Inv => PlaceMatchesCoords
  BY DEF Inv, PlacesRead, DocsKnown, Known, PlaceMatchesCoords
<1> QED
  BY <1>1, AlwaysInv, PTL
=============================================================================
