CONSTANTS
    Posting = {1, 2, 3}
    NoPosting = NoPosting
    Listed = {1}
    Picture = {1, 2}
    Place = {home, away}
    Home = home
    Plus = Plus
    MaxEditors = 2
    MaxPresses = 2
    MaxDeletes = 1
CHECK_DEADLOCK FALSE
SPECIFICATION Spec
INVARIANTS TypeOK PicturesHosted OnePostingPerEditor PlaceMatchesCoords CopiesAgree
PROPERTIES EditorSpinnerEnds
