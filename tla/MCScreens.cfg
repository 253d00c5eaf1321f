CONSTANTS
    Offer = {p1}
    Word = {"Barn", "barge"}
    Text = {"", "Ba", "r"}
    EmptyText = ""
    Rank <- MCRank
    RankEnd <- MCRankEnd
    Contains <- MCContains
    NoText = NoText
    MaxSearches = 2
    MaxChanges = 1
    Row = {1, 2}
    LastTime = 2
    OpenTime = 1
    ReviewLimit = 1
    MaxRowChanges = 1
    MaxVisits = 2
    MaxCalls = 2
    NoPosting = NoPosting
CHECK_DEADLOCK FALSE
SPECIFICATION Spec
INVARIANTS TypeOK LatestShown ListCurrent EveryTripOnce OrphansWereLate HeartEarned SelectionListed
PROPERTIES SearchComplete ProgressEnds
