CONSTANTS
    Type = {"User", "Posting", "Booking", "FavouritePosting", "Message", "Review", "Conversation"}
    Id = {i1, i2}
    NoId = NoId
    MaxObjects = 3
SPECIFICATION Spec
CONSTRAINT StoreBound
SYMMETRY Symmetry
INVARIANTS TypeOK LinkIntegrity
PROPERTY ImplementsObjectGraph
CHECK_DEADLOCK TRUE
