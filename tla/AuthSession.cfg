CONSTANTS
    User = {u1, u2}
    Nobody = Nobody
    Flow = {f1, f2}
    MaxFlows = 3
    MaxReads = 2
SPECIFICATION Spec
INVARIANTS TypeOK CachesAgree GuardedRoutes FirebaseMatches RestartsAsSameUser
PROPERTY SignedOutLeaves
CHECK_DEADLOCK FALSE
