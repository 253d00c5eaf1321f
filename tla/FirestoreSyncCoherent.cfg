CONSTANTS
    Doc = {1}
    fieldA = fieldA  fieldB = fieldB
    valueA = valueA  valueB = valueB
    Field = {fieldA, fieldB}
    Value = {valueA, valueB}
    NoValue = NoValue
    Absent = Absent
    Key <- SharedKeys
    NoSub = NoSub
    Observer = {o1, o2}
    NoKey = NoKey
    Data <- NewDocuments
    Patch <- AllPatches
    SignOut = {s1, s2}
    MaxOps = 4
SPECIFICATION Spec
INVARIANTS TypeOK SubscriptionsReachable ObservedCoherent
PROPERTIES WipeSparesOnlyLate TeardownFinishes Converges
CHECK_DEADLOCK FALSE
