CONSTANTS
    Doc = {1}
    fieldA = fieldA  fieldB = fieldB
    valueA = valueA  valueB = valueB
    Field = {fieldA, fieldB}
    Value = {valueA, valueB}
    NoValue = NoValue
    Absent = Absent
    Key <- UserOnly
    NoSub = NoSub
    Observer = {o1, o2}
    NoKey = NoKey
    Data <- NewDocuments
    Patch <- PartialPatches
    SignOut = {}
    MaxOps = 3
SPECIFICATION Spec
INVARIANT ListenerUpdatesRealm
CHECK_DEADLOCK FALSE
