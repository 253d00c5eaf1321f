CONSTANTS
    Doc = {1}
    fieldA = fieldA  fieldB = fieldB
    valueA = valueA  valueB = valueB
    Field = {fieldA, fieldB}
    Value = {valueA, valueB}
    NoValue = NoValue
    Absent = Absent
    Key <- UserOnly
    NoSub = NoSub
    Observer = {o1, o2}
    NoKey = NoKey
    Data <- NewDocuments
    Patch <- WholePatches
    SignOut = {}
    MaxOps = 3
SPECIFICATION Spec
INVARIANT ObserverIsFed
CHECK_DEADLOCK FALSE
