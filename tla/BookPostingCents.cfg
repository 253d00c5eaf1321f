CONSTANTS
    Guest = {g1}
    Host = host
    Attempt = {a1, a2}
    LastDay = 3
    ShortDays = {}
    UtcShift = 0
    Price = 1050
    MaxHaste = 0
SPECIFICATION Spec
INVARIANT AmountInCents
CHECK_DEADLOCK FALSE
