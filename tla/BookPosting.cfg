CONSTANTS
    Guest = {g1}
    Host = host
    Attempt = {a1, a2}
    LastDay = 3
    ShortDays = {1}
    UtcShift = 1
    Price = 1050
    MaxHaste = 2
SPECIFICATION Spec
INVARIANTS TypeOK ChargeMatchesBooking PaidBeforeBooked MessageHasConversation
PROPERTIES PaidIsAnswered SavingEnds
CHECK_DEADLOCK FALSE
