CONSTANTS
    Message <- Messages
    Sender = {me, s1, s2}
    SenderOf <- Senders
    Me = me
    MaxVisits = 2
    me = me  s1 = s1  s2 = s2
    m1 = m1  m2 = m2  m3 = m3
SPECIFICATION Spec
INVARIANTS TypeOK InFlightIsRunning OneLoadPerSender
PROPERTY ShownIsCurrent
CHECK_DEADLOCK FALSE
