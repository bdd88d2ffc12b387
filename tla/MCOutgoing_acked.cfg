\* The recipient answers in time and the sender still reports failure.
CONSTANTS
    m1 = m1
    m2 = m2
    i1 = i1
    i2 = i2
    i3 = i3
    Messages = {m1}
    Private = {m1}
    Reliable = {m1}
    Awaited = {m1}
    Parts <- OnePart
    Retries = 2
    Ids = {i1}
    Reader = reader
    NoId = NoId
SPECIFICATION Spec
INVARIANTS
    AckedIsDelivered
CHECK_DEADLOCK FALSE
