\* A private message sent with SendReliably: two parts, at most two attempts each.
CONSTANTS
    m1 = m1
    m2 = m2
    i1 = i1
    i2 = i2
    i3 = i3
    Messages = {m1}
    Private = {m1}
    Reliable = {m1}
    Awaited = {m1}
    Parts <- TwoParts
    Retries = 2
    Ids = {i1, i2}
    Reader = reader
    NoId = NoId
SPECIFICATION Spec
SYMMETRY IdSymmetry
INVARIANTS
    TypeOK
    YesIsConfirmed
    NoIsJustified
    OneInFlight
PROPERTIES
    ImplementsDelivery
CHECK_DEADLOCK FALSE
