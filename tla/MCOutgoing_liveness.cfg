\* A private and a channel message that compete for one transmission.  No symmetry:
\* it is unsound for liveness.
CONSTANTS
    m1 = m1
    m2 = m2
    i1 = i1
    i2 = i2
    i3 = i3
    Messages = {m1, m2}
    Private = {m1}
    Reliable = {m1}
    Awaited = {m1}
    Parts <- OnePart
    Retries = 2
    Ids = {i1}
    Reader = reader
    NoId = NoId
SPECIFICATION FairSpec
PROPERTIES
    SendersReport
    AcksEmptied
    ReaderFree
CHECK_DEADLOCK FALSE
