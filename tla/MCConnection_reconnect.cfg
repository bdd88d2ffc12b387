\* Streams may end or fail at any time, also while Connect works on them; the
\* device accepts a connection now and then.
CONSTANT
    MaxStreams = 3
SPECIFICATION AcceptingSpec
INVARIANTS
    TypeOK
    OneLink
    OneInCharge
PROPERTIES
    Reconnects
    DropsAreAnswered
CHECK_DEADLOCK FALSE
