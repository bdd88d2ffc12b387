\* Two goroutines that write, into one another too; debug text, a close, and a
\* read error.
CONSTANTS
    Writers = {w1, w2}
    Packets <- AllSizes
    Noise = {3}
    Base = 4
    START1 <- Start1
    START2 <- Start2
    MAX_SIZE = 5
    MaxFrames = 3
    MaxNoise = 1
    MaxErrors = 1
SPECIFICATION FairSpec
CHECK_DEADLOCK FALSE
INVARIANTS
    TypeOK
    PacketsInOrder
PROPERTIES
    ClosedIsNoticed
