\* One text of every kind, while two devices are connected one after the other.
CONSTANTS
    Nums = {a, b}
    Devices = {a, b}
    Broadcast = broadcast
    Unknown = unknown
    Self = self
    None = none
    Limits = {0, 1, 2}
    Wrap = 16
    Texts = {t1}
    Words <- AllWords
    Disabled = {"hopy"}
    Indexes = {0, 1}
SPECIFICATION MCSpec
SYMMETRY NumSymmetry
CHECK_DEADLOCK FALSE
INVARIANTS
    TypeOK
    NeighboursAsHeard
    AnsweredAsPromised
    RepliesReachSender
    RouteStaysPrivate
