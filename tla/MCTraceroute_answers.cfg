\* Three commands of two nodes, ids that may collide or be zero, and fairness.
CONSTANTS
    c1 = c1
    c2 = c2
    c3 = c3
    n1 = n1
    n2 = n2
    i1 = i1
    i2 = i2
    Commands = {c1, c2, c3}
    Nodes = {n1, n2}
    Target <- MCTarget
    Ids = {zero, i1, i2}
    Zero = zero
    Unsolicited = {n1}
    None = None
SPECIFICATION FairSpec
INVARIANTS
    TypeOK
    AtMostOneReply
    PendingIsOpen
PROPERTIES
    ImplementsRouteService
    EveryoneAnswered
    RequestsEmptied
CHECK_DEADLOCK FALSE
