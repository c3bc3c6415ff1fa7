SPECIFICATION Spec
CONSTANTS
    a = a
    b = b
    NoNode = NoNode
    Nodes = {a, b}
    Ues = {a, b}
    Delays = {0, 1}
    RegIntervals = {2}
    Threshold = 2
    KeepDb = TRUE
    MaxIds = 2
    CanStop = TRUE
    MaxOps = 4
INVARIANT TypeOK
INVARIANT UniqueOwner
INVARIANT OwnerInv
PROPERTY RoutingStable
SYMMETRY Symmetry
CHECK_DEADLOCK FALSE
