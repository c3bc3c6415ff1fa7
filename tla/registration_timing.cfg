SPECIFICATION Spec
CONSTANTS
    a = a
    b = b
    NoNode = NoNode
    Nodes = {a, b}
    Ues = {a}
    Delays = {0, 1}
    RegIntervals = {3}
    Threshold = 4
    KeepDb = TRUE
    MaxIds = 3
    CanStop = FALSE
    MaxOps = 4
INVARIANT HeldIsRegistered
PROPERTY KeepsIdentity
PROPERTY EventuallyListed
