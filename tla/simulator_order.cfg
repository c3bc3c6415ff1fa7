SPECIFICATION Spec
CONSTANTS
    Delays = {0, 1}
    Schedulers = {"map", "heap"}
    MaxUid = 8
    MaxPending = 4
    MaxPosts = 2
    MaxOps = 2
INVARIANT TypeOK
INVARIANT ExpiredIffGone
INVARIANT NoEventLost
INVARIANT FlagCoversQueue
PROPERTY RevokedNeverRuns
PROPERTY PostedIsMoved
CHECK_DEADLOCK FALSE
