SPECIFICATION Spec
CONSTANTS
    Delays = {0, 1, 2}
    Schedulers = {"heap"}
    MaxUid = 11
    MaxPending = 6
    MaxPosts = 0
    MaxOps = 1
INVARIANT NextNotPast
CHECK_DEADLOCK FALSE
