SPECIFICATION Spec
CONSTANTS
    SendIntervals = {2}
    TriggerIntervals = {2}
    Delays = {0, 1}
    InitialReport = FALSE
    Allowed = {"deactivate", "switch", "expire"}
    Careful = TRUE
    MaxIds = 2
    MaxOps = 5
INVARIANT TypeOK
INVARIANT NoAbort
INVARIANT FreshRows
INVARIANT OneTriggerTimer
