SPECIFICATION Spec
CONSTANTS
    NumUes = 2
    Cells = {1, 2}
    Home <- Apart
    MaxUesPerCell = 2
    MaxRnti = 4
    Cmm = "single"
    MaxCommands = 3
INVARIANT TypeOK
INVARIANT NoUnexpectedState
INVARIANT PlacesAgree
INVARIANT AffectedIsMeant
PROPERTY RightUe
INVARIANT OneCommandPerNode
PROPERTY HandoversEnd
CHECK_DEADLOCK FALSE
