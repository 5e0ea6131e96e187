SPECIFICATION Spec
CONSTANTS
    Clients = {c1, c2}
    MaxHistory = 2
    HistoryExpires = FALSE
    CopyMayFail = TRUE
    MaxUploads = 5
    MaxVersion = 3
    MaxTries = 1
SYMMETRY ClientSymmetry
INVARIANTS NothingRetired RollbackStaysOpenable WayBack EpochNamesKey
CHECK_DEADLOCK FALSE
