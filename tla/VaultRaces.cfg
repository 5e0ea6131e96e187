SPECIFICATION Spec
CONSTANTS
    Clients = {c1, c2}
    MaxHistory = 2
    HistoryExpires = FALSE
    CopyMayFail = TRUE
    MaxPrevious = 1
    ReadMayFail = FALSE
    MaxUploads = 3
    MaxVersion = 3
    MaxPubs = 2
    MaxTries = 1
    MaxStamp = 0
SYMMETRY ClientSymmetry
INVARIANTS RetiredKeyStaysOut UserKeyOpens InterruptionRecoverable
PROPERTIES NoBlindOverwrite
CHECK_DEADLOCK FALSE
