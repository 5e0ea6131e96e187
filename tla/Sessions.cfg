SPECIFICATION SessionsSpec
CONSTANTS
    Sids = {1}
    MaxClock = 2
    MaxPairings = 2
    MaxRotations = 1
    MaxSwitches = 1
    MaxFaults = 1
    MaxRestarts = 1
INVARIANTS LogoutHolds EndedStaysEnded RotationEndsPairings
CHECK_DEADLOCK FALSE
