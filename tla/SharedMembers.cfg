SPECIFICATION MembersSpec
CONSTANTS
    Users = {u1, u2}
    Roles = {"owner", "reader"}
    Admin = admin
    MaxMembers = 2
    MaxEpoch = 2
    MaxNotices = 3
    MaxInFlight = 2
SYMMETRY UserSymmetry
INVARIANTS RowsAreUsable DepartureIsFlagged RotatedRowsFollowKey
PROPERTIES OwnerKept
CHECK_DEADLOCK FALSE
