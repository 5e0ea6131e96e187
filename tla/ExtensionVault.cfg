SPECIFICATION Spec
CONSTANTS
  Mine = {a}
  Theirs = {c}
  MaxVersion = 2
  MaxKey = 2
  MaxToken = 2
  MaxFails = 1
  Careful = {"lock", "list"}
CHECK_DEADLOCK FALSE
INVARIANTS LockHolds RevokedHoldsNoKey NoPhantom
PROPERTY NothingOverwritten
