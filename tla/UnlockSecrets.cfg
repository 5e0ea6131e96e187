SPECIFICATION Spec
CONSTANTS
  Devices = {d1}
  MaxKey = 3
  MaxSecret = 3
  MaxVersion = 3
  MaxFails = 2
  Careful = {"named"}
INVARIANTS EnvelopesOpenTheFile CodeShownWasKept NamedOrGone
CHECK_DEADLOCK FALSE
