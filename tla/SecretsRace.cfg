SPECIFICATION Spec
CONSTANTS
  Devices = {d1}
  MaxKey = 3
  MaxSecret = 3
  MaxVersion = 3
  MaxFails = 2
  Careful = {"named"}
PROPERTIES RotationKeepsPassword
CHECK_DEADLOCK FALSE
