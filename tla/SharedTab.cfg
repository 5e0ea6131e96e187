SPECIFICATION TabSpec
CONSTANTS None = None
  MaxEpoch = 3
  MaxKey = 4
  MaxUserKey = 2
  MaxVersion = 4
  Careful = {"lock"}
INVARIANTS FileUnderEpochKey ReplacementKeepsKey
PROPERTY NothingOverwritten
CHECK_DEADLOCK FALSE
