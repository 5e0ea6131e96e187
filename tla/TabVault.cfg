SPECIFICATION FairSpec
CONSTANTS
  MyEdits = {e1, e2}
  OtherEdits = {o1}
  MaxKey = 2
  MaxVersion = 2
  MaxFails = 1
  MaxLocks = 1
  Careful = {"rotate", "unread"}
INVARIANTS SavedMeansStored FileOpens EditAccounted NothingLeftBehind
PROPERTIES NoSilentOverwrite SaveSettles
CHECK_DEADLOCK FALSE
