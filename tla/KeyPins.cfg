SPECIFICATION Spec
CONSTANTS
  None = None
  People = {bob}
  MaxKey = 2
  MaxVersion = 3
  Again = FALSE
  Careful = {"switch"}
INVARIANTS DecisionIsSaved DiscardedStaysOut
PROPERTIES SealedAsPinned PinsStay
CHECK_DEADLOCK FALSE
