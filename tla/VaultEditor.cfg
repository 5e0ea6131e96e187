SPECIFICATION EditorSpec
CONSTANTS None = None a = a c = c f = f g = g doc = doc
  Entries = {a, c}
  Folders = {f, g}
  Files = {doc}
  First = f
  Brought <- BroughtFile
  HistoryMax = 1
  Budget = 1
  MaxText = 1
  NewIn = {f}
INVARIANT NothingVanishes
 
CHECK_DEADLOCK FALSE
