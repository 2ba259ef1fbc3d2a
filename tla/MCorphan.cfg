SPECIFICATION Spec
CONSTANTS
  u1 = u1
  u2 = u2
  UIs = {u1, u2}
  None = None
  Kinds = {"build"}
  MayLeave = TRUE
  MaxCommands = 2
  MaxStops = 0
  MaxTerms = 0
  MaxEdits = 0
  MaxTroubles = 0
INVARIANTS
  ToldOfOwn
CHECK_DEADLOCK FALSE
