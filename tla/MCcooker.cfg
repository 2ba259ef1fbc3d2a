SPECIFICATION FairSpec
CONSTANTS
  u1 = u1
  u2 = u2
  UIs = {u1, u2}
  None = None
  Kinds = {"build", "file", "reset", "complete", "trigger"}
  MayLeave = TRUE
  MaxCommands = 2
  MaxStops = 1
  MaxTerms = 1
  MaxEdits = 1
  MaxTroubles = 2
INVARIANTS
  AnsweredOnce
  BusyHasWork
  StopReachesBuild
PROPERTIES
  BuildIsCurrent
  UiAnswered
CHECK_DEADLOCK FALSE
