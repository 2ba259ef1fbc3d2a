SPECIFICATION FairSpec
CONSTANTS
  Tasks = {t1, t2}
  None = None
  t1 = t1
  t2 = t2
  MaxEvents <- MCMaxEvents
  MaxHashes = 2
  StopHashes = 1
  InRoom = 3
  OutRoom = 1
  TaskRoom = 1
  ForkFails = TRUE
  ServerDies = TRUE
INVARIANTS
  ExitCodeLast
  HashesAsSent
PROPERTIES
  ServedCommandsGoThrough
  Answered
  NoTaskLeft
CHECK_DEADLOCK FALSE
