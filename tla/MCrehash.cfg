SPECIFICATION FairSpec
CONSTANTS
  c1 = c1
  p1 = p1
  c2 = c2
  p2 = p2
  x = x
  r = r
  Tasks <- ChainTasks
  Setscene <- SceneTasks
  Depends <- SharedDepends
  HardChildren <- NoHard
  Targets = {r}
  Recipe <- Recipes
  TaskName <- Names
  NoExec = {}
  NoStamp = {}
  NumberTasks = 2
  NumberThreads <- NoLimits
  Options = {{"continue"}}
  EnforceAllowed = {}
  PressureLimited = FALSE
  SpawnFails = {}
  StampBase <- Distinct
  HashGroup <- Distinct
  Unihashes <- TwoUnihashes
  InitUnihash <- ZeroUnihash
  InitStamps <- NoStamps
  InitSceneStamps <- NoStamps
  RehashStamps = {0}
  RehashSceneStamps = {TRUE, FALSE}
  Stops = {}
  MayDie = FALSE
  MaxUpdates = 1
  ActiveFloor = 0
INVARIANTS
  DepsComplete
  BuiltInputs
  RestoreWaits
  RestoredNotRebuilt
  SceneDoneDecided
PROPERTIES
  RefinesTaskOrder
