SPECIFICATION Spec
CONSTANTS
  c1 = c1
  p1 = p1
  c2 = c2
  p2 = p2
  x = x
  r = r
  Tasks <- AllTasks
  Setscene <- SceneTasks
  Depends <- NetDepends
  HardChildren <- NoHard
  Targets = {r}
  Recipe <- Recipes
  TaskName <- Names
  NoExec = {}
  NoStamp = {}
  NumberTasks = 2
  NumberThreads <- NoLimits
  Options = {{}}
  EnforceAllowed = {}
  PressureLimited = FALSE
  SpawnFails = {}
  StampBase <- Distinct
  HashGroup <- Distinct
  Unihashes <- OneUnihash
  InitUnihash <- ZeroUnihash
  InitStamps <- NoStamps
  InitSceneStamps <- NoStamps
  RehashStamps = {0}
  RehashSceneStamps = {FALSE}
  Stops = {}
  MayDie = TRUE
  MaxUpdates = 0
  ActiveFloor = 0
INVARIANTS
  CompleteIsComplete
