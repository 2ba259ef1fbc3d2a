SPECIFICATION Spec
CONSTANTS
  c1 = c1
  p1 = p1
  c2 = c2
  p2 = p2
  x = x
  r = r
  Tasks <- AllTasks
  Setscene <- SceneTasks
  Depends <- ParDepends
  HardChildren <- P2NeedsP1
  Targets = {p1, r}
  Recipe <- Recipes
  TaskName <- Names
  NoExec = {c2}
  NoStamp = {x}
  NumberTasks = 2
  NumberThreads <- NoLimits
  Options = {{}, {"continue"}, {"force"}, {"setsceneonly"}, {"skipsetscene"}, {"enforce"}}
  EnforceAllowed = {c2, x, r}
  PressureLimited = FALSE
  SpawnFails = {}
  StampBase <- Distinct
  HashGroup <- Distinct
  Unihashes <- OneUnihash
  InitUnihash <- ZeroUnihash
  InitStamps <- RecipeStamps
  InitSceneStamps <- AnySceneStamps
  RehashStamps = {0}
  RehashSceneStamps = {FALSE}
  Stops = {}
  MayDie = FALSE
  MaxUpdates = 0
  ActiveFloor = 2
INVARIANTS
  CoveredOrNot
  CountsExact
  OneProcessPerTask
  ContinueBuildsRest
  FailureHasCause
  RestoredInputs
  CompleteIsComplete
