SPECIFICATION FairSpec
CONSTANTS
  c1 = c1
  p1 = p1
  c2 = c2
  p2 = p2
  x = x
  r = r
  Tasks <- AllTasks
  Setscene <- SceneTasks
  Depends <- ToolDepends
  HardChildren <- NoHard
  Targets = {r}
  Recipe <- Recipes
  TaskName <- Names
  NoExec = {}
  NoStamp = {}
  NumberTasks = 2
  NumberThreads <- OneSysroot
  Options = {{"continue"}}
  EnforceAllowed = {}
  PressureLimited = TRUE
  SpawnFails = {p2}
  StampBase <- SharedWork
  HashGroup <- Variants
  Unihashes <- OneUnihash
  InitUnihash <- ZeroUnihash
  InitStamps <- FewStamps
  InitSceneStamps <- NoStamps
  RehashStamps = {0}
  RehashSceneStamps = {FALSE}
  Stops = {"shutdown", "force"}
  MayDie = TRUE
  MaxUpdates = 0
  ActiveFloor = 0
INVARIANTS
  TwinsInTurn
  NoDuplicateStamps
PROPERTIES
  ConcludesIdle
  Terminates
