SPECIFICATION FairSpec
CONSTANTS
  Processes = {p1, p2, p3}
  Inodes = {1, 2, 3}
  Requests <- MCRequests
PROPERTIES
  HolderKeepsFile
  RefusedOnlyIfHeld
  ImplementsFileLock
  SomeoneGetsIt
