SPECIFICATION FairSpec
CONSTANTS
  c1 = c1
  c2 = c2
  Clients = {c1, c2}
  Servers = {1, 2}
  None = None
  Role <- MCRole
  Timeouts = {"none", "some", "never"}
  Retries = 1
  Backlog = 1
  MayCrash = TRUE
INVARIANTS
  OneServer
  SocketServed
  ServedClient
PROPERTIES
  ServersEnd
CHECK_DEADLOCK FALSE
