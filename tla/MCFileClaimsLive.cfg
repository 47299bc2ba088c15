SPECIFICATION FairSpec
CONSTANTS
  a1 = a1
  a2 = a2
  h1 = h1
  h2 = h2
  t1 = t1
  Nobody = Nobody
  NoTask = NoTask
  NoHandler = NoHandler
  Agent <- Agents2
  Handler <- Handlers2
  Path = {1}
  Task = {NoTask}
  TTL = {1}
  IdleAfter = 0
  DeadAfter = 0
  MaxTime = 1
  Instant <- Instants
PROPERTIES
  
  LeasesEnd

CHECK_DEADLOCK TRUE
