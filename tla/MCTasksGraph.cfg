SPECIFICATION FairSpec
CONSTANTS
  a1 = a1
  a2 = a2
  h1 = h1
  h2 = h2
  t1 = t1
  t2 = t2
  t3 = t3
  Nobody = Nobody
  NoTask = NoTask
  Keep = Keep
  Agent <- NoAgents
  Handler <- Handlers2
  Task <- Tasks3
  Status = {"todo", "in_progress"}
  Opening = {"todo"}
  Patch <- NoPatches
INVARIANTS
  EdgesExist
PROPERTIES
  CallsReturn
CHECK_DEADLOCK TRUE
