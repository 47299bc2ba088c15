SPECIFICATION Spec
CONSTANTS
  a1 = a1
  a2 = a2
  h1 = h1
  h2 = h2
  t1 = t1
  t2 = t2
  t3 = t3
  Nobody = Nobody
  NoTask = NoTask
  Keep = Keep
  Agent <- Agents2
  Handler <- Handlers1
  Task <- Tasks2
  Status = {"todo", "in_progress", "done"}
  Opening = {"todo", "in_progress", "done"}
  Patch <- Patches
INVARIANTS
  TypeOK
  ClaimExclusive
  
  Acyclic

  
CHECK_DEADLOCK TRUE
SYMMETRY Symmetry
