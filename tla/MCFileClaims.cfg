SPECIFICATION Spec
CONSTANTS
  a1 = a1
  a2 = a2
  h1 = h1
  h2 = h2
  t1 = t1
  Nobody = Nobody
  NoTask = NoTask
  NoHandler = NoHandler
  Agent <- Agents2
  Handler <- Handlers1
  Path = {1, 2}
  Task = {t1}
  TTL = {1}
  IdleAfter = 0
  DeadAfter = 0
  MaxTime = 2
  Instant <- Instants
INVARIANTS
  TypeOK
  IInv
  PromiseKept
PROPERTIES
  LeaseSpec

CHECK_DEADLOCK TRUE
SYMMETRY Symmetry
VIEW Relevant
