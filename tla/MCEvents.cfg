SPECIFICATION Spec
CONSTANTS
  e1 = e1
  e2 = e2
  e3 = e3
  d1 = d1
  c1 = c1
  p1 = p1
  p2 = p2
  a1 = a1
  a2 = a2
  Emitter = {e1, e2, e3}
  Dashboard = {d1}
  Channel = {c1}
  Project = {p1, p2}
  Kind <- Kinds
  Followed <- FollowP1
  Name <- Names
  Buffer = 1
  ReplayCap = 1
  MaxEvents = 3
INVARIANTS
  TypeOK
  NothingBetween
  
CHECK_DEADLOCK TRUE
SYMMETRY Symmetry
