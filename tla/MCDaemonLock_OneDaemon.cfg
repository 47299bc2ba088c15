SPECIFICATION Spec
CONSTANTS
  p1 = p1
  p2 = p2
  Proc = {p1, p2}
  Address <- OneAddress
INVARIANTS
  OneDaemon
