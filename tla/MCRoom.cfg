SPECIFICATION Spec
CONSTANTS
  a1 = a1
  a2 = a2
  h1 = h1
  h2 = h2
  Human = Human
  Agent <- OneAgent
  Hook <- Hooks2
  Id = {1, 2, 3}
  Limit = 1
INVARIANTS
  IInv
  NoRepeat
  LostBehindOnly
CHECK_DEADLOCK TRUE
SYMMETRY Symmetry
