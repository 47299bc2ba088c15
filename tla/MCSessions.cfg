SPECIFICATION Spec
CONSTANTS
  p1 = p1
  p2 = p2
  k1 = k1
  NoAgent = 0
  NoTool = NoTool
  Proc = {p1, p2}
  Server = {p1}
  KeyOf <- SameKey
  AgentId = {1, 2, 3}
  Tool = {"succubus_report", "SessionStart"}
  MaxLate = 1
INVARIANTS
  TypeOK
  OneIdentity
  
  
