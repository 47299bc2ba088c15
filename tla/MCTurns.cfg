SPECIFICATION FairSpec
CONSTANTS
  a1 = a1
  a2 = a2
  live = live
  woken = woken
  other = other
  NoAgent = NoAgent
  Session = {live, woken, other}
  Agent = {a1, a2}
  AgentOf <- Agents
  Woken = {woken}
  File = {1}
  Enforcement = "block"
  Lease = 1
INVARIANTS
  TypeOK
  BlockedOut
  FinishedHoldsNothing
PROPERTIES
  
  TurnEnds
