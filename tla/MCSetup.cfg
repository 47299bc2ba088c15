SPECIFICATION Spec
CONSTANTS
  p1 = p1
  p2 = p2
  Run = {p1, p2}
  Installed = {"droid"}
  Entry = {"theirs", "wrapper"}
  Mentions = {"wrapper"}
  Comments = TRUE
  Where = "project"
  Text <- OneParagraph
  MaxKills = 1
  MaxRuns = 2
INVARIANTS
  TypeOK
  MergeKeeps
  
  
  ReRunsAreIdempotent
  AgentsKept
PROPERTIES
  DryWritesNothing
SYMMETRY Twins
CHECK_DEADLOCK FALSE
