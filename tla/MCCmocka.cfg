\* A test or a group that is over stops, so deadlock is not an error.
CONSTANTS
  Functions = {"f", "g"}
  Parameters = {"p"}
  Counts <- CountValues
  Checks <- CheckValues
  Arguments = {0, 1, 2}
  MaxDeclared = 3
  Tests <- TestValues
  Group <- GroupValue
  MaxMade = 3
SPECIFICATION CmockaSpec
INVARIANTS
  UsedInOrder
  
  DeclarationsFreed
  ReportIsTrue
  LeaksAreNoticed
CHECK_DEADLOCK FALSE
