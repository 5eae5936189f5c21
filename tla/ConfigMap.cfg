CONSTANTS
  Name <- MCName
  Any = any
  Nil = nil
  Root = root
  Project <- MCProject
SPECIFICATION MapSpec
INVARIANTS OwnPairsResolve ClosestIsFound PerNameMapsVisitAll OrderIrrelevant
CHECK_DEADLOCK FALSE
