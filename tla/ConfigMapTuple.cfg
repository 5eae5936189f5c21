CONSTANTS
  Name <- MCName
  Any = any
  Nil = nil
  Root = root
  Project <- MCTupleMap
SPECIFICATION MapSpec
INVARIANT EveryConfigVisited
CHECK_DEADLOCK FALSE
