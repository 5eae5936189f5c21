SPECIFICATION Spec
CONSTANTS
  None = None
  NoValue = None
  MaxDepth = 5
  Program <- Programs
INVARIANTS RunsOnce KnowsItsPlace ExternalIsScoped MarksFollowScripts CoreFromOnePlace
CHECK_DEADLOCK FALSE
