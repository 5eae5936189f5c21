CONSTANTS
  a = a
  b = b
  c = c
  common = common
  debug = debug
  release = release
  x = x
  y = y
  z = z
  Public = public
  Private = private
  Interface = interface
  Nil = nil
  Project <- MCProject
  Name <- MCName
  Buildcfg <- MCBuildcfg
  Value <- MCValue
  MaxDepth = 13
  Script <- MCScript
SPECIFICATION FairSpec
INVARIANTS ConsumesReachable PrivateStaysHome DependenciesFirst FailsOnCyclesOnly AppliedAsWritten
PROPERTY Finishes
CHECK_DEADLOCK FALSE
