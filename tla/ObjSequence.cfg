CONSTANTS
  f1 = f1
  f2 = f2
  f3 = f3
  gen = gen
  header = header
  lib = lib
  debug = debug
  release = release
  None = None
  Prj = prj
  File <- MCFile
  ConfigList <- MCConfigList
  Native <- MCNative
  Linkable = {lib}
  Name <- MCName
  Project <- MCProject
SPECIFICATION FairSpec
INVARIANTS TypeOK UniqueObjNames NumberedOnlyOnCollision
PROPERTIES NamesEveryFile Finishes
CHECK_DEADLOCK FALSE
