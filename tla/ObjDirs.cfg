CONSTANTS
  appDebug = appDebug
  appRelease = appRelease
  libDebug = libDebug
  libRelease = libRelease
  toolDebug = toolDebug
  app = app
  lib = lib
  tool = tool
  debug = debug
  release = release
  x64 = x64
  obj = obj
  None = None
  Config <- MCConfig
  Name <- MCName
  Workspace <- MCWorkspace
SPECIFICATION Spec
INVARIANTS ObjDirsDistinct OrderIndependent RegularAllUnique
CHECK_DEADLOCK FALSE
