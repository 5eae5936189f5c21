CONSTANTS
  system = system
  windows = windows
  linux = linux
  core = core
  other = other
  debug = debug
  win = win
  cor = cor
  notcor = notcor
  Files = files
  Default = configurations
  Unknown = unknown
  NoPrefix = noprefix
  Not = not
  Field <- MCField
  Text <- MCText
  Value <- MCValue
  Selects <- MCSelects
  Filter <- MCFilter
  Context <- MCContext
SPECIFICATION Spec
INVARIANTS ConfigIsFormula FileVerdictSound FilesFirstComplete FilesLastAppliedOnce
CHECK_DEADLOCK FALSE
