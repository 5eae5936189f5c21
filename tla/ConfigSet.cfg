CONSTANTS
  global = global
  workspace = workspace
  app = app
  lib = lib
  any = any
  onDebug = onDebug
  debug = debug
  release = release
  a = a
  b = b
  all = all
  Container <- MCContainer
  Global = global
  ChainOf <- MCChainOf
  Value <- MCValue
  Unset = unset
  Pattern = {a, all}
  Selects <- MCSelects
  Criteria = {any, onDebug}
  Always = any
  Env = {debug, release}
  Holds <- MCHolds
  Listed <- MCListed
  MaxStatements = 5
SPECIFICATION Spec
INVARIANTS FetchIsReplay CompiledAgrees
PROPERTY StatementsAreScoped
CHECK_DEADLOCK FALSE
