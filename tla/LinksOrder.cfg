CONSTANTS
  app = app
  core = core
  lib = lib
  debug = debug
  release = release
  Projects <- MCProjects
  Config <- MCConfig
  Link <- MCLink
  NameOf <- MCNameOf
  Lower <- MCLower
  Bare <- MCBare
  Assembly = {"net.dll"}
  None = none
  Workspace <- MCWorkspace
SPECIFICATION LinksSpec
INVARIANT LinkingOrdersTheBuild
CHECK_DEADLOCK FALSE
