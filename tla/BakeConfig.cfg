CONSTANTS
  configurations = configurations
  system = system
  toolset = toolset
  kind = kind
  tags = tags
  defines = defines
  debug = debug
  linux = linux
  posix = posix
  windows = windows
  gcc = gcc
  clang = clang
  staticlib = staticlib
  sharedlib = sharedlib
  x = x
  y = y
  files = files
  source = source
  Files = files
  File = source
  Own = {configurations}
  ProjectStages <- MCProjectStages
  ProjectDefault <- MCProjectDefault
  Stages <- MCStages
  Lists = {tags}
  Field <- MCField
  Value <- MCValue
  TagsOf <- MCTagsOf
  Default <- MCDefault
  Forced <- NoneForced
  WksTerms <- MCWksTerms
  Script <- MCScript
SPECIFICATION Spec
INVARIANTS AppliedIffTrue WellStagedIsDeclarative FilesSeeTheirConfiguration
PROPERTY ReadsAreStable
CHECK_DEADLOCK FALSE
