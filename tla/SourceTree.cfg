CONSTANTS
  Name <- MCName
  DotDot <- MCDotDot
  Slash <- MCSlash
  Rank <- MCRank
  NoFile = none
  Project <- MCProject
SPECIFICATION TreeSpec
INVARIANTS PlacedByVirtualPath FoldersInsideDiffer OnlyNeededFolders
CHECK_DEADLOCK FALSE
