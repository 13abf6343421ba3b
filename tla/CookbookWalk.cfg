SPECIFICATION WalkSpec
CONSTANTS
  Dirs <- MCDirs
  TreeFiles <- MCTreeFiles
  Globs <- MCGlobs
  GlobMatches <- MCGlobMatches
  Lines <- MCLines
  Blank = Blank
  Comment = Comment
  MaxChanges = 2
INVARIANTS
  NothingIsLost
  NothingExcluded
  PruningAgrees
