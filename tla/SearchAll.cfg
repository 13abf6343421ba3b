SPECIFICATION FairSpec
CONSTANTS
  d1 = d1
  d2 = d2
  d3 = d3
  d4 = d4
  d5 = d5
  Docs <- MCDocs
  Initial <- MCInitial
  Starts <- MCStarts
  PageSizes <- MCPageSizes
  MaxChanges = 3
INVARIANTS
  ExactWhenStable
  NothingMissed
  NothingTwice
PROPERTY SearchEnds
