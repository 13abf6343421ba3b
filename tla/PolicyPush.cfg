SPECIFICATION Spec
CONSTANTS
  app = app
  base = base
  i1 = i1
  i2 = i2
  r1 = r1
  r2 = r2
  bad = bad
  junk = junk
  prod = prod
  p1 = p1
  p2 = p2
  p3 = p3
  p4 = p4
  p5 = p5
  NoIdentifier = NoIdentifier
  NoRevision = NoRevision
  Names <- MCNames
  Identifiers <- MCIdentifiers
  Revisions <- MCRevisions
  LocksOf <- MCLocksOf
  Malformed = {junk}
  Groups = {prod}
  Pushes <- MCPushes
  RevisionOf <- MCRevisionOf
  GroupOf <- MCGroupOf
  Supplied <- MCSupplied
  MaxDeleted = 1
  MaxCalls <- MCMaxCalls
INVARIANTS
  PinnedIsRunnable
PROPERTIES
  RefinesGroupPolicy
