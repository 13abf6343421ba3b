SPECIFICATION Spec
CONSTANTS
  alice = alice
  bob = bob
  admins = admins
  ops = ops
  e1 = e1
  e2 = e2
  e3 = e3
  e4 = e4
  Actors <- MCActors
  Groups <- MCGroups
  Editors <- MCEditors
  PermOf <- MCPermOf
  OpOf <- MCOpOf
  ActorsOf <- MCActorsOf
  GroupsOf <- MCGroupsOf
  InitialACL <- MCInitialACL
INVARIANTS
  NoDuplicates
  OnlyGranted
  EditIsExact
