\* One administrator beside two users, on one database.
SPECIFICATION Spec
CONSTANTS
  t1 = t1
  t2 = t2
  t3 = t3
  Threads <- AllThreads
  Admins <- OneAdmin
  Names = {d1}
  NoName = NoName
  Scopes = {s1}
  NoScope = NoScope
  Keys = {k1, k2}
  MaxCF = 3
SYMMETRY UserSymmetry
INVARIANTS
  NoOrphan
  RollbackDropsOwn
PROPERTY
  FailedPostLeavesNothing
