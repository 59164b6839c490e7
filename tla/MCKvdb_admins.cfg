\* Three threads that all create, delete and use one database.
SPECIFICATION Spec
CONSTANTS
  t1 = t1
  t2 = t2
  t3 = t3
  Threads <- AllThreads
  Admins <- AllThreads
  Names = {d1}
  NoName = NoName
  Scopes = {s1, s2}
  NoScope = NoScope
  Keys = {k1}
  MaxCF = 2
SYMMETRY ThreadSymmetry
INVARIANTS
  TypeOK
  RefCountExact
  HandlerBlocksDelete
  DroppedOnlyMidDelete
