\* What the header of the collection says its counters track.
SPECIFICATION Spec
CONSTANTS
  t1 = t1
  t2 = t2
  t3 = t3
  Threads <- TwoThreads
  Admins <- OneAdmin
  Names = {d1}
  NoName = NoName
  Scopes = {s1}
  NoScope = NoScope
  Keys = {k1}
  MaxCF = 2
INVARIANT
  CountsUsers
