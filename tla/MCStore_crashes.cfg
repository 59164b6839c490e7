\* Crashes and restarts, directories and contents that cannot be written.
SPECIFICATION Spec
CONSTANTS
  t1 = t1
  t2 = t2
  Threads <- TwoThreads
  Updaters <- TwoThreads
  Names <- SmallNames
  Parents <- SmallParents
  Namespaces = {ns1, ns2}
  Docs = {x}
  Absent = Absent
  Dir = Dir
  Empty = Empty
  Torn = Torn
  NoNS = NoNS
  NoName = NoName
  NoDoc = NoDoc
  Faults = {"crash", "mkdir", "write"}
INVARIANTS
  TypeOK
  CacheMatchesDisk
PROPERTIES
  RestartForgetsNothing
  ImplementsDirectory
