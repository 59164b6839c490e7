\* One thread that updates beside another; directories and files that cannot be made or removed.
SPECIFICATION CatalogSpec
CONSTANTS
  t1 = t1
  t2 = t2
  ns1 = ns1
  ns2 = ns2
  x = x
  y = y
  Threads <- TwoThreads
  Updaters <- OneThread
  Names <- AssetNames
  Parents <- AssetParents
  Namespaces <- TwoNamespaces
  Docs = {x, y}
  Validator <- Accepted
  Schemas <- SchemaNames
  Absent = Absent
  Dir = Dir
  Empty = Empty
  Torn = Torn
  NoNS = NoNS
  NoName = NoName
  NoDoc = NoDoc
  NoReq = NoReq
  Faults = {"mkdir", "remove", "rmdir"}
INVARIANTS
  CatalogTypeOK
  ReadableAtRest
  PostedStays
PROPERTIES
  OnlyUpdatesOverwrite
  ActsWhereAsked
  ValidWhereStored
  OnlyPostsCreate
  GetReadsWhole
