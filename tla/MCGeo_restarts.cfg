\* Restarts, failed downloads and failed writes; two names, three paths.
SPECIFICATION Spec
CHECK_DEADLOCK FALSE
SYMMETRY Symmetry
CONSTANTS
  p1 = p1
  p2 = p2
  p3 = p3
  a = a
  b = b
  e1 = e1
  e2 = e2
  e3 = e3
  e4 = e4
  l1 = l1
  Types = {city, asn}
  Paths <- ThreePaths
  Names = {a, b}
  NameOf <- ThreeNameOf
  Contents = {x, y, bad}
  Valid = {x, y}
  Entries = {e1, e2, e3}
  Locators = {}
  Ips = {ip}
  MaxRetries = 3
  Faults = {"crash", "download", "mismatch", "write"}
  Junk = Junk
  NoFile = NoFile
  NoName = NoName
  NoEntry = NoEntry
  Gone = Gone
  NoDoc = NoDoc
  Torn = Torn
  NoType = NoType
  NoContent = NoContent
  NoIp = NoIp
  Closed = Closed
INVARIANTS
  FailureInstallsNothing
PROPERTIES
  RestartKeeps
