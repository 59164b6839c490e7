\* A store that fails, restarts and a locator.
SPECIFICATION Spec
CHECK_DEADLOCK FALSE
SYMMETRY Symmetry
CONSTANTS
  p1 = p1
  p2 = p2
  p3 = p3
  a = a
  b = b
  e1 = e1
  e2 = e2
  e3 = e3
  e4 = e4
  l1 = l1
  Types = {city, asn}
  Paths <- TwoPaths
  Names = {a, b}
  NameOf <- TwoNameOf
  Contents = {x, bad}
  Valid = {x}
  Entries = {e1, e2, e3}
  Locators = {l1}
  Ips = {ip}
  MaxRetries = 1
  Faults = {"crash", "store", "write"}
  Junk = Junk
  NoFile = NoFile
  NoName = NoName
  NoEntry = NoEntry
  Gone = Gone
  NoDoc = NoDoc
  Torn = Torn
  NoType = NoType
  NoContent = NoContent
  NoIp = NoIp
  Closed = Closed
INVARIANTS
  TypeOK
  MapsAgree
PROPERTIES
  StableWhileReading
