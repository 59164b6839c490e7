\* A database replaced between two calls of one locator.
SPECIFICATION Spec
SYMMETRY Symmetry
CONSTANTS
  p1 = p1
  p2 = p2
  p3 = p3
  a = a
  b = b
  e1 = e1
  e2 = e2
  e3 = e3
  e4 = e4
  l1 = l1
  Types = {city}
  Paths <- TwoPaths
  Names = {a, b}
  NameOf <- TwoNameOf
  Contents = {x, y}
  Valid = {x, y}
  Entries = {e1, e2, e3, e4}
  Locators = {l1}
  Ips = {ip}
  MaxRetries = 1
  Faults = {}
  Junk = Junk
  NoFile = NoFile
  NoName = NoName
  NoEntry = NoEntry
  Gone = Gone
  NoDoc = NoDoc
  Torn = Torn
  NoType = NoType
  NoContent = NoContent
  NoIp = NoIp
  Closed = Closed
INVARIANTS
  AnswersCurrent
