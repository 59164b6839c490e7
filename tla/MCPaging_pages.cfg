\* Another client changes the database three times while one reads it.
SPECIFICATION Spec
CONSTANTS
  Keys <- FiveKeys
  Prefixed <- EvenAndLast
  Half = 16
  Numbers <- SmallAndLarge
  MaxChanges = 3
INVARIANTS
  PagingTypeOK
  NothingLost
  NoneTwice
PROPERTIES
  PagesAreSlices
CHECK_DEADLOCK FALSE
