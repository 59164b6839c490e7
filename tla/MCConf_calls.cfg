\* Any calls of addUnit, load and get, in any order.
SPECIFICATION Spec
CONSTANTS
  k1 = k1
  k2 = k2
  e1 = e1
  e2 = e2
  Keys <- TwoKeys
  EnvNames <- TwoEnvNames
  NoName = NoName
  Environments <- TwoVariables
  Files <- SomeFiles
  Characters <- ThreeCharacters
  Lists <- ItemLists
  Half = 4
  NoUnit = NoUnit
  Unset = Unset
  Null = Null
INVARIANTS
  ConfTypeOK
  LoadedIsTyped
  MostSpecificFirst
  ReadsAsWritten
CHECK_DEADLOCK FALSE
