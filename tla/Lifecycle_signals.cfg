\* Every block of main may fail; two signals come at any time, to any thread.
SPECIFICATION Spec
CONSTANTS
  Validators = {TRUE, FALSE}
  MaxSignals = 2
INVARIANTS
  TypeOK
  TimelyInOrder
  ServedWithAll
  LeavesNothing
PROPERTIES
  
  ClosingEnds
  InterruptEnds
CHECK_DEADLOCK FALSE
