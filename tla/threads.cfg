SPECIFICATION Spec
CONSTANTS
  MaxThreads = 3
  Programs <- AllPrograms
  results <- SomeResults
  MinPerThread = 2
  MaxLength = 10
  Garbage <- SomeGarbage
INVARIANTS
  OneOwner
  GuardsNeverTerminate
  LocalsOutliveUse
  NoDataRace
  AssertionsHold
  SpinlockExcludes
  SumIsComplete
  NoLostIncrement
PROPERTIES
  MainReturns
CHECK_DEADLOCK FALSE
