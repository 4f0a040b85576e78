SPECIFICATION Spec
CONSTANTS
  MaxThreads = 3
  Programs <- SimpleExchange
  results <- SomeResults
  MinPerThread = 2
  MaxLength = 7
  Garbage <- SomeGarbage
INVARIANTS
  ExchangeSucceeds
CHECK_DEADLOCK FALSE
