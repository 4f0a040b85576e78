SPECIFICATION Spec
CONSTANTS
  Threads = {t1, t2, t3}
  NoThread = NoThread
  NoCall = NoCall
  Programs <- AllPrograms
  MaxCalls = 2
INVARIANTS
  LocksGivenBack
  RacesWhereDocumented
  SectionsAreAtomic
  CreatedOnce
  UsesCreated
PROPERTIES
  CallReturns
CHECK_DEADLOCK FALSE
