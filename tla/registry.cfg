SPECIFICATION RFairSpec
CONSTANTS
  Threads = {t1, t2, t3}
  high_level_mutex = high_level_mutex
  low_level_mutex = low_level_mutex
  Mutexes = {high_level_mutex, low_level_mutex}
  NoThread = NoThread
  ULONG_MAX = 3
  hierarchy_value <- Levels
  Users = {alejandro, andromeda}
  Amounts = {8, 100}
  InitialBalance = 10
INVARIANTS
  NoLostUpdate
  NoneTerminated
PROPERTIES
  MainReturns
