SPECIFICATION Spec
CONSTANTS
  Threads = {t1}
  high = high
  low = low
  NoThread = NoThread
  Mutexes = {high, low}
  other = other
  ULONG_MAX = 4
  hierarchy_value <- TopLevel
PROPERTIES
  FirstLockAllowed
