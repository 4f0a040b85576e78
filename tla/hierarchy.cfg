SPECIFICATION Spec
CONSTANTS
  Threads = {t1, t2, t3}
  high = high
  other = other
  low = low
  Mutexes = {high, other, low}
  NoThread = NoThread
  ULONG_MAX = 4
  hierarchy_value <- ThreeLevels
SYMMETRY ThreadSymmetry
INVARIANTS
  TypeOK
  OwnerUnlocks
  NoCircularWait
PROPERTIES
  ImplementsOrderedLocking
  FirstLockAllowed
