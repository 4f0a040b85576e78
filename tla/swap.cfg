SPECIFICATION Spec
CONSTANTS
  Threads = {t1, t2, t3}
  Objects = {a, b, c}
  NoThread = NoThread
  NoObject = NoObject
  Versions = {"scoped_lock", "unique_lock"}
SYMMETRY ThreadSymmetry
INVARIANTS
  TypeOK
  NothingKept
  HoldersNeverWait
  BothLocked
PROPERTIES
  ImplementsAtomicSwap
