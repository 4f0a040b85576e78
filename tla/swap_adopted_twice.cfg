SPECIFICATION Spec
CONSTANTS
  Threads = {t1, t2}
  Objects = {a, b, c}
  NoThread = NoThread
  NoObject = NoObject
  Versions = {"lock_guard"}
INVARIANTS
  NothingKept
CHECK_DEADLOCK FALSE
