SPECIFICATION Spec
CONSTANTS
  Threads = {t1, t2}
  NoThread = NoThread
  NoCall = NoCall
  Programs = {"stack"}
  MaxCalls = 1
PROPERTIES
  PopReturns
CHECK_DEADLOCK FALSE
