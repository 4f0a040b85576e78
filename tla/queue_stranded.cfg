SPECIFICATION FairSpec
CONSTANTS
  Threads = {t1, t2, t3}
  Values = {v1}
  NoThread = NoThread
  NoValue = NoValue
  MaxCalls = 1
  MaxSpurious = 0
PROPERTIES
  StrandedValueIsTaken
CHECK_DEADLOCK FALSE
