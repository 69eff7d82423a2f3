SPECIFICATION FairSpec
CONSTANTS
  t1 = t1
  t2 = t2
  t3 = t3
  Threads <- MCTwoThreads
  Times <- MCTimes
  Amounts = {1}
  Window = 1
  HalfIndex = 8
  CountMax = 2
PROPERTY LockFree
