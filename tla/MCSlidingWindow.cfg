SPECIFICATION Spec
CONSTANTS
  t1 = t1
  t2 = t2
  t3 = t3
  Threads <- MCThreeThreads
  Times <- MCTimes
  Amounts = {2}
  Window = 1
  HalfIndex = 8
  CountMax = 3
SYMMETRY MCSymmetry
INVARIANT TypeOK SlotsOrdered
PROPERTY Linearizable
