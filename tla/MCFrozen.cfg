\* The clock and the number of calls are bounded, so a behaviour may stop.
\* A counter created when the clock's bucket index is in the upper half of
\* its range: in the code any window of 1 ms (window_seconds: 0), half of the
\* time, and one-second windows from 2038 on.
CHECK_DEADLOCK FALSE
SPECIFICATION GateSpec
CONSTANTS
  t1 = t1
  t2 = t2
  t3 = t3
  Threads <- MCThreads
  Times <- MCTimes
  Amounts = {0, 2}
  Window = 1
  HalfIndex = 4
  CountMax = 20
  MaxTokens = 2
  MaxAmount = 2
  StartTime = 4
  MaxTime = 5
  MaxBack = 0
  MaxCalls = 3
SYMMETRY MCSymmetry
INVARIANT NeverFrozen
