\* The clock and the number of calls are bounded, so a behaviour may stop.
CHECK_DEADLOCK FALSE
SPECIFICATION GateSpec
CONSTANTS
  t1 = t1
  t2 = t2
  t3 = t3
  Threads <- MCThreads
  Times <- MCTimes
  Amounts = {0, 2}
  Window = 2
  HalfIndex = 8
  CountMax = 20
  MaxTokens = 2
  MaxAmount = 2
  StartTime = 1
  MaxTime = 4
  MaxBack = 1
  MaxCalls = 4
SYMMETRY MCSymmetry
INVARIANTS OnTimeGrantsWithinLimit OvershootBounded SettledCountsExact
PROPERTIES RefusalsJustified NoAdmissionAtLimit
