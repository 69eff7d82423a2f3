SPECIFICATION FairSpec
CONSTANTS
  Capacity = 3
  Limit = 2
  MaxLimit = 3
  MaxPushes = 6
  MaxGeneration = 3
INVARIANTS LogContiguous ReadOnceInOrder SkippedOnlyIfEvicted
PROPERTY ConsumerCatchesUp
