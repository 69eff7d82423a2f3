--------------------------- MODULE MCSlidingWindow ---------------------------
EXTENDS SlidingWindowProps, TLC

CONSTANTS t1, t2, t3

MCTwoThreads == {t1, t2}
MCThreeThreads == {t1, t2, t3}
MCTimes == 0 .. 2
MCSymmetry == Permutations(Threads)
=============================================================================
