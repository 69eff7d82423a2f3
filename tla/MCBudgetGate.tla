---------------------------- MODULE MCBudgetGate ----------------------------
EXTENDS BudgetGate, TLC

CONSTANTS t1, t2, t3

MCThreads == {t1, t2, t3}
MCTimes == StartTime .. MaxTime
MCSymmetry == Permutations(Threads)
=============================================================================
