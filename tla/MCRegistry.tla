----------------------------- MODULE MCRegistry -----------------------------
EXTENDS BudgetRegistry, TLC

CONSTANTS t1, t2, t3, short, long

MCThreads == {t1, t2, t3}
MCWindows == {short, long}
MCParsed == {short, long, NoTenant}
MCSymmetry == Permutations(Threads) \cup Permutations(Windows)
=============================================================================
