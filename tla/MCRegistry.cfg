\* The numbers of calls and of writes are bounded, so a behaviour may stop.
CHECK_DEADLOCK FALSE
SPECIFICATION Spec
CONSTANTS
  t1 = t1
  t2 = t2
  t3 = t3
  short = short
  long = long
  NoTenant = NoTenant
  Broken = Broken
  Threads <- MCThreads
  Windows <- MCWindows
  Parsed <- MCParsed
  MaxWrites = 2
  MaxCalls = 4
SYMMETRY MCSymmetry
INVARIANTS TypeOK AddsToItsWindow KeptUnlessOvertaken SettledAgrees
