SPECIFICATION Spec
CONSTANTS
  Missions = {m1}
  Disciples = {d1, d2}
  NULL = NULL
  Arts <- MCArts
  ArtsOf <- MCArtsOf
  AttemptCaps = {1, 3}
  Leases = {1, 2}
  Delays = {0, 1}
  Backoffs = {0, 2}
  Penalty = 2
  MaxWait = 1
  MaxTime = 5
INVARIANTS
  BackoffHonoured
  OneRunDecides
  SweepKeepsReport
PROPERTIES
  TerminalIsFinal
  LeaseProtectsHolder
\* The clock stops at its horizon and every mission may be finished.
CHECK_DEADLOCK FALSE
