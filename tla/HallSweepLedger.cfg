SPECIFICATION Spec
CONSTANTS
  Missions = {m1, m2}
  Disciples = {d1, d2}
  NULL = NULL
  Arts <- MCArts
  ArtsOf <- MCArtsOf
  AttemptCaps = {1, 2}
  Leases = {1}
  Delays = {0}
  Backoffs = {1}
  Penalty = 2
  MaxWait = 1
  MaxTime = 2
INVARIANTS
  LedgerCountsEveryFailure
\* The clock stops at its horizon and every mission may be finished.
CHECK_DEADLOCK FALSE
