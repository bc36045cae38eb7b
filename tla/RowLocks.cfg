SPECIFICATION LockSpec
CONSTANTS
  m1 = m1
  m2 = m2
  d1 = d1
  d2 = d2
  p1 = p1
  Missions = {m1, m2}
  Disciples = {d1, d2}
  NULL = NULL
  Arts <- MCArts
  ArtsOf <- MCArtsOf
  AttemptCaps = {1, 2}
  Leases = {1}
  Delays = {0, 1}
  Backoffs = {0}
  Penalty = 1
  MaxWait = 1
  MaxTime = 1
  Boards <- MCBoards
  Sessions = {s1, s2, s3}
  Peaks = {p1}
  HomeOf <- MCHomeOf
  PeakOf <- MCPeakOf
  Priority <- MCPriority
  Created <- MCCreated
  MaxStatements = 4
SYMMETRY MCSymmetry
INVARIANTS
  LocksTypeOK
  BestOfTheRest
  OnlySweepsDeadlock
PROPERTIES
  StatementsAreAtomic
\* The statements and the clock run out.
CHECK_DEADLOCK FALSE
