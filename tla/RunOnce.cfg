\* Two overlapping runs of the scribe, one of them retrying, and a clerk.
SPECIFICATION RunOnceSpec
CONSTANTS
  Missions = {m1}
  Disciples <- MCDisciples
  NULL = NULL
  Arts <- MCArts
  ArtsOf <- MCArtsOf
  AttemptCaps = {3}
  Leases = {1}
  Delays = {0}
  Backoffs = {0}
  Penalty = 0
  MaxWait = 0
  MaxTime = 1
  Procs = {"scribe-1", "scribe-2", "clerk-1"}
  OwnerOf <- MCOwnerOf
  ById = {"clerk-1"}
  TriesOf <- MCTriesOf
INVARIANTS
  RunOnceTypeOK
  OkMeansRecorded
  RefusalsAreTrue
  OneProcessPerToken
\* The clock stops at its horizon and every process may be over.
CHECK_DEADLOCK FALSE
