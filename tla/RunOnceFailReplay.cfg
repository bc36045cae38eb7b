\* One run of the scribe, retrying.
SPECIFICATION RunOnceSpec
CONSTANTS
  Missions = {m1}
  Disciples <- MCDisciples
  NULL = NULL
  Arts <- MCArts
  ArtsOf <- MCArtsOf
  AttemptCaps = {2}
  Leases = {1}
  Delays = {0}
  Backoffs = {0}
  Penalty = 0
  MaxWait = 0
  MaxTime = 1
  Procs = {"scribe-1"}
  OwnerOf <- MCOwnerOf
  ById = {}
  TriesOf <- MCTriesOf
INVARIANTS
  FailReplayIsBenign
\* The clock stops at its horizon and every process may be over.
CHECK_DEADLOCK FALSE
