SPECIFICATION BrowseSpec
CONSTANTS
  c1 = c1
  c2 = c2
  c3 = c3
  k1 = k1
  master = master
  d1 = d1
  Calls = {c1, c2, c3}
  KeyOf <- MCKeyOf
  Accounts = {master, d1}
  Poster <- MCPoster
  NULL = NULL
  Ids = {1, 2, 3}
  TriesOf <- MCTriesOf
  Old <- MCOld
  MaxTime = 1
  Master = master
  Filters <- MCFilters
  Limits = {1, 3}
  MaxPoll = 2
  MaxChanges = 2
INVARIANTS
  BrowseTypeOK
  OneAnswerPerKey
  WalkIsComplete
  WalkDescends
\* Calls and walk end, and the clock stops at its horizon.
CHECK_DEADLOCK FALSE
