\* No clock and no bound: budgets make the runs finite.
SPECIFICATION SettleSpec
CONSTANTS
  Missions = {m1, m2}
  Disciples = {d1, d2}
  Budgets = {1, 2}
INVARIANTS
  SettleTypeOK
  EndsForAReason
PROPERTIES
  Settles
\* Every mission may be finished, and then nothing is left to do.
CHECK_DEADLOCK FALSE
