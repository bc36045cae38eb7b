--------------------------- MODULE MCMissionHall ---------------------------
(* MissionHall for TLC.  The cfg names the missions and disciples; every   *)
(* disciple knows the one art here, which only claim-next asks about.      *)
EXTENDS MissionHall

MCArts == {"summarize"}
MCArtsOf == [d \in Disciples |-> MCArts]

Counters == {<<p, c, f>> \in (0 .. 40) \X (1 .. 40) \X (0 .. 40) : p <= c}

\* Reputation against IEEE doubles: of all counters up to 40 these four, and no
\* others, are stored one below the exact floor (PostgreSQL's float8, or
\* math.floor(p * (c / (c + f))) in Python).
ASSUME RoundingAssumption ==
  {<<p, c, f>> \in Counters : Reputation(p, c, f) # (p * c) \div (c + f)}
    = {<<23, 26, 20>>, <<22, 30, 14>>, <<26, 30, 22>>, <<23, 39, 30>>}
=============================================================================
