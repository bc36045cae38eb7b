----------------------------- MODULE MCRunOnce -----------------------------
(* RunOnce for TLC: two runs of one disciple, started by overlapping       *)
(* schedules, and possibly a run of a second disciple that claims by id.   *)
EXTENDS RunOnce

MCArts == {"summarize"}
MCDisciples == {"scribe", "clerk"}
MCArtsOf == [d \in MCDisciples |-> MCArts]
MCTriesOf == [p \in Procs |-> IF p = "scribe-1" THEN 2 ELSE 1]
MCOwnerOf == [p \in Procs |-> IF p = "clerk-1" THEN "clerk" ELSE "scribe"]
=============================================================================
