----------------------------- MODULE Lifecycle -----------------------------
(***************************************************************************)
(* What the mission board promises about every mission, without rows,     *)
(* tokens, clocks or a ledger.                                             *)
(*                                                                         *)
(* A mission is posted with a budget of attempts.  Each time it is handed  *)
(* out a new run begins; only the newest run can be reported on, and the   *)
(* first terminal report, a cancellation, or a spent budget ends it.       *)
(* Waiting is one bit: a mission is ripe when what it waits for is over,   *)
(* the backoff of an open mission or the lease of a claimed one.           *)
(*                                                                         *)
(* MissionHall implements this module statement by statement of            *)
(* core/sql.py; Settling adds what liveness depends on.                    *)
(***************************************************************************)
EXTENDS Naturals, Sequences

CONSTANTS Missions,  \* the ids rows of the missions table can have
          Disciples, \* the registered workers
          Budgets    \* the values of max_attempts a mission is posted with

ASSUME BudgetsAssumption == Budgets \subseteq Nat \ {0}

VARIABLES status, \* missions.status, "absent" while the row is not inserted
          budget, \* missions.max_attempts
          runs,   \* for each mission the runs handed out, oldest first
          ripe    \* the missions whose current wait is over

vars == <<status, budget, runs, ripe>>

Pending  == {"open", "claimed"}
Terminal == {"completed", "failed", "cancelled"}
Run      == [by: Disciples, report: {"none", "retried", "completed", "failed"}]

TypeOK ==
  /\ status \in [Missions -> {"absent"} \cup Pending \cup Terminal]
  /\ budget \in [Missions -> Budgets \cup {0}]
  /\ runs \in [Missions -> Seq(Run)]
  /\ ripe \subseteq {m \in Missions : status[m] \in Pending}

Init ==
  /\ status = [m \in Missions |-> "absent"]
  /\ budget = [m \in Missions |-> 0]
  /\ runs = [m \in Missions |-> <<>>]
  /\ ripe = {}

----------------------------------------------------------------------------
\* A budget that allows one run too many.
MutantSpent(m) == Len(runs[m]) > budget[m]

Spent(m) == Len(runs[m]) >= budget[m]

\* A wait of m starts; it may be over at once (no delay, or a statement that
\* was itself delayed past the lease it granted).
StartWait(m) == ripe' \in {ripe \ {m}, ripe \cup {m}}

\* A mission that ends and goes on waiting.
MutantEndWait(S) == UNCHANGED ripe

EndWait(S) == ripe' = ripe \ S

Report(m, outcome) ==
  runs' = [runs EXCEPT ![m][Len(runs[m])].report = outcome]

Become(m, s) == status' = [status EXCEPT ![m] = s]

Post(m, b) ==
  /\ status[m] = "absent"
  /\ Become(m, "open")
  /\ budget' = [budget EXCEPT ![m] = b]
  /\ StartWait(m)
  /\ UNCHANGED runs

\* A new run: of an open mission, or of one whose holder let its lease lapse.
Start(m, d) ==
  /\ status[m] \in Pending
  /\ m \in ripe
  /\ ~ Spent(m)
  /\ Become(m, "claimed")
  /\ runs' = [runs EXCEPT ![m] = Append(@, [by |-> d, report |-> "none"])]
  /\ StartWait(m)
  /\ UNCHANGED budget

\* The current run goes on: a heartbeat, or the holder claiming again by id.
Renew(m) ==
  /\ status[m] = "claimed"
  /\ StartWait(m)
  /\ UNCHANGED <<status, budget, runs>>

Finish(m, outcome) ==
  /\ status[m] = "claimed"
  /\ Become(m, outcome)
  /\ Report(m, outcome)
  /\ EndWait({m})
  /\ UNCHANGED budget

Retry(m) ==
  /\ status[m] = "claimed"
  /\ ~ Spent(m)
  /\ Become(m, "open")
  /\ Report(m, "retried")
  /\ StartWait(m)
  /\ UNCHANGED budget

Cancel(m) ==
  /\ status[m] \in Pending
  /\ Become(m, "cancelled")
  /\ EndWait({m})
  /\ UNCHANGED <<budget, runs>>

\* A sweep that compares attempts > max_attempts.
MutantExhausted ==
  {m \in Missions : status[m] = "claimed" /\ m \in ripe /\ Len(runs[m]) > budget[m]}

Exhausted == {m \in Missions : status[m] = "claimed" /\ m \in ripe /\ Spent(m)}

\* The sweep fails missions nobody reported on and nobody may run again.
Exhaust(S) ==
  /\ S # {}
  /\ S \subseteq Exhausted
  /\ status' = [m \in Missions |-> IF m \in S THEN "failed" ELSE status[m]]
  /\ EndWait(S)
  /\ UNCHANGED <<budget, runs>>

\* Time passes: some waits end.
Pass(S) ==
  /\ S # {}
  /\ S \subseteq {m \in Missions \ ripe : status[m] \in Pending}
  /\ ripe' = ripe \cup S
  /\ UNCHANGED <<status, budget, runs>>

Next ==
  \/ \E m \in Missions, b \in Budgets : Post(m, b)
  \/ \E m \in Missions, d \in Disciples : Start(m, d)
  \/ \E m \in Missions : Renew(m)
  \/ \E m \in Missions, o \in {"completed", "failed"} : Finish(m, o)
  \/ \E m \in Missions : Retry(m)
  \/ \E m \in Missions : Cancel(m)
  \/ \E S \in SUBSET Missions : Exhaust(S)
  \/ \E S \in SUBSET Missions : Pass(S)

Spec == Init /\ [][Next]_vars

----------------------------------------------------------------------------
LastReport(m) == runs[m][Len(runs[m])].report

(* A mission leaves the board only for a reason its runs show: a terminal  *)
(* status is the newest run's report, or an unreported failure (the sweep) *)
(* with every attempt of the budget used, or a cancellation; and a mission *)
(* that is still open always has an attempt left to give out.              *)
EndsForAReason ==
  \A m \in Missions :
    /\ status[m] = "completed" => LastReport(m) = "completed"
    /\ status[m] = "failed" =>
         \/ LastReport(m) = "failed"
         \/ LastReport(m) = "none" /\ Len(runs[m]) = budget[m]
    /\ status[m] = "open" => ~ Spent(m)
=============================================================================
