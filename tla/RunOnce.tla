------------------------------ MODULE RunOnce ------------------------------
(***************************************************************************)
(* Scheduled workers and the handlers they call: the SDK's run_once        *)
(* (client.py) claims a mission, works, reports and exits, over HTTP that  *)
(* loses, delays and repeats; the handlers (core/routes/missions.py) run   *)
(* the statements of MissionHall, one transaction each.                    *)
(*                                                                         *)
(* A request that times out at the client may still be running: a retry    *)
(* sends another copy beside it, and only the answer to the newest copy is *)
(* heard.  The server may die between two transactions of a handler, which *)
(* loses the rest of the request.  A process that dies forgets its token;  *)
(* the next scheduled run of the same disciple is another process.         *)
(***************************************************************************)
EXTENDS MissionHall

CONSTANTS
  Procs,   \* runs of a worker program, each doing one run_once
  OwnerOf, \* the disciple whose token each process presents
  ById,    \* the processes that claim a mission by its id, not claim-next
  TriesOf  \* max_retries + 1, of each process's client

ASSUME ProcsAssumption ==
  /\ OwnerOf \in [Procs -> Disciples]
  /\ ById \subseteq Procs
  /\ TriesOf \in [Procs -> Nat \ {0}]

VARIABLES
  procs,   \* what each process is doing and holds in memory
  requests \* copies of requests on the wire or inside a handler

runOnceVars == <<missions, ledger, now, runs, procs, requests>>

ReportOps == {"complete", "fail", "fail-permanent"}
ClaimOps  == {"claim-next", "claim"}
Stages    == {"sweep", "update", "inspect"}

\* detail.reason of a 409 not_mission_holder.
Reasons == {"cancelled", "already_completed", "already_failed", "reclaimed",
            "lease_expired"}
Answers == Reasons \cup {"none", "ok", "idle", "not_claimable", "unavailable"}

Proc == [ pc: {"ready", "calling", "working", "over"},
          op: ClaimOps \cup ReportOps,
          try: Nat,
          mission: Missions \cup {NULL},
          token: Nat,
          answer: Answers ]

Request == [ by: Procs, op: ClaimOps \cup ReportOps, try: Nat,
             mission: Missions \cup {NULL}, token: Nat, stage: Stages ]

RunOnceTypeOK ==
  /\ TypeOK
  /\ procs \in [Procs -> Proc]
  /\ requests \subseteq Request

RunOnceInit ==
  /\ Init
  /\ procs = [p \in Procs |->
       [ pc |-> "ready", op |-> IF p \in ById THEN "claim" ELSE "claim-next",
         try |-> 1, mission |-> NULL, token |-> NoToken, answer |-> "none" ]]
  /\ requests = {}

----------------------------------------------------------------------------
\* The client.

Message(p, c) ==
  [ by |-> p, op |-> c.op, try |-> c.try, mission |-> c.mission,
    token |-> c.token,
    stage |-> IF c.op = "claim-next" THEN "sweep" ELSE "update" ]

\* Become c and put its request on the wire.
Send(p, c) ==
  /\ procs' = [procs EXCEPT ![p] = c]
  /\ requests' = requests \cup {Message(p, c)}
  /\ UNCHANGED vars

\* claim_next, or claim of a mission seen on the board.
Ask(p, m) ==
  /\ procs[p].pc = "ready"
  /\ IF p \in ById THEN m \in Missions /\ missions[m].status # "absent"
                   ELSE m = NULL
  /\ Send(p, [procs[p] EXCEPT !.pc = "calling", !.mission = m])

\* The handler returned, raised, or raised PermanentFailure.
Report(p, op) ==
  /\ procs[p].pc = "working"
  /\ Send(p, [procs[p] EXCEPT !.pc = "calling", !.op = op, !.try = 1])

\* No answer in time, or one of the statuses the client retries.
Retry(p) ==
  /\ procs[p].pc = "calling"
  /\ procs[p].try < TriesOf[p]
  /\ Send(p, [procs[p] EXCEPT !.try = @ + 1])

\* SectUnavailable.
GiveUp(p) ==
  /\ procs[p].pc = "calling"
  /\ procs[p].try = TriesOf[p]
  /\ procs' = [procs EXCEPT ![p].pc = "over", ![p].answer = "unavailable"]
  /\ UNCHANGED <<vars, requests>>

\* The runner is killed: nothing is reported, the token is gone.
Crash(p) ==
  /\ procs[p].pc \in {"calling", "working"}
  /\ procs' = [procs EXCEPT ![p].pc = "over"]
  /\ UNCHANGED <<vars, requests>>

----------------------------------------------------------------------------
\* The wire and the server.

\* A copy that is lost on its way, or whose server dies before its next
\* statement, is one that is not served (again): nothing makes it be.

Awaited(q) ==
  LET c == procs[q.by] IN c.pc = "calling" /\ c.op = q.op /\ c.try = q.try

\* The handler answers: its caller becomes c, unless the answer is lost or
\* the caller waits for it no longer.
Answer(q, c) ==
  /\ requests' = requests \ {q}
  /\ \/ Awaited(q) /\ procs' = [procs EXCEPT ![q.by] = c]
     \/ UNCHANGED procs

GivenClaim(q, m, token) ==
  [procs[q.by] EXCEPT !.pc = "working", !.mission = m, !.token = token]

Told(q, answer) == [procs[q.by] EXCEPT !.pc = "over", !.answer = answer]

GoTo(q, stage) ==
  /\ requests' = (requests \ {q}) \cup {[q EXCEPT !.stage = stage]}
  /\ UNCHANGED procs

\* claim_next_mission: the sweep, in a transaction of its own, ...
ServeSweep(q) ==
  /\ q.stage = "sweep"
  /\ \E at \in Moments :
       \/ \E S \in SUBSET Missions : Sweep(at, S)
       \/ /\ \A m \in Missions : ~ Exhausted(missions[m], at)
          /\ UNCHANGED vars
  /\ GoTo(q, "update")

\* ... then a claim, ...
ServeClaimNext(q) ==
  /\ q.stage = "update" /\ q.op = "claim-next"
  /\ \E m \in Missions, asked \in Asked, at \in Moments :
       /\ ClaimNext(m, OwnerOf[q.by], asked, at)
       /\ Answer(q, GivenClaim(q, m, missions'[m].claim_token))

\* ... or 204: nothing to claim, or other statements have what there is locked.
ServeNothing(q) ==
  /\ q.stage = "update" /\ q.op = "claim-next"
  /\ \/ requests # {q}
     \/ \E at \in Moments : \A m \in Missions :
          missions[m].required_art \in ArtsOf[OwnerOf[q.by]] =>
            ~ Claimable(missions[m], at)
  /\ Answer(q, Told(q, "idle"))
  /\ UNCHANGED vars

\* claim_mission.
MayClaim(r, d, at) ==
  \/ Claimable(r, at)
  \/ HeldBy(r, d) /\ r.not_before <= at

ServeClaim(q) ==
  /\ q.stage = "update" /\ q.op = "claim"
  /\ \/ \E asked \in Asked, at \in Moments :
          /\ Claim(q.mission, OwnerOf[q.by], asked, at)
          /\ Answer(q, GivenClaim(q, q.mission, missions'[q.mission].claim_token))
     \/ /\ \E at \in Moments : ~ MayClaim(missions[q.mission], OwnerOf[q.by], at)
        /\ UNCHANGED vars
        /\ GoTo(q, "inspect")

\* complete_mission and fail_mission: the holder-guarded update, ...
ServeReport(q) ==
  LET m == q.mission
      d == OwnerOf[q.by]
      t == q.token
  IN /\ q.stage = "update" /\ q.op \in ReportOps
     /\ \/ /\ \/ q.op = "complete" /\ Complete(m, d, t)
              \/ q.op = "fail" /\ \E after \in Backoffs, at \in Moments :
                                    FailRetry(m, d, t, after, at)
              \/ q.op # "complete" /\ FailTerminal(m, d, t, q.op = "fail")
           /\ Answer(q, Told(q, "ok"))
        \/ ~ Holds(missions[m], d, t) /\ UNCHANGED vars /\ GoTo(q, "inspect")

\* A replay check that does not compare the token.
MutantIsReplay(r, q) ==
  /\ q.op = "complete"
  /\ r.status = "completed"
  /\ r.claimed_by = OwnerOf[q.by]

IsReplay(r, q) ==
  /\ q.op = "complete"
  /\ r.status = "completed"
  /\ r.claim_token = q.token
  /\ r.claimed_by = OwnerOf[q.by]

\* A conflict that passes the status of an open mission on as the reason.
MutantHolderConflict(r) ==
  CASE r.status = "completed" -> "already_completed"
    [] r.status = "failed"    -> "already_failed"
    [] r.status = "claimed"   -> "reclaimed"
    [] OTHER                  -> r.status

HolderConflict(r) ==
  CASE r.status = "cancelled" -> "cancelled"
    [] r.status = "completed" -> "already_completed"
    [] r.status = "failed"    -> "already_failed"
    [] r.status = "claimed"   -> "reclaimed"
    [] OTHER                  -> "lease_expired"

\* A handler that answers from the status alone: no replay is recognised.
MutantVerdict(q) ==
  IF q.op = "claim" THEN "not_claimable" ELSE HolderConflict(missions[q.mission])

Verdict(q) ==
  CASE q.op = "claim" -> "not_claimable"
    [] q.op # "claim" /\ IsReplay(missions[q.mission], q) -> "ok"
    [] OTHER -> HolderConflict(missions[q.mission])

\* ... and, when it matched nothing, a second look at the row to say why.
ServeInspect(q) ==
  /\ q.stage = "inspect"
  /\ Answer(q, Told(q, Verdict(q)))
  /\ UNCHANGED vars

Serve(q) ==
  \/ ServeSweep(q)
  \/ ServeClaimNext(q)
  \/ ServeNothing(q)
  \/ ServeClaim(q)
  \/ ServeReport(q)
  \/ ServeInspect(q)

\* The master's and the clock's steps.
Environment ==
  /\ (\E m \in Missions : MissionStep(m)) \/ Tick
  /\ UNCHANGED <<procs, requests>>

RunOnceNext ==
  \/ \E p \in Procs, m \in Missions \cup {NULL} : Ask(p, m)
  \/ \E p \in Procs, op \in ReportOps : Report(p, op)
  \/ \E p \in Procs : Retry(p)
  \/ \E p \in Procs : GiveUp(p)
  \/ \E p \in Procs : Crash(p)
  \/ \E q \in requests : Serve(q)
  \/ Environment

RunOnceSpec == RunOnceInit /\ [][RunOnceNext]_runOnceVars

----------------------------------------------------------------------------
\* The run a process was given, and what the board has on record for it.
OnRecord(p) == runs[procs[p].mission][procs[p].token].report

Recorded(p) ==
  CASE procs[p].op = "complete"       -> {"completed"}
    [] procs[p].op = "fail"           -> {"retried", "failed"}
    [] procs[p].op = "fail-permanent" -> {"failed"}

Reporting(p) == procs[p].op \in ReportOps

(* A process is told "ok" only when the report of its own run is the one   *)
(* on record, however often the request was repeated and whoever else has  *)
(* run or finished the mission since.                                      *)
OkMeansRecorded ==
  \A p \in Procs : Reporting(p) /\ procs[p].answer = "ok" => OnRecord(p) \in Recorded(p)

\* The run is over without a report: its lease ran out and a newer run began.
Superseded(p) ==
  OnRecord(p) = "none" /\ Len(runs[procs[p].mission]) > procs[p].token

\* The refused request repeats a fail that put the mission back on the board.
RepeatsRetry(p) == procs[p].op = "fail" /\ OnRecord(p) = "retried"

CompletedByAnother(p) ==
  \E k \in 1 .. Len(runs[procs[p].mission]) :
    k # procs[p].token /\ runs[procs[p].mission][k].report = "completed"

(* protocol.md 5, 6: complete is safe to retry.  A process that is refused *)
(* its complete did not have it recorded, and the reason any report is     *)
(* refused with is the truth although it was read after the update failed: *)
(* the mission is cancelled, completed by another claim, or failed, for    *)
(* good; or the lease ran out and a newer run began.  One exception: where *)
(* the fail of this very run put the mission back, a repeat of it is told  *)
(* that the lease expired, and it did not (FailReplayIsBenign); even then  *)
(* "reclaimed" is said only when a newer run has begun.                    *)
RefusalsAreTrue ==
  \A p \in Procs : Reporting(p) /\ procs[p].answer \in Reasons =>
    LET m      == procs[p].mission
        reason == procs[p].answer
    IN  /\ procs[p].op = "complete" => OnRecord(p) = "none"
        /\ reason = "cancelled" => missions[m].status = "cancelled"
        /\ reason = "already_failed" => missions[m].status = "failed"
        /\ reason = "already_completed" => CompletedByAnother(p)
        /\ reason \in {"reclaimed", "lease_expired"} =>
             Superseded(p) \/ RepeatsRetry(p)
        /\ reason = "reclaimed" => Len(runs[m]) > procs[p].token

(* protocol.md 5: a claim token exists only in the process that won the    *)
(* claim.  No two processes ever work under the same token, retries and    *)
(* answers that arrive late included.                                      *)
OneProcessPerToken ==
  \A p, q \in Procs :
    /\ p # q
    /\ procs[p].token # NoToken
    /\ procs[p].mission = procs[q].mission
    => procs[p].token # procs[q].token

(* architecture.md 7.10: a replay of fail is benign, the report is already *)
(* in.  A process whose failure is on record is not told that it lost the  *)
(* mission.                                                                *)
FailReplayIsBenign ==
  \A p \in Procs :
    procs[p].op = "fail" /\ OnRecord(p) \in Recorded(p) => procs[p].answer \notin Reasons
=============================================================================
