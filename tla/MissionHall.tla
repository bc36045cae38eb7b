---------------------------- MODULE MissionHall ----------------------------
(***************************************************************************)
(* The Mission Hall: the missions table, the contribution ledger on        *)
(* disciples, and the SQL statements of core/sql.py that change them.      *)
(*                                                                         *)
(* Every state change of the board is one conditional UPDATE in autocommit *)
(* (READ COMMITTED: the row is locked and its guard evaluated on its       *)
(* newest version), so one statement is one action.  A statement's now()   *)
(* is fixed when it starts; it may then wait for a row lock, so an action  *)
(* compares the row with a time `at` up to MaxWait before the clock.       *)
(* A statement that matches no row changes nothing and is not a step.      *)
(*                                                                         *)
(* Columns no guard reads and no property is about are left out: the brief *)
(* and payload, the result, claimed_at, finished_at, posted_by; so is the  *)
(* ORDER BY of claim-next, whose SKIP LOCKED may pass over any better row. *)
(***************************************************************************)
EXTENDS Integers, Sequences, FiniteSets

CONSTANTS
  Missions,    \* ids of mission rows
  Disciples,   \* ids of disciple rows
  NULL,        \* SQL's NULL, in claimed_by
  Arts,        \* skill tags
  ArtsOf,      \* the arts each disciple registered
  AttemptCaps, \* values of max_attempts used when posting
  Leases,      \* lease lengths: a mission's own, or one asked for in a request
  Delays,      \* how far ahead not_before may be posted
  Backoffs,    \* values of retry_after_seconds
  Penalty,     \* SECT_FAILURE_POINT_PENALTY
  MaxWait,     \* bound: how long a statement may wait for a row lock
  MaxTime      \* bound: the clock's horizon

ASSUME TablesAssumption ==
  IsFiniteSet(Missions) /\ NULL \notin Disciples
ASSUME ArtsAssumption == ArtsOf \in [Disciples -> SUBSET Arts]
\* 0001_init.sql: CHECK max_attempts and lease_seconds; models.py: ge=0.
ASSUME PostingAssumption ==
  /\ AttemptCaps \subseteq 1 .. 100
  /\ Leases \subseteq Nat \ {0}
  /\ Delays \subseteq Nat /\ Backoffs \subseteq Nat
ASSUME PenaltyAssumption == Penalty \in Int
ASSUME TimeAssumption == MaxWait \in Nat /\ MaxTime \in Nat

VARIABLES
  missions, \* the missions table: a row per id, status "absent" before INSERT
  ledger,   \* the contribution columns of the disciples table
  now,      \* the database's clock
  runs      \* history: for each mission the claims that minted a token, oldest
            \* first, each with the report accepted for it; the k-th token is k

vars == <<missions, ledger, now, runs>>

----------------------------------------------------------------------------
\* Rows.

NoToken == 0  \* the NULL of claim_token; minted tokens are 1, 2, ...
NoLease == 0  \* the NULL of lease_expires_at; granted leases end after time 0
Unset   == 0  \* no lease length in the request

Pending  == {"open", "claimed"}
Terminal == {"completed", "failed", "cancelled"}

\* What missions.error says: a disciple's report, the sweep's note, or both.
Notes == {"reported", "exhausted"}

Row == [ status: {"absent"} \cup Pending \cup Terminal,
         required_art: Arts \cup {NULL},
         attempts: Nat,
         max_attempts: Nat,
         lease_seconds: Nat,
         not_before: Int,
         claimed_by: Disciples \cup {NULL},
         claim_token: Nat,
         lease_expires_at: Int,
         error: SUBSET Notes ]

Account == [ points: Nat, completed: Nat, failed: Nat, reputation: Int ]

Run == [by: Disciples, report: {"none", "retried", "completed", "failed"}]

TypeOK ==
  /\ missions \in [Missions -> Row]
  /\ ledger \in [Disciples -> Account]
  /\ now \in Nat
  /\ runs \in [Missions -> Seq(Run)]

AbsentRow ==
  [ status |-> "absent", required_art |-> NULL, attempts |-> 0,
    max_attempts |-> 0, lease_seconds |-> 0, not_before |-> 0,
    claimed_by |-> NULL, claim_token |-> NoToken,
    lease_expires_at |-> NoLease, error |-> {} ]

\* A row as INSERT_MISSION writes it.
PostedRow(art, cap, lease, start) ==
  [ status |-> "open", required_art |-> art, attempts |-> 0,
    max_attempts |-> cap, lease_seconds |-> lease, not_before |-> start,
    claimed_by |-> NULL, claim_token |-> NoToken,
    lease_expires_at |-> NoLease, error |-> {} ]

NewAccount == [points |-> 0, completed |-> 0, failed |-> 0, reputation |-> 0]

Init ==
  /\ missions = [m \in Missions |-> AbsentRow]
  /\ ledger = [d \in Disciples |-> NewAccount]
  /\ now = 0
  /\ runs = [m \in Missions |-> <<>>]

----------------------------------------------------------------------------
\* Guards.

\* A claimable predicate that forgets the backoff.
MutantClaimableEarly(r, at) ==
  /\ r.attempts < r.max_attempts
  /\ \/ r.status = "open"
     \/ r.status = "claimed" /\ r.lease_expires_at <= at

\* A claimable predicate that takes a mission from a holder whose lease runs.
MutantClaimableLive(r, at) ==
  /\ r.not_before <= at
  /\ r.attempts < r.max_attempts
  /\ r.status \in Pending

Claimable(r, at) ==
  /\ r.not_before <= at
  /\ r.attempts < r.max_attempts
  /\ \/ r.status = "open"
     \/ r.status = "claimed" /\ r.lease_expires_at <= at

HeldBy(r, d) == r.status = "claimed" /\ r.claimed_by = d

\* A holder's proof without the token.
MutantHoldsAnyToken(r, d, t) == HeldBy(r, d)

\* A holder's proof without the status: a replay is accepted again.
MutantHoldsReplay(r, d, t) == r.claimed_by = d /\ r.claim_token = t

Holds(r, d, t) == HeldBy(r, d) /\ r.claim_token = t

\* A sweep that does not wait for the lease.
MutantExhaustedLive(r, at) ==
  r.status = "claimed" /\ r.attempts >= r.max_attempts

Exhausted(r, at) ==
  /\ r.status = "claimed"
  /\ r.lease_expires_at <= at
  /\ r.attempts >= r.max_attempts

\* A cancel that does not ask whether the mission has finished.
MutantCancellable(r) == r.status # "absent"

Cancellable(r) == r.status \in Pending

----------------------------------------------------------------------------
\* What the statements write.

Lease(r, asked) == IF asked = Unset THEN r.lease_seconds ELSE asked

Renewed(r, asked, at) ==
  [r EXCEPT !.lease_expires_at = at + Lease(r, asked)]

\* A claim-next that treats its own lapsed claim as CLAIM_MISSION does.
MutantGranted(r, d, token, asked, at) ==
  LET held == [Renewed(r, asked, at) EXCEPT !.status = "claimed", !.claimed_by = d]
  IN  IF HeldBy(r, d) THEN held
      ELSE [held EXCEPT !.claim_token = token, !.attempts = @ + 1]

\* A claim that mints a token: a new holder, and an attempt used.
Granted(r, d, token, asked, at) ==
  LET held == [Renewed(r, asked, at) EXCEPT !.status = "claimed", !.claimed_by = d]
  IN  [held EXCEPT !.claim_token = token, !.attempts = @ + 1]

Noted(r, status, error) == [r EXCEPT !.status = status, !.error = error]

Unleased(r) == [r EXCEPT !.claim_token = NoToken, !.lease_expires_at = NoLease]

CompletedRow(r) == Noted(r, "completed", {})

FailedRow(r) == Noted(r, "failed", {"reported"})

\* A retry that leaves the run's token and lease on the row.
MutantReleasedRow(r, until) ==
  [Noted(r, "open", {"reported"}) EXCEPT !.claimed_by = NULL, !.not_before = until]

ReleasedRow(r, until) ==
  [Noted(Unleased(r), "open", {"reported"})
     EXCEPT !.claimed_by = NULL, !.not_before = until]

CancelledRow(r) == [Unleased(r) EXCEPT !.status = "cancelled"]

\* A sweep that writes its note over the disciple's report.
MutantSweptRow(r) == Noted(r, "failed", {"exhausted"})

SweptRow(r) == Noted(r, "failed", r.error \cup {"exhausted"})

\* Binary exponents: how often a is doubled until it reaches b.
Doublings(a, b) ==
  CHOOSE i \in 0 .. b : a * 2^i >= b /\ \A k \in 0 .. i - 1 : a * 2^k < b

\* completed / n in double precision is the nearest multiple of 2^-s, for
\* s = 52 + Doublings(completed, n).  Where that is below the quotient: by how
\* much, in units of 2^-s / n.
Shortfall(completed, n) ==
  LET r == ((2^26 % n) * (2^26 % n) * completed * 2^Doublings(completed, n)) % n
  IN  IF 2 * r < n THEN r ELSE 0

\* points times that quotient, where the exact product is the integer `whole`:
\* at most half the distance to the next double, and it is rounded to `whole`.
RoundsToWhole(points, completed, n, whole) ==
  4 * points * Shortfall(completed, n)
    <= n * 2^(Doublings(1, whole) + Doublings(completed, n))

\* floor(points * success_rate) in double precision: the exact floor, but one
\* less where the exact product is an integer that its double falls short of.
Reputation(points, completed, failed) ==
  LET n     == completed + failed
      whole == (points * completed) \div n
  IN  IF completed = 0 THEN 0
      ELSE IF whole * n < points * completed \/ RoundsToWhole(points, completed, n, whole)
           THEN whole ELSE whole - 1

\* A credit whose rate is computed from the counters before the update.
MutantCredited(a) ==
  [ points |-> a.points + 1, completed |-> a.completed + 1, failed |-> a.failed,
    reputation |-> Reputation(a.points + 1, a.completed, a.failed) ]

Credited(a) ==
  [ points |-> a.points + 1, completed |-> a.completed + 1, failed |-> a.failed,
    reputation |-> Reputation(a.points + 1, a.completed + 1, a.failed) ]

\* A debit without GREATEST(0, ...).
MutantDebited(a) ==
  [ points |-> a.points - Penalty, completed |-> a.completed,
    failed |-> a.failed + 1,
    reputation |-> Reputation(a.points - Penalty, a.completed, a.failed + 1) ]

Debited(a) ==
  LET points == IF a.points > Penalty THEN a.points - Penalty ELSE 0
  IN  [ points |-> points, completed |-> a.completed, failed |-> a.failed + 1,
        reputation |-> Reputation(points, a.completed, a.failed + 1) ]

\* History: a claim mints the next token, a report is recorded on its run.
FreshToken(m) == Len(runs[m]) + 1

Begin(m, d) == runs' = [runs EXCEPT ![m] = Append(@, [by |-> d, report |-> "none"])]

Record(m, t, report) == runs' = [runs EXCEPT ![m][t].report = report]

----------------------------------------------------------------------------
\* Statements.  `at` is the statement's now(); d is the authenticated caller
\* and t a token it was given, now or in an earlier run.

Moments == {at \in 0 .. now : now - at <= MaxWait}

Given(m, d) == {t \in 1 .. Len(runs[m]) : runs[m][t].by = d}

\* INSERT_MISSION, when the idempotency key is new.
Post(m, art, cap, lease, delay) ==
  /\ missions[m].status = "absent"
  /\ missions' = [missions EXCEPT ![m] = PostedRow(art, cap, lease, now + delay)]
  /\ UNCHANGED <<ledger, now, runs>>

Grant(m, d, asked, at) ==
  /\ Claimable(missions[m], at)
  /\ missions' = [missions EXCEPT ![m] = Granted(@, d, FreshToken(m), asked, at)]
  /\ Begin(m, d)
  /\ UNCHANGED <<ledger, now>>

\* CLAIM_MISSION: claim one mission by id, whatever its art.  Claiming what one
\* holds already keeps token and attempts, and asks neither for attempts left
\* nor for a lease that has run out.
ClaimHeld(m, d, asked, at) ==
  /\ HeldBy(missions[m], d)
  /\ missions[m].not_before <= at
  /\ missions' = [missions EXCEPT ![m] = Renewed(@, asked, at)]
  /\ UNCHANGED <<ledger, now, runs>>

Claim(m, d, asked, at) ==
  \/ ClaimHeld(m, d, asked, at)
  \/ ~ HeldBy(missions[m], d) /\ Grant(m, d, asked, at)

\* CLAIM_NEXT: the caller may ask for any of the arts it registered; even what
\* it holds already, once the lease has run out, is a new run.
ClaimNext(m, d, asked, at) ==
  /\ missions[m].required_art \in ArtsOf[d]
  /\ Grant(m, d, asked, at)

\* HEARTBEAT_MISSION: a lease that has run out can still be revived.
Heartbeat(m, d, t, asked, at) ==
  /\ Holds(missions[m], d, t)
  /\ missions' = [missions EXCEPT ![m] = Renewed(@, asked, at)]
  /\ UNCHANGED <<ledger, now, runs>>

\* COMPLETE_MISSION with its credit CTE.
Complete(m, d, t) ==
  /\ Holds(missions[m], d, t)
  /\ missions' = [missions EXCEPT ![m] = CompletedRow(@)]
  /\ ledger' = [ledger EXCEPT ![missions[m].claimed_by] = Credited(@)]
  /\ Record(m, t, "completed")
  /\ UNCHANGED now

\* FAIL_MISSION, back to the board.
FailRetry(m, d, t, after, at) ==
  /\ Holds(missions[m], d, t)
  /\ missions[m].attempts < missions[m].max_attempts
  /\ missions' = [missions EXCEPT ![m] = ReleasedRow(@, at + after)]
  /\ Record(m, t, "retried")
  /\ UNCHANGED <<ledger, now>>

\* FAIL_MISSION, terminal, with its debit CTE.
FailTerminal(m, d, t, retryable) ==
  /\ Holds(missions[m], d, t)
  /\ retryable => missions[m].attempts >= missions[m].max_attempts
  /\ missions' = [missions EXCEPT ![m] = FailedRow(@)]
  /\ ledger' = [ledger EXCEPT ![missions[m].claimed_by] = Debited(@)]
  /\ Record(m, t, "failed")
  /\ UNCHANGED now

\* CANCEL_MISSION, the master's.
Cancel(m) ==
  /\ Cancellable(missions[m])
  /\ missions' = [missions EXCEPT ![m] = CancelledRow(@)]
  /\ UNCHANGED <<ledger, now, runs>>

\* SWEEP_EXHAUSTED, run by every poll and claim-next, and by /admin/sweep.  It
\* looks at the rows its snapshot shows it: S, of those exhausted by now.
Sweep(at, S) ==
  /\ S # {}
  /\ \A m \in S : Exhausted(missions[m], at)
  /\ missions' = [m \in Missions |-> IF m \in S THEN SweptRow(missions[m])
                                                ELSE missions[m]]
  /\ UNCHANGED <<ledger, now, runs>>

Tick ==
  /\ now < MaxTime
  /\ now' = now + 1
  /\ UNCHANGED <<missions, ledger, runs>>

Asked == Leases \cup {Unset}

MissionStep(m) ==
  \/ \E art \in Arts, cap \in AttemptCaps, lease \in Leases, delay \in Delays :
       Post(m, art, cap, lease, delay)
  \/ Cancel(m)

ClaimStep(m, d) ==
  \E asked \in Asked, at \in Moments :
    \/ Claim(m, d, asked, at)
    \/ ClaimNext(m, d, asked, at)

HolderStep(m, d, t) ==
  \/ \E asked \in Asked, at \in Moments : Heartbeat(m, d, t, asked, at)
  \/ Complete(m, d, t)
  \/ \E after \in Backoffs, at \in Moments : FailRetry(m, d, t, after, at)
  \/ \E retryable \in BOOLEAN : FailTerminal(m, d, t, retryable)

Next ==
  \/ \E m \in Missions : MissionStep(m)
  \/ \E m \in Missions, d \in Disciples : ClaimStep(m, d)
  \/ \E m \in Missions, d \in Disciples : \E t \in Given(m, d) : HolderStep(m, d, t)
  \/ \E at \in Moments, S \in SUBSET Missions : Sweep(at, S)
  \/ Tick

Spec == Init /\ [][Next]_vars

----------------------------------------------------------------------------
\* Safety.

ColumnsFit(r) ==
  /\ r.status = "open" =>
       /\ r.claimed_by = NULL
       /\ r.claim_token = NoToken
       /\ r.lease_expires_at = NoLease
       /\ r.attempts < r.max_attempts
  /\ r.status = "claimed" =>
       /\ r.claimed_by # NULL
       /\ r.claim_token # NoToken
       /\ r.lease_expires_at # NoLease

(* protocol.md: an open mission never names a holder and has no token or   *)
(* lease; a claimed one has all three (CHECK claimed_implies_holder); and  *)
(* an open mission has attempts left, so it cannot be stuck on the board.  *)
HolderColumns == \A m \in Missions : ColumnsFit(missions[m])

(* No mission is held before its not_before: neither the delay it was      *)
(* posted with nor the backoff of a retry can be claimed around.           *)
BackoffHonoured ==
  \A m \in Missions :
    missions[m].status = "claimed" => missions[m].not_before <= now

\* A row and the history of its claims agree.
RunsFit(r, s) ==
  /\ Len(s) = r.attempts
  /\ r.attempts <= r.max_attempts
  /\ \A k \in 1 .. Len(s) - 1 : s[k].report \in {"none", "retried"}
  /\ r.status = "absent" => s = <<>>
  /\ r.status = "open" => s = <<>> \/ s[Len(s)].report = "retried"
  /\ r.status \in {"claimed", "completed", "failed"} =>
       /\ s # <<>>
       /\ s[Len(s)].by = r.claimed_by
       /\ r.claim_token = Len(s)
  /\ r.status = "claimed" => s[Len(s)].report = "none"
  /\ r.status = "completed" => s[Len(s)].report = "completed"
  /\ r.status = "failed" =>
       s[Len(s)].report = IF "exhausted" \in r.error THEN "none" ELSE "failed"
  /\ r.status = "cancelled" =>
       s = <<>> \/ s[Len(s)].report \in {"none", "retried"}

(* A claim token fences its run.  Every attempt the row counts minted one  *)
(* token, within the budget; a token older than the newest was superseded  *)
(* or retried and no terminal report was taken from it; the newest is the  *)
(* one on a claimed row, unreported; and a mission is completed exactly    *)
(* when its newest run, and no other, was reported complete.               *)
OneRunDecides == \A m \in Missions : RunsFit(missions[m], runs[m])

Outcomes(d, status) ==
  {m \in Missions : missions[m].status = status /\ missions[m].claimed_by = d}

Swept == {m \in Missions : "exhausted" \in missions[m].error}

(* The ledger counts what the board shows, once per mission, however many  *)
(* stale, repeated or concurrent reports arrive: every completion of the   *)
(* disciple, and every failure it reported (the sweep moves no ledger).    *)
LedgerMatchesBoard ==
  \A d \in Disciples :
    /\ ledger[d].completed = Cardinality(Outcomes(d, "completed"))
    /\ ledger[d].failed = Cardinality(Outcomes(d, "failed") \ Swept)

(* architecture.md 16.3: the reputation stored is that of the counters     *)
(* stored beside it, computed in double precision.  So it is never more    *)
(* than points * success rate, and less than one below it unless that is   *)
(* an integer, where it may be one below.  And penalties never make a      *)
(* disciple worth more than the missions it completed.                     *)
ReputationIsCurrent ==
  \A d \in Disciples :
    LET a == ledger[d]
        n == a.completed + a.failed
    IN  /\ a.reputation = Reputation(a.points, a.completed, a.failed)
        /\ a.reputation * n <= a.points * a.completed
        /\ a.points * a.completed <= (a.reputation + 1) * n
        /\ Penalty >= 0 => a.points <= a.completed

(* The sweep keeps what the last disciple said: a mission that was retried *)
(* and then abandoned fails with both the report and the sweep's note.     *)
SweepKeepsReport ==
  \A m \in Missions :
    "exhausted" \in missions[m].error =>
      /\ missions[m].status = "failed"
      /\ missions[m].attempts = missions[m].max_attempts
      /\ (\E k \in 1 .. Len(runs[m]) : runs[m][k].report = "retried") =>
           "reported" \in missions[m].error

(* 0002_peaks.sql: the stored counters "match the live counts 0.1 exposed" *)
(* of the failed missions a disciple is named on.                          *)
LedgerCountsEveryFailure ==
  \A d \in Disciples :
    ledger[d].failed = Cardinality(Outcomes(d, "failed"))

----------------------------------------------------------------------------
\* What a step may never do.

(* A finished mission stays as it is: no late report, replayed request,    *)
(* claim, cancel or sweep touches the row again.                           *)
TerminalIsFinal ==
  [][\A m \in Missions :
       missions[m].status \in Terminal => missions'[m] = missions[m]]_vars

(* While a lease runs nobody else begins a run of the mission, and a       *)
(* holder loses it only by lapse, its own report or the master's cancel.   *)
LeaseProtectsHolder ==
  [][\A m \in Missions :
       missions[m].status = "claimed" /\ missions[m].lease_expires_at > now =>
         /\ runs'[m] = runs[m] =>
              /\ missions'[m].status \in {"claimed", "cancelled"}
              /\ missions'[m].claimed_by = missions[m].claimed_by
         /\ Len(runs'[m]) = Len(runs[m])]_vars

----------------------------------------------------------------------------
\* The Mission Hall keeps the promise of Lifecycle.

Ripe ==
  {m \in Missions :
     \/ missions[m].status = "open" /\ missions[m].not_before <= now
     \/ missions[m].status = "claimed" /\ missions[m].lease_expires_at <= now}

Board == INSTANCE Lifecycle WITH
  status <- [m \in Missions |-> missions[m].status],
  budget <- [m \in Missions |-> missions[m].max_attempts],
  ripe <- Ripe,
  Budgets <- AttemptCaps

(* Every statement is a step of the abstract board, or changes nothing it  *)
(* shows: sweeping only spent missions, starting only ripe ones, reporting *)
(* only on the newest run.                                                 *)
BoardSpec == Board!Spec
=============================================================================
