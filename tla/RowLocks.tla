------------------------------ MODULE RowLocks ------------------------------
(***************************************************************************)
(* The statements of MissionHall as PostgreSQL runs them: concurrent       *)
(* autocommit transactions at READ COMMITTED, one per connection.          *)
(*                                                                         *)
(* A statement takes its snapshot and fixes now() when it starts; picks    *)
(* the rows its WHERE clause matches there; locks them one after another,  *)
(* each time evaluating the clause again on the row's newest version; and  *)
(* shows what it wrote only when it commits.  It may lose its connection   *)
(* or be chosen as the victim of a deadlock, and is then rolled back.      *)
(*                                                                         *)
(* Left out: lease lengths asked for in a request, posting (an INSERT      *)
(* waits for no row), and the shared key locks foreign keys take on        *)
(* disciples and peaks, which conflict with no statement modelled here.    *)
(***************************************************************************)
EXTENDS MissionHall, SequencesExt

CONSTANTS
  Boards,       \* boards to start from: the missions as they were posted
  Sessions,     \* connections of the pools of all instances
  Peaks,        \* ids of peak rows
  HomeOf,       \* the peak of each disciple, or NULL
  PeakOf,       \* the peak each mission names, or NULL
  Priority,     \* missions.priority
  Created,      \* missions.created_at
  MaxStatements \* bound: statements started in all

ASSUME SessionsAssumption == NULL \notin Sessions /\ MaxStatements \in Nat
\* A row of one table is no row of the other, and none is NULL.
ASSUME RowsAssumption == Missions \cap Disciples = {} /\ NULL \notin Account
ASSUME BoardsAssumption ==
  Boards \subseteq [Missions -> {PostedRow(art, cap, lease, delay) :
                art \in Arts, cap \in AttemptCaps, lease \in Leases, delay \in Delays}]
ASSUME OrderAssumption ==
  /\ HomeOf \in [Disciples -> Peaks \cup {NULL}]
  /\ PeakOf \in [Missions -> Peaks \cup {NULL}]
  /\ Priority \in [Missions -> Int] /\ Created \in [Missions -> Int]

VARIABLES
  stmt,  \* the statement each connection is running
  locks, \* the connection that holds each row's lock, or NULL
  left   \* statements that may still start

lockVars == <<missions, ledger, now, runs, stmt, locks, left>>

Idle == [kind |-> "idle"]

\* kind and parameters; the snapshot's matches still to be locked, in order; the
\* new versions of the rows that matched; the holder's new ledger.  The last two
\* are history: what the snapshot offered, and what others had locked meanwhile.
Statement(kind, d, t, after, todo) ==
  [ kind |-> kind, by |-> d, token |-> t, after |-> after, at |-> now,
    todo |-> todo, rows |-> <<>>, account |-> NULL,
    saw |-> IF kind = "claim_next" THEN Range(todo) ELSE {},
    busy |-> IF kind = "claim_next" THEN {m \in Missions : locks[m] # NULL} ELSE {} ]

Busy(s) == stmt[s].kind # "idle"

Tables == Missions \cup Disciples

LockInit ==
  /\ missions \in Boards
  /\ ledger = [d \in Disciples |-> NewAccount]
  /\ now = 0
  /\ runs = [m \in Missions |-> <<>>]
  /\ stmt = [s \in Sessions |-> Idle]
  /\ locks = [x \in Tables |-> NULL]
  /\ left = MaxStatements

----------------------------------------------------------------------------
\* What a statement looks for and what it writes.

Matches(q, r) ==
  CASE q.kind = "claim" ->
         \/ HeldBy(r, q.by) /\ r.not_before <= q.at
         \/ Claimable(r, q.at)
    [] q.kind = "claim_next" ->
         r.required_art \in ArtsOf[q.by] /\ Claimable(r, q.at)
    [] q.kind \in {"heartbeat", "complete", "fail"} -> Holds(r, q.by, q.token)
    [] q.kind = "cancel" -> Cancellable(r)
    [] q.kind = "sweep" -> Exhausted(r, q.at)

Retries(q, r) == q.after # NULL /\ r.attempts < r.max_attempts

Written(q, m, r) ==
  CASE q.kind \in {"claim", "claim_next"} ->
         IF q.kind = "claim" /\ HeldBy(r, q.by) THEN Renewed(r, Unset, q.at)
         ELSE Granted(r, q.by, FreshToken(m), Unset, q.at)
    [] q.kind = "heartbeat" -> Renewed(r, Unset, q.at)
    [] q.kind = "complete" -> CompletedRow(r)
    [] q.kind = "fail" ->
         IF Retries(q, r) THEN ReleasedRow(r, q.at + q.after) ELSE FailedRow(r)
    [] q.kind = "cancel" -> CancelledRow(r)
    [] q.kind = "sweep" -> SweptRow(r)

\* What the written row adds to the history of the mission's claims.
Chronicle(q, m) ==
  CASE q.kind \in {"claim", "claim_next"} /\ q.rows[m].claim_token > Len(runs[m]) ->
         Append(runs[m], [by |-> q.by, report |-> "none"])
    [] q.kind \in {"complete", "fail"} ->
         LET status == q.rows[m].status
         IN  [runs[m] EXCEPT ![q.token].report =
                IF status = "open" THEN "retried" ELSE status]
    [] OTHER -> runs[m]

\* CLAIM_NEXT's ORDER BY: the caller's own peak, then priority, then age.
Better(d, a, b) ==
  LET own(m) == HomeOf[d] # NULL /\ PeakOf[m] = HomeOf[d]
  IN  \/ own(a) /\ ~ own(b)
      \/ /\ own(a) <=> own(b)
         /\ \/ Priority[a] > Priority[b]
            \/ Priority[a] = Priority[b] /\ Created[a] < Created[b]

Sorted(d, S) ==
  {todo \in SetToSeqs(S) :
     \A i, j \in DOMAIN todo : i < j => ~ Better(d, todo[j], todo[i])}

----------------------------------------------------------------------------
\* A statement starts: parameters, now() and the matches in its snapshot.  A
\* statement that matches nothing there ends at once and changes nothing.

Launch(s, q) ==
  /\ ~ Busy(s) /\ left > 0
  /\ q.todo # <<>>
  /\ stmt' = [stmt EXCEPT ![s] = q]
  /\ left' = left - 1
  /\ UNCHANGED <<missions, ledger, now, runs, locks>>

\* A statement on the one row of mission m.
StartOne(s, q, m) ==
  /\ Matches(q, missions[m])
  /\ Launch(s, [q EXCEPT !.todo = <<m>>])

StartClaim(s, d, m) == StartOne(s, Statement("claim", d, NoToken, NULL, <<>>), m)

StartReport(s, d, m) ==
  \E t \in Given(m, d) :
    \/ \E kind \in {"heartbeat", "complete"} :
         StartOne(s, Statement(kind, d, t, NULL, <<>>), m)
    \/ \E after \in Backoffs \cup {NULL} :
         StartOne(s, Statement("fail", d, t, after, <<>>), m)

StartCancel(s, m) == StartOne(s, Statement("cancel", NULL, NoToken, NULL, <<>>), m)

Matching(q) == {m \in Missions : Matches(q, missions[m])}

StartClaimNext(s, d) ==
  LET found == Matching(Statement("claim_next", d, NoToken, NULL, <<>>))
  IN  \E todo \in Sorted(d, found) :
        Launch(s, Statement("claim_next", d, NoToken, NULL, todo))

\* The sweep has no ORDER BY: it meets its rows in whatever order they are read.
StartSweep(s) ==
  LET found == Matching(Statement("sweep", NULL, NoToken, NULL, <<>>))
  IN  \E todo \in SetToSeqs(found) :
        Launch(s, Statement("sweep", NULL, NoToken, NULL, todo))

----------------------------------------------------------------------------
\* A statement runs.

\* A claim-next that picks its mission in a plain subquery and only then locks.
MutantStillMatches(q, r) == q.kind = "claim_next" \/ Matches(q, r)

\* The WHERE clause on the newest version of the row just locked.
StillMatches(q, r) == Matches(q, r)

\* A claim-next that gives up when the row it waited for is gone.
MutantRest(q, matched) == IF q.kind = "claim_next" THEN <<>> ELSE Tail(q.todo)

\* LIMIT 1 counts the rows that were locked and still matched.
Rest(q, matched) ==
  IF q.kind = "claim_next" /\ matched THEN <<>> ELSE Tail(q.todo)

Examined(q, m) ==
  IF StillMatches(q, missions[m])
  THEN [q EXCEPT !.todo = Rest(q, TRUE),
                 !.rows = [n \in DOMAIN @ \cup {m} |->
                             IF n = m THEN Written(q, m, missions[m]) ELSE @[n]]]
  ELSE [q EXCEPT !.todo = Rest(q, FALSE)]

Noticed(q, m) == IF q.kind = "claim_next" THEN [q EXCEPT !.busy = @ \cup {m}] ELSE q

\* The lock stays until the statement ends, even on a row that matches no more.
LockRow(s) ==
  /\ Busy(s) /\ stmt[s].todo # <<>>
  /\ LET m == Head(stmt[s].todo)
     IN  /\ locks[m] = NULL
         /\ locks' = [locks EXCEPT ![m] = s]
         /\ stmt' = [p \in Sessions |-> IF p = s THEN Examined(stmt[s], m)
                                                 ELSE Noticed(stmt[p], m)]
  /\ UNCHANGED <<missions, ledger, now, runs, left>>

\* FOR UPDATE SKIP LOCKED.
Skip(s) ==
  /\ Busy(s) /\ stmt[s].kind = "claim_next" /\ stmt[s].todo # <<>>
  /\ locks[Head(stmt[s].todo)] # NULL
  /\ stmt' = [stmt EXCEPT ![s].todo = Tail(@)]
  /\ UNCHANGED <<missions, ledger, now, runs, locks, left>>

\* A complete() that credits the disciple before it locks the mission.
MutantMovesLedger(q) ==
  /\ q.kind \in {"complete", "fail"}
  /\ \/ q.kind = "complete" /\ q.todo # <<>>
     \/ \E m \in DOMAIN q.rows : q.rows[m].status \in Terminal

\* The credit and debit CTEs run on the row the first CTE returned.
MovesLedger(q) ==
  /\ q.kind \in {"complete", "fail"}
  /\ \E m \in DOMAIN q.rows : q.rows[m].status \in Terminal

LockAccount(s) ==
  /\ Busy(s) /\ MovesLedger(stmt[s]) /\ stmt[s].account = NULL
  /\ LET d == stmt[s].by
     IN  /\ locks[d] = NULL
         /\ locks' = [locks EXCEPT ![d] = s]
         /\ stmt' = [stmt EXCEPT ![s].account =
              IF stmt[s].kind = "complete" THEN Credited(ledger[d]) ELSE Debited(ledger[d])]
  /\ UNCHANGED <<missions, ledger, now, runs, left>>

\* Locks kept on rows that were locked and turned out not to match.
MutantReleased(s) ==
  [x \in Tables |->
     IF x \in DOMAIN stmt[s].rows \/ x = stmt[s].by THEN NULL ELSE locks[x]]

Released(s) == [x \in Tables |-> IF locks[x] = s THEN NULL ELSE locks[x]]

End(s) ==
  /\ locks' = Released(s)
  /\ stmt' = [stmt EXCEPT ![s] = Idle]
  /\ UNCHANGED <<now, left>>

Commit(s) ==
  /\ Busy(s) /\ stmt[s].todo = <<>>
  /\ MovesLedger(stmt[s]) => stmt[s].account # NULL
  /\ LET q == stmt[s]
     IN  /\ missions' = [m \in Missions |-> IF m \in DOMAIN q.rows THEN q.rows[m]
                                            ELSE missions[m]]
         /\ ledger' = [d \in Disciples |-> IF d = q.by /\ MovesLedger(q) THEN q.account
                                           ELSE ledger[d]]
         /\ runs' = [m \in Missions |-> IF m \in DOMAIN q.rows THEN Chronicle(q, m)
                                        ELSE runs[m]]
  /\ End(s)

\* The connection is lost, or the deadlock detector picks this statement.
Rollback(s) ==
  /\ Busy(s)
  /\ End(s)
  /\ UNCHANGED <<missions, ledger, runs>>

LockTick ==
  /\ Tick
  /\ \A s \in Sessions : Busy(s) => now - stmt[s].at < MaxWait
  /\ UNCHANGED <<stmt, locks, left>>

Start(s) ==
  \/ \E d \in Disciples, m \in Missions : StartClaim(s, d, m) \/ StartReport(s, d, m)
  \/ \E d \in Disciples : StartClaimNext(s, d)
  \/ \E m \in Missions : StartCancel(s, m)
  \/ StartSweep(s)

LockNext ==
  \/ \E s \in Sessions :
       Start(s) \/ LockRow(s) \/ Skip(s) \/ LockAccount(s) \/ Commit(s) \/ Rollback(s)
  \/ LockTick

LockSpec == LockInit /\ [][LockNext]_lockVars

----------------------------------------------------------------------------
(* Statements, locks and the rows about to be written fit together: a lock *)
(* has a statement under way behind it, and a statement writes only rows   *)
(* whose locks it holds.                                                   *)
LocksTypeOK ==
  /\ TypeOK
  /\ locks \in [Tables -> Sessions \cup {NULL}] /\ left \in 0 .. MaxStatements
  /\ \A x \in Tables : locks[x] # NULL => Busy(locks[x])
  /\ \A s \in Sessions : Busy(s) =>
       /\ \A m \in DOMAIN stmt[s].rows :
            stmt[s].rows[m] \in Row /\ locks[m] = s
       /\ stmt[s].account # NULL =>
            stmt[s].account \in Account /\ locks[stmt[s].by] = s

(* sql.py: "A mission's state never changes via read-then-write."  Each    *)
(* statement, however it overlaps the others, takes effect at its commit   *)
(* as one step of MissionHall: on a row that satisfies its guard then, and *)
(* on the ledger as it is then; a statement rolled back has no effect.     *)
StatementsAreAtomic == [][UNCHANGED vars \/ Next]_vars

(* claim_next_mission: "Atomically take the best matching mission."  Once  *)
(* claim-next has what it will take, every better mission its snapshot     *)
(* offered, or every mission if it takes none, was locked by another       *)
(* statement at some time since it started: a worker goes away empty only  *)
(* when others were at work on all there was.                              *)
BestOfTheRest ==
  \A s \in Sessions : LET q == stmt[s] IN
    Busy(s) /\ q.kind = "claim_next" /\ q.todo = <<>> =>
      \A m \in q.saw \ DOMAIN q.rows :
        (\A taken \in DOMAIN q.rows : Better(q.by, m, taken)) => m \in q.busy

Awaited(s) ==
  IF ~ Busy(s) THEN NULL
  ELSE IF stmt[s].todo # <<>> /\ stmt[s].kind # "claim_next" THEN locks[Head(stmt[s].todo)]
  ELSE IF MovesLedger(stmt[s]) /\ stmt[s].account = NULL THEN locks[stmt[s].by]
  ELSE NULL

(* Reports, claims and cancels are never in a deadlock: they lock one      *)
(* mission, then perhaps its holder.  Only sweeps, which lock several      *)
(* missions in no fixed order, can wait for one another in a circle.       *)
OnlySweepsDeadlock ==
  \A S \in SUBSET Sessions :
    S # {} /\ S = {Awaited(s) : s \in S} => \A s \in S : stmt[s].kind = "sweep"
=============================================================================
