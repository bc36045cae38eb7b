# The Sect: a TLA+ verification of the mission board

The Sect is a FastAPI service over PostgreSQL (`src/src/sect/core`) and a Python
SDK (`src/src/sect/client.py`). A master posts missions; disciples, usually
short scheduled jobs, claim one, work, report and exit. Nothing supervises a
disciple: every promise the board makes is kept by conditional `UPDATE`s, by
leases, and by tokens that tell one claim from the next. That is what these
modules model, check and prove.

Paths below are relative to `src/src/sect/` unless they start with `docs/` or
`tests/`, which are relative to `src/`.

## 1. The system

| Component | State | Operations | What makes it correct |
|---|---|---|---|
| Mission board (`core/sql.py`, `migrations/0001_init.sql`) | one row per mission: status, attempts, lease, holder, claim token, error | post, claim by id, claim-next, heartbeat, complete, fail, cancel, sweep | one holder at a time; a token fences its run; attempts are bounded; finished is final; nothing stays on the board for ever |
| Contribution ledger (`sql.py` CTEs, `0002_peaks.sql`) | points, completed, failed, reputation per disciple | credit, debit, backfill | counts each outcome once, together with the status |
| Mission handlers (`core/routes/missions.py`) | none between requests; several transactions within one | claim-next sweeps then claims; complete and fail update, then inspect the row to explain a refusal | answers are true although the row moves between two looks |
| SDK worker (`client.py` `Disciple`) | claim tokens in memory | run_once, claim, complete, fail, heartbeat, with retries | a retry repeats no effect; an answer means what it says |
| SDK master (`client.py` `SectMaster`) | none | post, cancel, register, rotate, ... | a retried post with a key posts once |
| Posting (`missions.py` `post_mission`) | idempotency keys | insert or return the original | one mission per key |
| Registry (`routes/disciples.py`, `auth.py`, `deps.py`) | token hashes, arts, active flag | register, update, deactivate, rotate | an old token stops working |
| Peaks (`routes/peaks.py`) | peak rows, a sort hint on missions | create, patch, deactivate, heartbeat | a peak never restricts a claim |
| Migrations (`core/db.py`) | schema_migrations, the advisory lock | run_migrations on boot | each file applied once, in order, whoever boots and whoever dies |
| Browsing (`missions.py`, `sql.py`) | cursors | list, page, get | a page misses nothing that was there |
| Stats, health, app, settings, logs, CLI | none shared | reads and wiring | not state machines |

Handlers share state only through the database. Statements run in autocommit
under READ COMMITTED: a single `UPDATE` locks the row and evaluates its guard on
the newest committed version, and a data-modifying `WITH` moves the ledger in the
same transaction. The SDK talks to handlers over HTTP behind a host that sleeps,
so requests are lost, late and repeated. Schedules overlap, so several processes
present the same disciple's bearer token.

The behaviours a test hardly reaches, with their lines, are the `hazards` of
`PROJECT.json`: races for a row, a holder back from the dead, a reason read after
the fact, a copy of a request that arrives when its sender has moved on, attempts
that must be split exactly between claim, retry and sweep, and workers that never
report.

## 2. The modules

| Module | Models | Built on |
|---|---|---|
| `Lifecycle` | the promise: statuses, budgets, runs, and one bit of waiting per mission | |
| `Settling` | the same with a clock and heartbeats, for liveness | extends and implements `Lifecycle` |
| `MissionHall` | the missions table, the ledger, the clock, and every statement that writes them | implements `Lifecycle` |
| `RunOnce` | processes doing `run_once`, HTTP, and the handlers of claim-next, claim, complete and fail | extends `MissionHall` |
| `MissionHallProofs` | theorems about `MissionHall` | extends `MissionHall` |
| `Migrations` | instances that boot, die and migrate, with the advisory lock | |
| `RowLocks` | the same statements as READ COMMITTED transactions that lock rows one by one | extends and implements `MissionHall` |
| `Posting` | calls of `post_mission`, their retries, and `INSERT ... ON CONFLICT` | |
| `Browse` | a walk through the pages of the mission list beside all that | extends `Posting` |
| `Registry` | requests about disciples, tokens and peaks, statement by statement | |
| `BoardProofs` | more theorems about `MissionHall`, and that it implements `Lifecycle` | extends `MissionHallProofs` |
| `LifecycleProofs` | theorems about `Lifecycle` and `Settling` | extends `Settling` |
| `RunOnceProofs` | theorems about `RunOnce`, and that it implements `MissionHall` | extends `RunOnce`, `BoardProofs` |
| `RowLocksProofs` | theorems about `RowLocks`, and that it implements `MissionHall` | extends `RowLocks`, `BoardProofs` |
| `MigrationsProofs` | theorems about `Migrations` | extends `Migrations` |
| `PostingProofs` | theorems about `Posting` and `Browse` | extends `Browse` |
| `RegistryProofs` | theorems about `Registry` | extends `Registry` |
| `MC...` | values for TLC | the module they are named for |

### Lifecycle

`status`, `budget` (max_attempts) and `runs`, the claims that began a run, are
what a reader of the board sees; `ripe` says that what a mission waits for
(`not_before` of an open one, the lease of a claimed one) is over. `Start` begins
a run of a ripe mission with budget left, `Renew` is a heartbeat or a claim of what
one holds, `Finish`, `Retry` and `Cancel` are the reports and the master's cancel,
`Exhaust` is the sweep, `Pass` is time.

### Settling

Whether a mission ends depends on how long a wait is, which one bit does not say: a
heartbeat sent in time leaves `ripe` as it was. `Settling` adds `fresh`, the missions
whose wait began or was renewed since the clock last moved. `Age` moves the clock and
`Lapse` ends waits, of missions that are not fresh; `KeepAlive` is a heartbeat or a
claim of what one holds, in time or late, and makes its mission fresh again. A tick
of `MissionHall` is `Age` and then `Lapse` of what it makes ripe. `fresh` is history
that the rows do not carry, so `MissionHall` is shown to implement `Lifecycle`, and
`Settling` keeps `Lifecycle`'s variables and steps (`SettlingIsLifecycle`).

### MissionHall

One action per statement of `core/sql.py`: `Post` (`INSERT_MISSION`), `Claim`
(`CLAIM_MISSION`, both branches of its `CASE`), `ClaimNext`, `Heartbeat`,
`Complete` with its credit, `FailRetry` and `FailTerminal` (the two values of
`FAIL_MISSION`'s `CASE`) with the debit, `Cancel`, `Sweep` and `Tick`.

* A row is a record with the columns guards read; `NULL` is a constant in
  `claimed_by` and 0 in the token and lease columns. `"absent"` is a row not
  inserted. The k-th token minted for a mission is the number k: a UUID is only
  ever compared for equality.
* A statement's `now()` is fixed when it begins, and it may wait for a row lock:
  each action takes an `at` at most `MaxWait` behind the clock. So a heartbeat
  that waited can shorten a lease, and a claim can grant one that is already over.
* `runs` is a history variable: who claimed, and which report was accepted for
  that claim. No guard reads it except for the next token's number.
* `Reputation` is the number PostgreSQL stores. `success_rate` is a double and so is
  its product with the points, and both are rounded before `FLOOR`. The errors are far
  below 1/n, so they matter only where the exact product is a whole number: if
  the rate was rounded down, the product may fall short of it. `Shortfall` is the
  rate's error, in integers, and `RoundsToWhole` says whether the product is rounded
  back up. At 23 points, 26 completed and 20 failed it is not: 12 is stored, and 13 is
  exact.
* `error` is a set of notes, because the properties tell apart only a disciple's
  report from the sweep's remark.
* Left out: brief, payload, result, timestamps nobody compares, `posted_by`, and
  the `ORDER BY` of claim-next, which any row lock can overrule (`SKIP LOCKED`);
  `RowLocks` has both.
  A `not_before` in the past acts like one that is now, so delays start at 0.
* `Sweep` takes a set `S` of rows that its guard matches. A statement cannot promise
  more: it takes the rows of its snapshot, and a lease that ran out while it waited
  for a lock is left to the next sweep. `RowLocks` shows that this is what it does.

### RowLocks

`MissionHall` takes each statement for one step. `RowLocks` is the reason why it
may: connections run statements side by side. `Start*` fixes `now()` and the
rows that match in the snapshot (`todo`); `LockRow` takes the next row's lock and
evaluates the `WHERE` clause again on the newest version, as PostgreSQL does after
a wait; `Skip` is `SKIP LOCKED`; `LockAccount` is the credit or debit CTE, which
reads the disciple's row only once it has its lock; `Commit` shows the new versions
and frees the locks; `Rollback` is a lost connection or the deadlock detector. The
guards and the written rows (`Claimable`, `Holds`, `Granted`, `CompletedRow`, ...)
are the operators of `MissionHall`, so there is one translation of each clause.

* `StatementsAreAtomic` is the refinement: every step leaves the tables and the
  history alone or is a step of `MissionHall`, with `at` the statement's `now()`.
  The variables of the two modules are the same, so the mapping is the identity.
* `saw` and `busy` are history variables of a claim-next, read by
  `BestOfTheRest` only.
* A statement that matches nothing in its snapshot is not started; it would change
  nothing. Locks on disciples' and peaks' rows that foreign keys take are shared and
  conflict with none of these statements (none changes a key).
* The wait of a statement for a lock is an action that is not enabled. A circle of
  waits is therefore a state that only `Rollback` leaves, as in the server.

### Posting

A call is a client: `Call`, `Retry` while it has tries left, `GiveUp`. Each try is a
request of its own that stays until it is served. On the server a request is
`received`; `Insert` puts a row in place that nobody sees and `CommitInsert` commits
and answers; `Conflict` is `DO NOTHING`, possible when the key's row is committed,
and `Replay` the second statement, which looks for it. While another's insert of the
key is uncommitted neither `Insert` nor `Conflict` is enabled: the wait of a unique
index. `Lose` is a server that dies with its insert open. `created_at` is taken when
the row is inserted, so rows become visible out of their order.

### Browse

`SectMaster.missions` and `GET /v1/missions`: `Begin` fixes the filters, `Page` is
one statement of `LIST_MISSIONS` with its `limit + 1` and the handler's cursor,
capped by `max_poll_limit`, and the limit may differ from page to page. Between
pages `PostNext` goes on and `Change` moves missions in and out of the filter.
`steady` remembers which missions were there at the start and matched throughout;
nothing is promised of the others. The order of uuids is that of their numbers, and
which one a row is given is chance. `Listed` is `ORDER BY`, put as a rank: the i-th
row has i - 1 rows before it.

### RunOnce

A process is one execution of a worker: `ready`, `calling` (a request is out),
`working`, `over`. `Ask`, `Report`, `Retry`, `GiveUp` and `Crash` are the client;
`Serve*` are the handlers, one transaction each, so anything may happen between
the sweep and the claim of claim-next, or between a refused update and the look at
the row that explains it. Every copy of a request that was sent stays a request
until it is served: a timeout at the client does not stop the server. An answer
reaches the process only if it still waits for that copy; otherwise, or if it is
lost, the effects stay and nobody hears. A lost request, or a server that dies
between two transactions, is a request that is not served (again); there is no
fairness that would force it. The master and the clock go on beside it.

`ById` processes claim a mission by id (`Disciple.claim` after a poll) instead of
with claim-next. `register()` and heartbeats from inside a handler are not in
this module; what heartbeats do to a row is in `MissionHall`.

### Migrations

`run_migrations` as its statements: `AskLock`, `TakeLock`, `Read`, `Execute` and
`Commit` for each file, `UpToDate`, `Unlock` (the `finally`). A file is a number;
what it does is that it can be applied once, because it creates tables and
columns. An advisory lock is held by a server session, so sessions are in the
model: connected directly an instance keeps its session from first to last
(`conn`); with `Pooled` it has one only for a statement or a transaction, as
behind the transaction-mode pooler that `SECT_DB_PGBOUNCER` is for. `Die` closes
the session and rolls back; `Boot` starts again with nothing remembered. An
instance of an old release carries fewer files. A connection that is given back
loses its advisory locks (asyncpg resets it), also after an error.

### Registry

A request is `sent`, `known` (authenticated), `found` (only `patch_disciple`
looks for its row first), `resolved` (its peak was looked up), `written`, and
perhaps `told`; each arrow is one statement and anything may happen between two.
`Update` writes with `build_update` the columns that were mentioned and that the
caller may change; `arts` stands for all free text. A token is named for the
request that minted it. A request carries the master's key (`NULL`) or a token
somebody was told, whether it still works or not. The SDK's retry of a request it
heard nothing of is one more request. Peaks are statuses that the master writes;
they are soft-deleted, which is what keeps a looked-up peak valid. Not in it:
`last_seen_at`, the reads, and the mission handlers, which authenticate the same
way but whose principal is not followed into `MissionHall`.

## 3. What TLC checks

| Run | Instance | States | Shows |
|---|---|---|---|
| `lifecycle` (`Settling`) | 2 missions, 2 disciples, budgets 1 and 2, no horizon | 27,225 | `EndsForAReason`; `Settles` under fairness |
| `hall_one` | 1 mission, 2 disciples, up to 3 attempts, leases 1 and 2, delays 0 and 1, backoffs 0 and 2, waits up to 1, time to 5 | 30,614 | `OneRunDecides`, `BackoffHonoured`, `SweepKeepsReport`, `TerminalIsFinal`, `LeaseProtectsHolder` |
| `hall_two` | 2 missions, 2 disciples, up to 2 attempts, penalty 2, time to 2 | 162,427 | `TypeOK`, `HolderColumns`, `LedgerMatchesBoard`, `ReputationIsCurrent`, and that every step is a step of `Lifecycle` |
| `run_once` | 1 mission, three processes of two disciples, one of them retrying, one claiming by id, up to 3 attempts | about 4.5 million | `OkMeansRecorded`, `RefusalsAreTrue`, `OneProcessPerToken` |
| `migrations` | an instance with file 1, two with files 1 and 2, each its own session | 3,260 | `SchemaIsARelease`, `LoserFindsNothing`; `BootEnds` under fairness |
| `row_locks` | 3 connections, 2 missions, 2 disciples, 2 boards, 4 statements, waits and time up to 1 | 786,629 | `StatementsAreAtomic`, `BestOfTheRest`, `OnlySweepsDeadlock` |
| `post_and_browse` | 3 calls, two with one key and one of them retried, a mission posted earlier, pages of 1 and 2, 2 changes | 2,670,315 | `OneAnswerPerKey`, `WalkIsComplete`, `WalkDescends` |
| `registry` | one disciple, one peak, four overlapping requests, five bodies | about 692,000 | `OneAdmission`, `ReplacedTokensAreDead`, `OnlyMentionedColumnsMove`, `AffiliationsExist` |
| `migrations_pooled` | as `migrations`, behind a transaction-mode pooler | violation | the lock serializes nobody and an instance fails to boot |
| `hall_sweep_ledger` | as `hall_two` | violation | the sweep fails a mission and no ledger counts it |
| `run_once_fail_replay` | one process | violation | a repeated fail is not benign |
| `run_once_reclaim` | two processes of one disciple, one claiming by id | violation | a claim token is handed to a second process |

**Bounds.** Rows do not influence one another except through the ledger of their
holder and the set a sweep takes, so one mission with long histories (three
attempts, a horizon that lets every lease and backoff run out and be renewed) and
two missions on shared accounts cover the interactions. Two disciples are enough
to be the old and the new holder. A lease of 1 and of 2, with statements delayed
by 1, gives leases that are over when granted, and heartbeats that shorten them.
A penalty of 2 exceeds the one point a completion earns, so `GREATEST(0, ...)`
matters. In `run_once` three attempts, two copies of a request and one unit of time
suffice for a stale token, a repeated report and a mission taken over between
them. The third attempt is for the reason `lease_expired`: the run that is told so was
superseded by one that put the mission back, which leaves a budget to spend.
`hall_two` does not earn enough points for rounding to show, so
`MCMissionHall` compares `Reputation` with the exact floor for all counters up to 40
(`RoundingAssumption`): they differ at four, and those are the ones where
double-precision arithmetic differs. The releases of `migrations` are the repository's: 0.1 has one file, 0.2 two.
In `registry` a name is a key and rows of different names never meet, so one
name suffices; four requests are a registration, a rotation, and two that
overlap it or each other. In `row_locks` three connections are a sweep or a report that waits, one that it
waits for, and a claim-next that skips both; the circle of two sweeps and each
order of two reports for one account are among its states. The two missions differ
in peak and age, so the two disciples prefer different ones. On one board each may
be claimed once, so that two sweeps can meet two exhausted rows; on the other one is
delayed and the other may be retried. Four statements let
a row be granted, taken back and granted again behind a waiting statement's back.
In `post_and_browse` ids are given out in any order, so a row committed late can
sort before or after the cursor, and pages of 1 end between any two of three rows.
`MaxTime`, `MaxWait`, `MaxStatements`, `MaxChanges`, `TriesOf`, `Ids` and the set
`Requests` are the only bounds, and each is a
constant that some guard names. `CHECK_DEADLOCK FALSE` is set because the clock
stops at its horizon, a board whose missions are finished is at rest,
`registry` uses up its requests, `row_locks` its statements and
`post_and_browse` its calls and its walk. That nothing but sweeps deadlocks in
`row_locks` is an invariant, since a circle of waits is no deadlock to TLC while a
rollback can break it. `migrations` checks deadlock: instances that wait
for one another's lock would be one.

**Fairness.** `Settling` and `Migrations` state liveness; neither needs a clock
bound. `Migrations` assumes that an instance that runs goes on, and strong fairness
of `TakeLock`: the lock is asked for again by others while one waits, and PostgreSQL
wakes waiters in the order of a queue. Nobody has to boot or to die. The
`SettleSpec` of `Settling` assumes that time moves on (`Age`), that a wait which nobody starts
anew ends (`Lapse`), that some disciple keeps
polling claim-next (the scheduled deployment of `docs/writing-a-disciple.md`),
and that the sweep, which every poll and claim-next runs first, takes what is
exhausted. It assumes nothing of a holder: reports, heartbeats, cancels and posts
are not fair, and nothing keeps a holder from a heartbeat between any two movements
of the clock. One that does so for ever keeps its mission for ever: the code sets no
limit, that behaviour is a fair one here, and `Settles` names it. It reads: every
posted mission ends, unless its claim is kept alive without end, by heartbeats in
time or by reviving it after each lapse. Without that exception, or with one for late
renewals only, TLC refutes it. For one mission the assumption that a claimable one is claimed asks
that the claims reach it in `CLAIM_NEXT`'s order; a stream of better missions can
starve it, and that is listed as a hazard rather than hidden in a property.

## 4. What the code and its documents disagree on

* The sweep fails a mission that still names its holder and moves no ledger
  (`sql.py` `SWEEP_EXHAUSTED`), while the backfill of `0002_peaks.sql` counts
  failed missions per holder and says the columns match. A fresh backfill and the
  running counters differ for every mission that was let lapse.
* `docs/sect-architecture.md` says the SDK treats the 409 of a replayed fail as
  benign; `Disciple.fail` raises `NotMissionHolder` out of `run_once`, with reason
  `lease_expired`, though the lease ran and the report is on record. This is the one
  exception that `RefusalsAreTrue` has to name.
* `docs/protocol.md` says there is no way to recover a claim token; claiming by id
  what one's disciple holds returns it, also to another process. The code intends
  the same-token reclaim: the retry table of the same document (line 164) and
  `test_reclaiming_your_own_mission_is_idempotent` state it. It is the sentence at line
  140 that says too much.
* `run_migrations` says it is safe to run from several instances because the lock
  serializes them. It takes a session's lock in one statement and relies on it in
  the next, which holds on a direct connection and not behind the pooler that
  `connect_pool` has a flag for: there a second instance reaches the session that
  has the lock, takes it again, and fails on a file already applied. The schema
  stays intact, since a file and its row in `schema_migrations` are one
  transaction; the instance does not boot.

What the runs show beside that, and no document denies:

* Two sweeps deadlock when they meet two exhausted rows in different orders, since
  `SWEEP_EXHAUSTED` locks several rows without an order (`OnlySweepsDeadlock` admits
  it, and `row_locks` reaches it). Every poll and claim-next runs a sweep.
  PostgreSQL ends one of the two, the handler answers 500, and 500 is not a status
  that the SDK retries.
* A claim-next can come back with a worse mission, or with none, while a better one
  is locked by a statement that is then rolled back, or whose guard turns out not to
  hold (`BestOfTheRest` promises only that somebody had it locked).
* `cli.py` (line 264) prints "more available; raise --limit to see them", which shows nothing
  more once the limit is at `max_poll_limit`: `Page` caps it silently.

## 5. What TLAPS proves

Every invariant and every safety property that a passing run checks is also a
theorem, for any sets of missions, disciples, processes, connections, calls,
requests and instances, any number of retries and any horizon. Each theorem's
inductive invariant is named below, with the reason why the property alone is not
enough. The assumptions are named in the modules that declare the constants:

* `MissionHall`: finitely many missions (a set the ledger counts over), `NULL` is no
  disciple, and budgets, leases, delays and backoffs within the bounds of the schema
  and the request models.
* `RowLocks`: `RowsAssumption`, rows of different tables are different and none is
  `NULL`; boards are boards `Post` could have made; priorities and ages are numbers.
* `Registry`: `BodiesAssumption`, a body mentions columns with values its schema lets
  in (`extra="forbid"`); `RowAssumption`, a row is not `NULL`.
* `Posting`: `OldAssumption`, earlier missions are finitely many, with distinct ids
  (`PRIMARY KEY`) and distinct keys (`UNIQUE`).
* `Browse`: the poll limit and the limits asked for are at least 1.

TLC evaluates all of them on the runs' instances.

### The board: `MissionHallProofs`, `BoardProofs`, `LifecycleProofs`

| Theorem | States |
|---|---|
| `TypeCorrect` | `Spec => []TypeOK` |
| `BoardCorrect` | `Spec => [](TypeOK /\ BoardInv)`, the inductive invariant |
| `Fencing` | `Spec => []OneRunDecides` |
| `Columns` | `Spec => []HolderColumns` |
| `Final` | `Spec => TerminalIsFinal` |
| `Ledger` | `Spec => []LedgerMatchesBoard` |
| `Backoff` | `Spec => []BackoffHonoured` |
| `SweepNote` | `Spec => []SweepKeepsReport` |
| `StoredReputation` | `Spec => []ReputationIsCurrent` |
| `LeaseHolds` | `Spec => LeaseProtectsHolder` |
| `ImplementsLifecycle` | `Spec => BoardSpec`: every statement is a step of `Lifecycle` or changes nothing it shows |
| `TypeCorrect`, `Reasons` (of `Lifecycle`) | `[]TypeOK`, `[]EndsForAReason` |
| `SettlingIsLifecycle`, `SettleTypes`, `SettleReasons` (of `Settling`) | `SettleSpec` implies `Lifecycle`'s `Spec`, `[]SettleTypeOK`, `[]EndsForAReason` |

`OneRunDecides` is not inductive on its own: that a report is taken from the
newest run needs the row to hold the newest token, and that an open row never
matches a stale token needs its token column to be empty. So `BoardInv` joins, for
each row, `RunsFit` (the row agrees with the history of its claims) with
`ColumnsFit` (its columns agree with its status). The proof goes row by row: a
first group of lemmas says what each statement writes and that it is a row, a
second that each statement keeps both predicates for the row it writes, and one
lemma per action lifts this to the board. `LedgerInv` adds that the sets of
outcomes are counted: `Complete` and `FailTerminal` add one mission to exactly one
of them and one to exactly that counter, and every other step leaves the sets as
they are. The sweep's case shows why `Swept` must be subtracted.

`BoardProofs` states once (`RowSteps`) what a step may do to one row and to the
history of its claims: it is kept, posted, granted, renewed, finished, released,
cancelled or swept. The properties of single rows are then eight small cases each.
`SweepKeepsReport` speaks of rows the sweep has failed and has to be kept from the
retry on, which is what `ReportKept` adds. `ReputationIsCurrent` looks at accounts
and not at rows. It says that what is stored is `Reputation` of the counters stored
beside it, and bounds that: with f failures and c completions the disciple never has
more than the exact share c / (c + f) of its points, floored, and at most one point
less. The bound is a lemma about the rounding (`ReputationBounds`) and holds for all
counters. For the refinement each kind of row
step is mapped to the step of the abstract mission, with `ripe` a function of the
row and the clock; time maps to `Pass`.

In `Lifecycle` a mission that is failed is known to have been reported or to have
used up its budget only if a claimed one's newest run is unreported and none has
more runs than budget: `Fits`.

### Statements side by side: `RowLocksProofs`

| Theorem | States |
|---|---|
| `LocksCorrect` | `LockSpec => []LockInv`, the inductive invariant |
| `LocksFit` | `LockSpec => []LocksTypeOK` |
| `Atomicity` | `LockSpec => StatementsAreAtomic`: `RowLocks` implements `MissionHall` |
| `ConcurrentBoard` | `LockSpec => [](OneRunDecides /\ LedgerMatchesBoard) /\ TerminalIsFinal` |
| `Deadlocks` | `LockSpec => []OnlySweepsDeadlock` |
| `BestPick` | `LockSpec => []BestOfTheRest` |

A statement decides at one moment and commits at a later one. `LockInv` says why
it may: each row it will write is locked by it, still satisfies its `WHERE`
clause, and is the row that what it will write was computed from (`Prepared`);
the same of the account it credits or debits (`Booked`). Others keep this because
only the holder of a lock commits to what is locked (`HeldInv`). At its commit the
statement is then a step of `MissionHall` on the tables as they are, and every
other step leaves the tables alone. The theorems about the board carry over.

A circle of waits has sweeps only, since before it locks its mission a statement
on one mission holds nothing (`EmptyHanded`), a claim-next waits for no row, and
who holds an account waits for nobody. For `BestOfTheRest` the missions of the
snapshot that nobody else has locked since are followed: they match still, and are
still to come or no better than what was taken (`Offered`).

### Workers: `RunOnceProofs`

| Theorem | States |
|---|---|
| `RunOnceCorrect` | `RunOnceSpec => []RunOnceInv`, the inductive invariant |
| `RunOnceTypes` | `RunOnceSpec => []RunOnceTypeOK` |
| `BoardUnderWorkers` | `RunOnceSpec => Spec`: `RunOnce` implements `MissionHall`, so its theorems hold of it |
| `OkIsTrue` | `RunOnceSpec => []OkMeansRecorded` |
| `OneProcess` | `OneClaimant` implies `RunOnceSpec => []OneProcessPerToken` |
| `Refusals` | `OneClaimant` implies `RunOnceSpec => []RefusalsAreTrue` |

What a process is told is about a past it cannot see. `RunOnceInv` ties it to the
history of the board: a token in a process was given to its disciple
(`HasToken`), a copy of a report is its sender's only report (`RequestOK`), a
report that is being looked into has a token that does not hold, and what was
answered is true (`ToldTruth`). These stay true because of what no step does to
the history (`HistoryStep`): a token once dead does not hold again, a report once on
record is not changed, and runs are only added. For the reason of a refusal each
one's truth is one that stays (`EndStays`): finished is finished, a completion by
another claim stays on record, and a superseded run stays superseded. That the look
which follows a refused update finds it true is `WhyNot`: if the row shows neither a
newer holder nor an end, then a mission back on the board was put there by this very
run's fail, or by a newer run's.

`OneProcess` and `Refusals` have a hypothesis, `OneClaimant`: a process that claims
by id shares its disciple with no other. It cannot be dropped: `run_once_reclaim`
shows two processes with one token without it. A process that claims with
claim-next may share its disciple with any number of processes that do the same.
The instance of `run_once` satisfies it. Then nobody but its process has ever
reported a run, which is what `TokenInv` adds.

### Posting and browsing: `PostingProofs`

| Theorem | States |
|---|---|
| `OneMissionPerKey` | `BrowseSpec => []OneAnswerPerKey` |
| `WholeWalk` | `BrowseSpec => []WalkIsComplete` |
| `OneWay` | `BrowseSpec => []WalkDescends` |
| `BrowseTypes` | `BrowseSpec => []BrowseTypeOK` |

For keys the invariant is `KeyInv`: a row inserted and not committed shares its key
with no other, committed or not, and a request at its second statement has a
committed row to find (`Fits`). That row cannot vanish, because `Change` keeps keys
and nothing deletes. `IdInv` says the same of ids.

For walks it is `WalkInv`: the cursor is the last mission shown (`AtItsEnd`), and a
mission that was there and matched all along was shown or is past the cursor
(`Reaches`). A page keeps it since a mission past the old cursor is among the first
`limit` of its rows or past the last of them; a row that appears late has a new
id and so was not there at the start; a change of status moves neither a
`created_at` nor an id. That `Listed` is a sequence of all the rows, in order, is
`ListedOrders`: ranks are below the number of rows and no two rows share one, so
each number is some row's rank. It counts and needs no induction.

### Disciples and peaks: `RegistryProofs`

| Theorem | States |
|---|---|
| `TypeCorrect` | `Spec => []RegistryTypeOK` |
| `Admission` | `Spec => []OneAdmission` |
| `DeadTokens` | `Spec => []ReplacedTokensAreDead` |
| `Affiliations` | `Spec => []AffiliationsExist` |
| `Edits` | `Spec => OnlyMentionedColumnsMove` |

A request relies at each statement on what an earlier one found. `Sound` says what it
knows at each place: a token that was superseded when the request was sent is in
no row, who passed authentication has a row, and the columns it carries are those
of its body. It needs `TokenInv`: the token in a row was minted for that row's
disciple, so a rotation of one disciple revives no token of another.

### Migrations: `MigrationsProofs`

| Theorem | States |
|---|---|
| `TypeCorrect` | `Spec => []TypeOK` |
| `Release` | `Spec => []SchemaIsARelease`, with a pooler or without |
| `Serialized` | `~ Pooled => (Spec => []LoserFindsNothing)` |

`Release` needs two facts kept together (`SchemaInv`): what is applied is a prefix of
the files (`Prefix`), and what an instance remembers is a part of it (`Believes`); an
instance whose memory is stale picks a file that is already there and applies
nothing. No lock is needed for it, so it holds behind a pooler. `Serialized` adds
`LockInv`: whoever is between taking and giving back the lock holds it by
its own session (`HoldsLock`, `OwnSessions`), and there is one such instance
(`OneHolder`). That its memory is then exact is why it never meets an applied file.
The smallest pending file exists because the pending ones are a finite set of numbers.

### Only model-checked

`Settles` of `Settling` and `BootEnds` of `Migrations`. Both are liveness under
fairness, which the prover's temporal backend has no rules for; the same goes for
`ENABLED`. `RoundingAssumption` is evaluated for counters up to 40, not proved. No module uses RECURSIVE operators.

## 6. Not modelled

* `success_rate` as a stored column; what it does to the reputation is modelled.
  `INTEGER` columns have their bounds, which points and counters far below 2^31 do
  not reach.
* An instance of release 0.1 that serves beside the migration to 0.2: its reports
  would move no ledger after the backfill, and the table locks of `0002_peaks.sql`
  could wait for its rows. Its statements are not in the repository; only that it
  counted live is. A model of them would be invented.
* Reads that change nothing: `GET /v1/missions/{id}`, the open list beyond its
  sweep, and `stats`, which is three statements and so three snapshots that need
  not agree.
* Refused bodies (a lease over the limit, an unknown peak): they write nothing.
* Settings. `settings.py` accepts values that no request would pass, such as a
  default of 0 attempts, a default lease under 30 seconds or a poll limit of 0; the
  named assumptions exclude them.
* `last_seen_at`, timestamps and texts nobody compares, wire formats, error
  bodies, logging, the command line.

## 7. Plan

Built: all modules of section 2, and a proof of every safety property they state.
Left:

1. The principal of a request that was authenticated before a rotation, a
   deactivation or a change of arts, followed into the claims of `MissionHall`.
2. `register()` at the start of a worker and heartbeats from inside its handler, in
   `RunOnce`.
3. That the copy of a keyed post that waits for an insert which is rolled back gets to
   insert: liveness, and so with assumptions on servers that `Posting` does not make.
4. That a walk which nobody disturbs shows exactly what matched when it began.
