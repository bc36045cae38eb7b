----------------------------- MODULE Migrations -----------------------------
(***************************************************************************)
(* Instances of the service that boot, restart and die while they bring    *)
(* the schema up to date: run_migrations of core/db.py, called from the    *)
(* lifespan of core/app.py and from `python -m sect.core.db migrate`.      *)
(*                                                                         *)
(* The advisory lock belongs to a server session.  Connected directly, an  *)
(* instance keeps one session for the whole of run_migrations.  Behind a   *)
(* transaction-mode pooler it has one only for a transaction, so its       *)
(* statements may run in different sessions.                               *)
(***************************************************************************)
EXTENDS Naturals, FiniteSets

CONSTANTS
  Instances, \* processes of the service
  FilesOf,   \* how many migration files each instance's release carries
  Sessions,  \* PostgreSQL sessions
  Pooled,    \* whether a transaction-mode pooler stands in between
  NULL

ASSUME ReleasesAssumption == FilesOf \in [Instances -> Nat]
ASSUME SessionsAssumption ==
  /\ NULL \notin Sessions
  /\ Pooled \in BOOLEAN
  \* SECT_DB_POOL_MAX connections are there for every instance.
  /\ ~ Pooled => Cardinality(Sessions) >= Cardinality(Instances)

VARIABLES
  applied, \* the rows of schema_migrations, files numbered from 1
  held,    \* how often each session has locked MIGRATION_LOCK_ID
  conn,    \* the session an instance occupies
  pc,      \* where an instance is in run_migrations
  done     \* the versions an instance knows to be applied

vars == <<applied, held, conn, pc, done>>

PCs == {"down", "lock", "waiting", "read", "apply", "commit", "unlock",
        "raise", "serving", "failed"}

Files == UNION {1 .. FilesOf[i] : i \in Instances}

TypeOK ==
  /\ applied \subseteq Files
  /\ held \in [Sessions -> Nat]
  /\ conn \in [Instances -> Sessions \cup {NULL}]
  /\ pc \in [Instances -> PCs]
  /\ done \in [Instances -> SUBSET Files]

Init ==
  /\ applied = {}
  /\ held = [s \in Sessions |-> 0]
  /\ conn = [i \in Instances |-> NULL]
  /\ pc = [i \in Instances |-> "down"]
  /\ done = [i \in Instances |-> {}]

----------------------------------------------------------------------------
\* Sessions.

Idle == {s \in Sessions : \A i \in Instances : conn[i] # s}

\* Where the next statement of i runs.
SessionFor(i) == IF conn[i] = NULL THEN Idle ELSE {conn[i]}

\* A statement, or a transaction, that leaves i with a session or without.
Keep(i, s) == conn' = [conn EXCEPT ![i] = s]
Leave(i, s) == Keep(i, IF Pooled THEN NULL ELSE s)

GoTo(i, where) == pc' = [pc EXCEPT ![i] = where]

----------------------------------------------------------------------------
\* run_migrations.

\* The process starts, with nothing in memory.
Boot(i) ==
  /\ pc[i] \in {"down", "failed"}
  /\ GoTo(i, "lock")
  /\ done' = [done EXCEPT ![i] = {}]
  /\ UNCHANGED <<applied, held, conn>>

\* SELECT pg_advisory_lock waits in the session it was sent to ...
AskLock(i) ==
  /\ pc[i] = "lock"
  /\ \E s \in SessionFor(i) : Keep(i, s)
  /\ GoTo(i, "waiting")
  /\ UNCHANGED <<applied, held, done>>

\* A build without the lock.
MutantMayLock(s) == TRUE

\* ... for every other session to have given it up.
MayLock(s) == \A other \in Sessions \ {s} : held[other] = 0

TakeLock(i) ==
  /\ pc[i] = "waiting"
  /\ MayLock(conn[i])
  /\ held' = [held EXCEPT ![conn[i]] = @ + 1]
  /\ Leave(i, conn[i])
  /\ GoTo(i, "read")
  /\ UNCHANGED <<applied, done>>

Read(i) ==
  /\ pc[i] = "read"
  /\ \E s \in SessionFor(i) : Leave(i, s)
  /\ done' = [done EXCEPT ![i] = applied]
  /\ GoTo(i, "apply")
  /\ UNCHANGED <<applied, held>>

\* A loop that runs past its last file.
MutantPastTheEnd(i) == (1 .. FilesOf[i] + 1) \ done[i]

\* A loop that applies its last file whatever has been applied.
MutantPending(i) == {v \in 1 .. FilesOf[i] : v \notin done[i] \/ v = FilesOf[i]}

Pending(i) == (1 .. FilesOf[i]) \ done[i]

\* Files taken in the wrong order.
MutantNextFile(i) == CHOOSE v \in Pending(i) : \A w \in Pending(i) : w <= v

NextFile(i) == CHOOSE v \in Pending(i) : \A w \in Pending(i) : v <= w

\* The file's statements in a transaction: CREATE TABLE and ADD COLUMN wait for
\* another transaction that is making the same objects, and fail when they exist.
Execute(i) ==
  /\ pc[i] = "apply"
  /\ Pending(i) # {}
  /\ \A j \in Instances \ {i} :
       pc[j] = "commit" => NextFile(j) # NextFile(i)
  /\ \E s \in SessionFor(i) :
       IF NextFile(i) \in applied
       THEN GoTo(i, "raise") /\ Leave(i, s)
       ELSE GoTo(i, "commit") /\ Keep(i, s)
  /\ UNCHANGED <<applied, held, done>>

Commit(i) ==
  /\ pc[i] = "commit"
  /\ applied' = applied \cup {NextFile(i)}
  /\ done' = [done EXCEPT ![i] = @ \cup {NextFile(i)}]
  /\ Leave(i, conn[i])
  /\ GoTo(i, "apply")
  /\ UNCHANGED held

UpToDate(i) ==
  /\ pc[i] = "apply"
  /\ Pending(i) = {}
  /\ GoTo(i, "unlock")
  /\ UNCHANGED <<applied, held, conn, done>>

\* finally: pg_advisory_unlock in whatever session the statement reaches (where
\* nothing is held it only warns), and the connection is given back, which
\* releases every advisory lock of the session that is reset.
Unlock(i) ==
  /\ pc[i] \in {"unlock", "raise"}
  /\ \E s \in SessionFor(i) : held' = [held EXCEPT ![s] = 0]
  /\ Keep(i, NULL)
  /\ GoTo(i, IF pc[i] = "raise" THEN "failed" ELSE "serving")
  /\ UNCHANGED <<applied, done>>

\* The process dies or is replaced: its transaction is rolled back and the
\* session it occupied, closed, gives up its locks.
Die(i) ==
  /\ pc[i] \notin {"down", "failed"}
  /\ held' = IF conn[i] = NULL THEN held ELSE [held EXCEPT ![conn[i]] = 0]
  /\ Keep(i, NULL)
  /\ GoTo(i, "down")
  /\ UNCHANGED <<applied, done>>

Step(i) ==
  \/ AskLock(i)
  \/ TakeLock(i)
  \/ Read(i)
  \/ Execute(i)
  \/ Commit(i)
  \/ UpToDate(i)
  \/ Unlock(i)

Next == \E i \in Instances : Boot(i) \/ Step(i) \/ Die(i)

Spec == Init /\ [][Next]_vars

\* A process that runs goes on running, and PostgreSQL wakes a waiter for a
\* lock that is given up (its queue is fair); nobody has to boot or to die.
Fairness == \A i \in Instances : WF_vars(Step(i)) /\ SF_vars(TakeLock(i))

FairSpec == Spec /\ Fairness

----------------------------------------------------------------------------
(* The schema is always some release's: the files applied are a prefix,    *)
(* even when an old release and a new one boot together or die half-way,   *)
(* and an instance serves only on a schema that has all of its files.      *)
SchemaIsARelease ==
  /\ \A v \in applied : 1 .. v \subseteq applied
  /\ \A i \in Instances : pc[i] = "serving" => 1 .. FilesOf[i] \subseteq applied

(* db.py: "Safe to run concurrently from several instances: the advisory   *)
(* lock serializes them and the loser finds nothing left to do."  No       *)
(* instance fails to boot because another one migrated at the same time.   *)
LoserFindsNothing == \A i \in Instances : pc[i] # "failed"

(* An instance that boots gets to serve unless it dies first, whichever    *)
(* other instances died holding the lock or in the middle of a file.       *)
BootEnds ==
  \A i \in Instances :
    pc[i] \notin {"down", "failed"} ~> pc[i] \in {"serving", "down"}
=============================================================================
