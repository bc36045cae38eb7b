--------------------------- MODULE RowLocksProofs ---------------------------
(***************************************************************************)
(* Proofs about RowLocks, for any missions, disciples and boards, and any  *)
(* number of connections and statements: statements that lock their rows   *)
(* one by one at READ COMMITTED implement the atomic steps of MissionHall. *)
(*                                                                         *)
(* Between its locks and its commit a statement relies on what it read.    *)
(* The invariant says why it may: a row it is about to write is locked by  *)
(* it, still satisfies its WHERE clause, and what it will write is what it *)
(* would write now (Prepared); the same of the account (Booked).  Only the *)
(* holder of a row's lock commits to it, so others leave this as it is.    *)
(***************************************************************************)
EXTENDS RowLocks, BoardProofs

Kinds == {"claim", "claim_next", "heartbeat", "complete", "fail", "cancel", "sweep"}

Versions == UNION {[S -> Row] : S \in SUBSET Missions}

Stmt == [ kind: Kinds, by: Disciples \cup {NULL}, token: Nat,
          after: Backoffs \cup {NULL}, at: Nat, todo: Seq(Missions),
          rows: Versions, account: Account \cup {NULL},
          saw: SUBSET Missions, busy: SUBSET Missions ]

LockTypes ==
  /\ stmt \in [Sessions -> {Idle} \cup Stmt]
  /\ locks \in [Tables -> Sessions \cup {NULL}]
  /\ left \in 0 .. MaxStatements

\* What a statement is, whatever the tables hold.
Formed(q) ==
  /\ q.at \in Moments
  /\ q.kind \notin {"cancel", "sweep"} => q.by \in Disciples
  /\ q.kind # "sweep" =>
       /\ q.todo # <<>> => DOMAIN q.rows = {}
       /\ \A m, n \in DOMAIN q.rows : m = n
  /\ q.kind \notin {"sweep", "claim_next"} => Len(q.todo) <= 1
  /\ q.account # NULL => MovesLedger(q)

\* The rows it is about to write are locked, match, and are up to date.
Prepared(s, q) ==
  \A m \in DOMAIN q.rows :
    /\ locks[m] = s
    /\ Matches(q, missions[m])
    /\ q.rows[m] = Written(q, m, missions[m])

\* So is the account.
Booked(s, q) ==
  q.account # NULL =>
    /\ locks[q.by] = s
    /\ q.account = IF q.kind = "complete" THEN Credited(ledger[q.by]) ELSE Debited(ledger[q.by])

Ready(s) == Busy(s) => Formed(stmt[s]) /\ Prepared(s, stmt[s]) /\ Booked(s, stmt[s])

ReadyInv == \A s \in Sessions : Ready(s)

\* Who holds a lock is at work; on an account, with that account booked.
HeldInv ==
  /\ \A x \in Tables : locks[x] # NULL => Busy(locks[x])
  /\ \A d \in Disciples : locks[d] # NULL => stmt[locks[d]].account # NULL

LockInv == TypeOK /\ BoardInv /\ LockTypes /\ ReadyInv /\ HeldInv

----------------------------------------------------------------------------
\* Statements as values.

LEMMA Orders ==
  ASSUME NEW S \in SUBSET Missions, NEW todo \in SetToSeqs(S)
  PROVE  /\ todo \in Seq(Missions) /\ Len(todo) = Cardinality(S)
         /\ Len(todo) \in Nat /\ DOMAIN todo = 1 .. Len(todo)
         /\ Range(todo) = S
  <1> DEFINE D == 1 .. Cardinality(S)
  <1>1. IsFiniteSet(S) /\ Cardinality(S) \in Nat
    BY TablesAssumption, FS_Subset, FS_CardinalityType
  <1>2. todo \in [D -> S] /\ \A i, j \in D : i # j => todo[i] # todo[j]
    BY DEF SetToSeqs
  <1>3. todo \in Seq(Missions) /\ Len(todo) = Cardinality(S) /\ DOMAIN todo = D
    BY <1>1, <1>2, LenProperties
  <1>4. IsFiniteSet(D) /\ Cardinality(D) = Cardinality(S)
    BY <1>1, FS_Interval
  <1>5. todo \in Injection(D, S)
    BY <1>2 DEF Injection, IsInjective
  <1>6. todo \in Surjection(D, S)
    BY <1>1, <1>4, <1>5, FS_Injection
  <1>7. Range(todo) = S
    BY <1>2, <1>6 DEF Surjection, Range
  <1> QED
    BY <1>1, <1>3, <1>7

LEMMA NoRows ==
  /\ DOMAIN <<>> = {} /\ <<>> \in Versions
  <1>1. <<>> \in [{} -> Row] /\ {} \in SUBSET Missions
    OBVIOUS
  <1> QED
    BY <1>1 DEF Versions

LEMMA VersionsType ==
  ASSUME NEW f \in Versions
  PROVE  DOMAIN f \in SUBSET Missions /\ f \in [DOMAIN f -> Row]
  BY DEF Versions

WithRow(f, m, r) == [n \in DOMAIN f \cup {m} |-> IF n = m THEN r ELSE f[n]]

LEMMA AddVersion ==
  ASSUME NEW f \in Versions, NEW m \in Missions, NEW r \in Row
  PROVE  /\ WithRow(f, m, r) \in Versions
         /\ DOMAIN WithRow(f, m, r) = DOMAIN f \cup {m}
         /\ WithRow(f, m, r)[m] = r
         /\ \A n \in DOMAIN f : n # m => WithRow(f, m, r)[n] = f[n]
  <1>1. DOMAIN f \cup {m} \in SUBSET Missions /\ WithRow(f, m, r) \in [DOMAIN f \cup {m} -> Row]
    BY VersionsType DEF WithRow
  <1> QED
    BY <1>1 DEF Versions, WithRow

\* Idle and busy connections.
LEMMA BusyStmt ==
  ASSUME LockTypes, NEW s \in Sessions
  PROVE  /\ Busy(s) <=> stmt[s] \in Stmt
         /\ ~ Busy(s) <=> stmt[s] = Idle
  BY DEF LockTypes, Busy, Idle, Stmt, Kinds

LEMMA Fields ==
  ASSUME NEW q \in Stmt
  PROVE  /\ q.kind \in Kinds /\ q.by \in Disciples \cup {NULL} /\ q.token \in Nat
         /\ q.after \in Backoffs \cup {NULL} /\ q.at \in Nat
         /\ q.todo \in Seq(Missions) /\ Len(q.todo) \in Nat
         /\ q.rows \in Versions /\ DOMAIN q.rows \in SUBSET Missions
         /\ q.rows \in [DOMAIN q.rows -> Row]
         /\ q.account \in Account \cup {NULL}
         /\ q.saw \in SUBSET Missions /\ q.busy \in SUBSET Missions
         /\ q.todo # <<>> => /\ Head(q.todo) \in Missions /\ Tail(q.todo) \in Seq(Missions)
                             /\ Len(Tail(q.todo)) = Len(q.todo) - 1
                             /\ Len(q.todo) <= 1 => Tail(q.todo) = <<>>
  <1>1. q.todo \in Seq(Missions) /\ q.rows \in Versions
    BY DEF Stmt
  <1>2. Len(q.todo) \in Nat
    BY <1>1, LenProperties
  <1>3. q.todo # <<>> => /\ Head(q.todo) \in Missions /\ Tail(q.todo) \in Seq(Missions)
                         /\ Len(Tail(q.todo)) = Len(q.todo) - 1
                         /\ Len(q.todo) # 0
    BY <1>1, HeadTailProperties, EmptySeq
  <1>4. q.todo # <<>> /\ Len(q.todo) <= 1 => Tail(q.todo) = <<>>
    BY <1>2, <1>3, EmptySeq
  <1> QED
    BY <1>1, <1>2, <1>3, <1>4, VersionsType DEF Stmt

\* The statement p runs is the same, but for what the history columns say.
SameStmt(q, z) ==
  /\ z.kind = q.kind /\ z.by = q.by /\ z.token = q.token /\ z.after = q.after
  /\ z.at = q.at /\ z.todo = q.todo /\ z.rows = q.rows /\ z.account = q.account

\* What others do leaves a statement ready: its rows and its account are locked.
LEMMA StaysReady ==
  ASSUME NEW p \in Sessions, Ready(p), Busy(p),
         SameStmt(stmt[p], stmt'[p]),
         stmt[p].at \in Moments',
         \A m \in DOMAIN stmt[p].rows :
           locks[m] = p => locks'[m] = p /\ missions'[m] = missions[m] /\ runs'[m] = runs[m],
         stmt[p].account # NULL /\ locks[stmt[p].by] = p =>
           locks'[stmt[p].by] = p /\ ledger'[stmt[p].by] = ledger[stmt[p].by]
  PROVE  Ready(p)'
  <1> DEFINE q == stmt[p]
             z == stmt'[p]
  <1>1. Formed(q) /\ Prepared(p, q) /\ Booked(p, q)
    BY DEF Ready
  <1>2. SameStmt(q, z)
    OBVIOUS
  <1>3. Formed(stmt[p])'
    BY <1>1, <1>2 DEF Formed, SameStmt, MovesLedger
  <1>4. ASSUME NEW m \in DOMAIN q.rows
        PROVE  /\ locks'[m] = p
               /\ Matches(stmt[p], missions[m])'
               /\ z.rows[m] = Written(stmt[p], m, missions[m])'
    <2>1. /\ locks'[m] = p /\ missions'[m] = missions[m] /\ runs'[m] = runs[m]
          /\ Matches(q, missions[m]) /\ q.rows[m] = Written(q, m, missions[m])
      BY <1>1, <1>4 DEF Prepared
    <2>2. Matches(stmt[p], missions[m])'
      BY <1>2, <2>1 DEF SameStmt, Matches
    <2>3. z.rows[m] = Written(stmt[p], m, missions[m])'
      BY <1>2, <2>1 DEF SameStmt, Written, Retries, FreshToken
    <2> QED
      BY <2>1, <2>2, <2>3
  <1>5. Prepared(p, stmt[p])'
    BY <1>2, <1>4 DEF Prepared, SameStmt
  <1>6. Booked(p, stmt[p])'
    BY <1>1, <1>2 DEF Booked, SameStmt
  <1> QED
    BY <1>3, <1>5, <1>6 DEF Ready

----------------------------------------------------------------------------
\* Statements start.

\* Parameters a statement may have.
Proper(kind, d, t, after, todo) ==
  /\ kind \in Kinds /\ d \in Disciples \cup {NULL} /\ t \in Nat
  /\ after \in Backoffs \cup {NULL} /\ todo \in Seq(Missions)
  /\ kind \notin {"cancel", "sweep"} => d \in Disciples
  /\ kind \notin {"sweep", "claim_next"} => Len(todo) <= 1

LEMMA Started ==
  ASSUME TypeOK, NEW kind, NEW d, NEW t, NEW after, NEW todo,
         Proper(kind, d, t, after, todo),
         NEW q, q = Statement(kind, d, t, after, todo)
  PROVE  /\ q \in Stmt /\ Formed(q)
         /\ q.rows = <<>> /\ q.account = NULL /\ q.todo = todo /\ q.kind = kind
         /\ q.by = d /\ q.at = now
         /\ kind = "claim_next" =>
              q.saw = Range(todo) /\ q.busy = {m \in Missions : locks[m] # NULL}
  <1> DEFINE saw == IF kind = "claim_next" THEN Range(todo) ELSE {}
             busy == IF kind = "claim_next" THEN {m \in Missions : locks[m] # NULL} ELSE {}
  <1>1. saw \in SUBSET Missions /\ busy \in SUBSET Missions
    <2>1. \A i \in DOMAIN todo : todo[i] \in Missions
      BY ElementOfSeq, LenProperties DEF Proper
    <2> QED
      BY <2>1 DEF Range
  <1>2. now \in Nat /\ now \in Moments
    BY TimeAssumption DEF TypeOK, Moments
  <1>3. q = [ kind |-> kind, by |-> d, token |-> t, after |-> after, at |-> now,
              todo |-> todo, rows |-> <<>>, account |-> NULL, saw |-> saw, busy |-> busy ]
    BY DEF Statement
  <1> HIDE DEF saw, busy
  <1>4. q \in Stmt
    BY <1>1, <1>2, <1>3, NoRows DEF Stmt, Proper
  <1>5. /\ q.rows = <<>> /\ q.account = NULL /\ q.todo = todo /\ q.kind = kind /\ q.at = now
        /\ q.saw = saw /\ q.busy = busy /\ q.by = d
    BY <1>3
  <1>6. Formed(q)
    BY <1>2, <1>5, NoRows DEF Formed, Proper
  <1> QED
    BY <1>4, <1>5, <1>6 DEF saw, busy

\* The statement StartOne launches.
Single(kind, d, t, after, m) == [Statement(kind, d, t, after, <<>>) EXCEPT !.todo = <<m>>]

LEMMA StartedOne ==
  ASSUME TypeOK, NEW kind, NEW d, NEW t, NEW after, NEW m \in Missions,
         Proper(kind, d, t, after, <<>>), kind \notin {"sweep", "claim_next"},
         NEW q, q = Single(kind, d, t, after, m)
  PROVE  /\ q \in Stmt /\ Formed(q) /\ q.rows = <<>> /\ q.account = NULL /\ q.kind = kind
         /\ q.todo = <<m>> /\ q.by = d /\ q.at = now
  <1> DEFINE todo == <<m>>
  <1>1. Proper(kind, d, t, after, todo)
    BY DEF Proper
  <1>2. q = Statement(kind, d, t, after, todo)
    <2> HIDE DEF todo
    <2>1. PICK f : f = Statement(kind, d, t, after, <<>>)
      OBVIOUS
    <2>2. f = [ kind |-> kind, by |-> d, token |-> t, after |-> after, at |-> now,
                todo |-> <<>>, rows |-> <<>>, account |-> NULL, saw |-> {}, busy |-> {} ]
      BY <2>1 DEF Statement
    <2>3. q = [f EXCEPT !.todo = todo]
      BY <2>1 DEF todo, Single
    <2>4. q = [ kind |-> kind, by |-> d, token |-> t, after |-> after, at |-> now,
                todo |-> todo, rows |-> <<>>, account |-> NULL, saw |-> {}, busy |-> {} ]
      BY <2>2, <2>3
    <2> QED
      BY <2>4 DEF Statement
  <1> HIDE DEF todo
  <1>3. /\ q \in Stmt /\ Formed(q) /\ q.rows = <<>> /\ q.account = NULL /\ q.kind = kind
        /\ q.todo = todo /\ q.by = d /\ q.at = now
    BY <1>1, <1>2, Started
  <1> QED
    BY <1>3 DEF todo

LEMMA KeepLaunch ==
  ASSUME LockInv, NEW s \in Sessions, NEW q \in Stmt, Launch(s, q), Formed(q),
         q.rows = <<>>, q.account = NULL
  PROVE  LockInv'
  <1>1. TypeOK /\ BoardInv /\ LockTypes /\ ReadyInv /\ HeldInv
    BY DEF LockInv
  <1>2. TypeOK' /\ BoardInv'
    BY <1>1 DEF Launch, TypeOK, BoardInv
  <1>3. LockTypes'
    BY <1>1, SessionsAssumption DEF Launch, LockTypes
  <1>4. /\ stmt'[s] = q /\ ~ Busy(s)
        /\ \A p \in Sessions : p # s => stmt'[p] = stmt[p]
        /\ UNCHANGED <<missions, ledger, now, runs, locks>>
    BY <1>1 DEF Launch, LockTypes
  <1>5. ASSUME NEW p \in Sessions PROVE Ready(p)'
    <2>1. CASE p = s
      <3>1. Formed(stmt[s])' /\ Booked(s, stmt[s])'
        BY <1>4 DEF Formed, Booked, Moments, MovesLedger
      <3>2. Prepared(s, stmt[s])'
        BY <1>4, NoRows DEF Prepared
      <3> QED
        BY <2>1, <3>1, <3>2 DEF Ready
    <2>2. CASE p # s /\ Busy(p)
      <3>1. Ready(p)
        BY <1>1 DEF ReadyInv
      <3>2. SameStmt(stmt[p], stmt'[p])
        BY <1>4, <2>2 DEF SameStmt
      <3>3. stmt[p].at \in Moments'
        BY <1>4, <2>2, <3>1 DEF Ready, Formed, Moments
      <3> QED
        BY <1>4, <2>2, <3>1, <3>2, <3>3, StaysReady
    <2>3. CASE p # s /\ ~ Busy(p)
      BY <1>4, <2>3 DEF Ready, Busy
    <2> QED
      BY <2>1, <2>2, <2>3
  <1>6. HeldInv'
    <2>1. \A x \in Tables : locks[x] # NULL => locks[x] \in Sessions /\ locks[x] # s
      BY <1>1, <1>4 DEF HeldInv, LockTypes
    <2> QED
      BY <1>1, <1>4, <2>1 DEF HeldInv, Busy, Tables
  <1> QED
    BY <1>2, <1>3, <1>5, <1>6 DEF LockInv, ReadyInv

\* Where the order a claim-next follows comes from.
Offer(q) ==
  q.kind = "claim_next" =>
    \E d \in Disciples :
      LET found == Matching(Statement("claim_next", d, NoToken, NULL, <<>>))
      IN  \E todo \in Sorted(d, found) :
            q = Statement("claim_next", d, NoToken, NULL, todo)

\* What a statement that starts is.
LEMMA Starting ==
  ASSUME LockInv, NEW s \in Sessions, Start(s)
  PROVE  \E q \in Stmt : /\ Launch(s, q) /\ Formed(q) /\ Offer(q)
                         /\ q.rows = <<>> /\ q.account = NULL
  <1> DEFINE Goal == \E q \in Stmt : /\ Launch(s, q) /\ Formed(q) /\ Offer(q)
                                     /\ q.rows = <<>> /\ q.account = NULL
  <1>1. TypeOK /\ NoToken \in Nat
    BY DEF LockInv, NoToken
  <1>2. ASSUME NEW kind, NEW d, NEW t, NEW after, NEW m \in Missions,
               Proper(kind, d, t, after, <<>>), kind \notin {"sweep", "claim_next"},
               StartOne(s, Statement(kind, d, t, after, <<>>), m)
        PROVE  Goal
    <2>1. PICK q : q = Single(kind, d, t, after, m)
      OBVIOUS
    <2>2. /\ q \in Stmt /\ Formed(q) /\ q.rows = <<>> /\ q.account = NULL /\ q.kind = kind
      BY <1>1, <1>2, <2>1, StartedOne
    <2>3. Launch(s, q)
      BY <1>2, <2>1 DEF StartOne, Single
    <2>4. Offer(q)
      BY <1>2, <2>2 DEF Offer
    <2> QED
      BY <2>2, <2>3, <2>4
  <1> HIDE DEF Goal
  <1>3. ASSUME NEW d \in Disciples, NEW m \in Missions, StartClaim(s, d, m)
        PROVE  Goal
    <2>1. Proper("claim", d, NoToken, NULL, <<>>)
      BY <1>1, EmptySeq DEF Proper, Kinds
    <2> QED
      BY <1>2, <1>3, <2>1 DEF StartClaim
  <1>4. ASSUME NEW d \in Disciples, NEW m \in Missions, StartReport(s, d, m)
        PROVE  Goal
    <2>1. PICK t \in Given(m, d) :
            \/ \E kind \in {"heartbeat", "complete"} :
                 StartOne(s, Statement(kind, d, t, NULL, <<>>), m)
            \/ \E after \in Backoffs \cup {NULL} :
                 StartOne(s, Statement("fail", d, t, after, <<>>), m)
      BY <1>4 DEF StartReport
    <2>2. t \in Nat
      BY <1>1, GivenType, RowTypes, LenProperties
    <2>3. ASSUME NEW kind \in {"heartbeat", "complete", "fail"},
                 NEW after \in Backoffs \cup {NULL}
          PROVE  Proper(kind, d, t, after, <<>>)
      BY <2>2, EmptySeq DEF Proper, Kinds
    <2> QED
      BY <1>2, <2>1, <2>3
  <1>5. ASSUME NEW m \in Missions, StartCancel(s, m)
        PROVE  Goal
    <2>1. Proper("cancel", NULL, NoToken, NULL, <<>>)
      BY <1>1, EmptySeq DEF Proper, Kinds
    <2> QED
      BY <1>2, <1>5, <2>1 DEF StartCancel
  <1>6. ASSUME NEW d \in Disciples, StartClaimNext(s, d)
        PROVE  Goal
    <2> DEFINE found == Matching(Statement("claim_next", d, NoToken, NULL, <<>>))
    <2>1. PICK todo \in Sorted(d, found) :
            Launch(s, Statement("claim_next", d, NoToken, NULL, todo))
      BY <1>6 DEF StartClaimNext
    <2>2. todo \in Seq(Missions)
      BY <2>1, Orders DEF Sorted, Matching
    <2> HIDE DEF found
    <2>3. PICK q : q = Statement("claim_next", d, NoToken, NULL, todo)
      OBVIOUS
    <2>4. Proper("claim_next", d, NoToken, NULL, todo)
      BY <1>1, <2>2 DEF Proper, Kinds
    <2>5. q \in Stmt /\ Formed(q) /\ q.rows = <<>> /\ q.account = NULL
      BY <1>1, <2>3, <2>4, Started
    <2>6. Launch(s, q)
      BY <2>1, <2>3
    <2>7. Offer(q)
      BY <2>1, <2>3 DEF Offer, found
    <2> QED
      BY <2>5, <2>6, <2>7 DEF Goal
  <1>7. ASSUME StartSweep(s)
        PROVE  Goal
    <2> DEFINE found == Matching(Statement("sweep", NULL, NoToken, NULL, <<>>))
    <2>1. PICK todo \in SetToSeqs(found) :
            Launch(s, Statement("sweep", NULL, NoToken, NULL, todo))
      BY <1>7 DEF StartSweep
    <2>2. todo \in Seq(Missions)
      BY <2>1, Orders DEF Matching
    <2> HIDE DEF found
    <2>3. PICK q : q = Statement("sweep", NULL, NoToken, NULL, todo)
      OBVIOUS
    <2>4. Proper("sweep", NULL, NoToken, NULL, todo)
      BY <1>1, <2>2 DEF Proper, Kinds
    <2>5. q \in Stmt /\ Formed(q) /\ q.rows = <<>> /\ q.account = NULL /\ q.kind = "sweep"
      BY <1>1, <2>3, <2>4, Started
    <2>6. Launch(s, q)
      BY <2>1, <2>3
    <2>7. Offer(q)
      BY <2>5 DEF Offer
    <2> QED
      BY <2>5, <2>6, <2>7 DEF Goal
  <1> QED
    BY <1>3, <1>4, <1>5, <1>6, <1>7 DEF Start, Goal

----------------------------------------------------------------------------
\* Statements run.

\* One connection moves; the tables, and what the others hold, stay.
LEMMA OneSession ==
  ASSUME LockInv, NEW s \in Sessions, LockTypes',
         UNCHANGED <<missions, ledger, now, runs>>,
         \A p \in Sessions \ {s} :
           /\ SameStmt(stmt[p], stmt'[p])
           /\ \A x \in Tables : locks'[x] = p <=> locks[x] = p,
         Ready(s)',
         \A x \in Tables : locks'[x] = s => Busy(s)',
         \A d \in Disciples : locks'[d] = s => stmt'[s].account # NULL
  PROVE  LockInv'
  <1>1. TypeOK /\ BoardInv /\ LockTypes /\ ReadyInv /\ HeldInv
    BY DEF LockInv
  <1>2. TypeOK' /\ BoardInv'
    BY <1>1 DEF TypeOK, BoardInv
  <1>3. \A p \in Sessions \ {s} : Busy(p)' <=> Busy(p)
    BY DEF Busy, SameStmt
  <1>4. ASSUME NEW p \in Sessions PROVE Ready(p)'
    <2>1. CASE p # s /\ Busy(p)
      <3>1. Ready(p) /\ Formed(stmt[p]) /\ stmt[p] \in Stmt
        BY <1>1, <2>1, BusyStmt DEF ReadyInv, Ready
      <3>2. DOMAIN stmt[p].rows \in SUBSET Missions
        BY <3>1, Fields
      <3>3. stmt[p].account # NULL => stmt[p].by \in Disciples
        BY <3>1 DEF Formed, MovesLedger
      <3>4. SameStmt(stmt[p], stmt'[p])
        BY <2>1
      <3>5. stmt[p].at \in Moments'
        BY <3>1 DEF Formed, Moments
      <3> QED
        BY <2>1, <3>1, <3>2, <3>3, <3>4, <3>5, StaysReady DEF Tables
    <2>2. CASE p # s /\ ~ Busy(p)
      BY <1>3, <2>2 DEF Ready
    <2> QED
      BY <2>1, <2>2
  <1>5. HeldInv'
    <2>1. \A x \in Tables : locks'[x] \in Sessions \cup {NULL}
      BY DEF LockTypes
    <2>2. \A x \in Tables : locks'[x] # NULL => Busy(locks[x])'
      BY <1>1, <1>3, <2>1 DEF HeldInv
    <2>3. \A d \in Disciples : locks'[d] # NULL => (stmt[locks[d]].account)' # NULL
      BY <1>1, <2>1 DEF HeldInv, Tables, SameStmt
    <2> QED
      BY <2>2, <2>3 DEF HeldInv
  <1> QED
    BY <1>2, <1>4, <1>5 DEF LockInv, ReadyInv

SameParameters(q, z) ==
  /\ z.kind = q.kind /\ z.by = q.by /\ z.token = q.token /\ z.after = q.after
  /\ z.at = q.at

LEMMA Parameters ==
  ASSUME NEW q, NEW z, SameParameters(q, z)
  PROVE  /\ \A r : Matches(z, r) <=> Matches(q, r)
         /\ \A m, r : Written(z, m, r) = Written(q, m, r)
         /\ z.rows = q.rows => (MovesLedger(z) <=> MovesLedger(q))
  BY DEF SameParameters, Matches, Written, Retries, MovesLedger

\* A statement that has locked what it is about to write, with the tables as they
\* were, is prepared.
LEMMA StillPrepared ==
  ASSUME NEW s \in Sessions, NEW z, stmt'[s] = z, UNCHANGED <<missions, runs>>,
         \A m \in DOMAIN z.rows :
           locks'[m] = s /\ Matches(z, missions[m]) /\ z.rows[m] = Written(z, m, missions[m])
  PROVE  Prepared(s, stmt[s])'
  BY DEF Prepared, Matches, Written, Retries, FreshToken

LEMMA WrittenType ==
  ASSUME TypeOK, NEW q \in Stmt, Formed(q), NEW m \in Missions,
         Matches(q, missions[m])
  PROVE  Written(q, m, missions[m]) \in Row
  <1> DEFINE r == missions[m]
  <1>1. r \in Row /\ FreshToken(m) \in Nat
    BY RowTypes, LenProperties DEF FreshToken
  <1>2. q.at \in Nat /\ Unset \in Asked /\ q.kind \in Kinds
    BY Fields DEF Asked
  <1>3. Renewed(r, Unset, q.at) \in Row
    BY <1>1, <1>2, RenewedType
  <1>4. q.kind \in {"claim", "claim_next"} => Granted(r, q.by, FreshToken(m), Unset, q.at) \in Row
    BY <1>1, <1>2, GrantedType DEF Formed
  <1>5. Retries(q, r) => q.at + q.after \in Nat
    <2>1. q.after \in Backoffs \cup {NULL}
      BY Fields
    <2>2. \A b \in Backoffs : b \in Nat
      BY PostingAssumption
    <2> QED
      BY <1>2, <2>1, <2>2 DEF Retries
  <1>6. /\ CompletedRow(r) \in Row /\ FailedRow(r) \in Row /\ CancelledRow(r) \in Row
        /\ SweptRow(r) \in Row
        /\ Retries(q, r) => ReleasedRow(r, q.at + q.after) \in Row
    <2>1. 0 \in Nat
      OBVIOUS
    <2> QED
      BY <1>1, <1>5, <2>1, WrittenTypes
  <1> HIDE DEF r
  <1> QED
    BY <1>2, <1>3, <1>4, <1>6 DEF Written, Kinds, r

LEMMA KeepSkip ==
  ASSUME LockInv, NEW s \in Sessions, Skip(s)
  PROVE  LockInv'
  <1> DEFINE q == stmt[s]
             z == [q EXCEPT !.todo = Tail(@)]
  <1>1. q \in Stmt /\ Formed(q) /\ Prepared(s, q) /\ Booked(s, q)
    BY BusyStmt DEF Skip, LockInv, ReadyInv, Ready
  <1>2. z \in Stmt /\ SameParameters(q, z) /\ z.rows = q.rows /\ z.account = q.account
        /\ z.todo = Tail(q.todo)
    BY <1>1, Fields DEF Skip, Stmt, SameParameters
  <1>3. /\ stmt' = [stmt EXCEPT ![s] = z] /\ stmt'[s] = z
        /\ q.kind = "claim_next" /\ q.todo # <<>>
        /\ UNCHANGED <<missions, ledger, now, runs, locks, left>>
    BY DEF Skip, LockInv, LockTypes
  <1> HIDE DEF z
  <1>4. LockTypes'
    BY <1>2, <1>3 DEF LockInv, LockTypes
  <1>5. Formed(stmt[s])'
    BY <1>1, <1>2, <1>3, Parameters DEF Formed, SameParameters, Moments, MovesLedger
  <1>6. Prepared(s, stmt[s])'
    BY <1>1, <1>2, <1>3, NoRows DEF Formed, Prepared
  <1>7. Booked(s, stmt[s])'
    BY <1>1, <1>2, <1>3 DEF Booked, SameParameters
  <1>8. Ready(s)'
    BY <1>5, <1>6, <1>7 DEF Ready
  <1>9. Busy(s)'
    BY <1>2, <1>3 DEF Busy, SameParameters
  <1>10. \A p \in Sessions \ {s} :
           /\ SameStmt(stmt[p], stmt'[p])
           /\ \A x \in Tables : locks'[x] = p <=> locks[x] = p
    BY <1>3 DEF LockInv, LockTypes, SameStmt
  <1>11. \A d \in Disciples : locks'[d] = s => stmt'[s].account # NULL
    BY <1>2, <1>3, SessionsAssumption DEF LockInv, HeldInv
  <1> QED
    BY <1>3, <1>4, <1>8, <1>9, <1>10, <1>11, OneSession

\* The statement after it has examined the row it locked.
LEMMA ExaminedStmt ==
  ASSUME TypeOK, NEW q \in Stmt, Formed(q), q.todo # <<>>,
         NEW m \in Missions, m = Head(q.todo), NEW z, z = Examined(q, m)
  PROVE  /\ z \in Stmt /\ Formed(z) /\ SameParameters(q, z)
         /\ q.account = NULL /\ z.account = NULL
         /\ z.saw = q.saw /\ z.busy = q.busy
         /\ IF Matches(q, missions[m])
            THEN /\ z.todo = Rest(q, TRUE) /\ DOMAIN z.rows = DOMAIN q.rows \cup {m}
                 /\ z.rows[m] = Written(q, m, missions[m])
                 /\ \A n \in DOMAIN q.rows : n # m => z.rows[n] = q.rows[n]
            ELSE z.todo = Tail(q.todo) /\ z.rows = q.rows
  <1> DEFINE rest == Rest(q, TRUE)
  <1>1. q.account = NULL
    BY DEF Formed, MovesLedger
  <1>2. /\ Tail(q.todo) \in Seq(Missions) /\ <<>> \in Seq(Missions) /\ Len(<<>>) = 0
        /\ Len(q.todo) <= 1 => Tail(q.todo) = <<>>
        /\ q.rows \in Versions /\ q.at \in Nat
    BY Fields, EmptySeq
  <1>3. CASE Matches(q, missions[m])
    <2>1. PICK r \in Row : r = Written(q, m, missions[m])
      BY <1>3, WrittenType
    <2> DEFINE rows == WithRow(q.rows, m, r)
    <2>2. q.rows \in Versions /\ r \in Row /\ m \in Missions
      BY <1>2
    <2>3. /\ rows \in Versions /\ DOMAIN rows = DOMAIN q.rows \cup {m} /\ rows[m] = r
          /\ \A n \in DOMAIN q.rows : n # m => rows[n] = q.rows[n]
      <3> PICK f \in Versions : f = q.rows
        BY <2>2
      <3>1. WithRow(f, m, r) \in Versions
        BY AddVersion
      <3>2. DOMAIN WithRow(f, m, r) = DOMAIN f \cup {m} /\ WithRow(f, m, r)[m] = r
        BY AddVersion, ZenonT(40)
      <3>3. \A n \in DOMAIN f : n # m => WithRow(f, m, r)[n] = f[n]
        BY AddVersion, ZenonT(40)
      <3> QED
        BY <3>1, <3>2, <3>3
    <2>4. /\ rest \in Seq(Missions)
          /\ q.kind # "sweep" => rest = <<>> /\ DOMAIN q.rows = {}
      BY <1>2 DEF Rest, Formed
    <2>5. z = [q EXCEPT !.todo = rest, !.rows = rows]
      BY <1>3, <2>1, <2>2 DEF Examined, StillMatches, WithRow
    <2> HIDE DEF rest, rows
    <2>6. /\ z \in Stmt /\ SameParameters(q, z) /\ z.account = NULL
          /\ z.todo = rest /\ z.rows = rows /\ z.saw = q.saw /\ z.busy = q.busy
      BY <1>1, <2>3, <2>4, <2>5 DEF Stmt, SameParameters
    <2>7. z.kind # "sweep" => z.todo = <<>> /\ DOMAIN z.rows = {m}
      BY <2>3, <2>4, <2>6 DEF SameParameters
    <2>8. Formed(z)
      BY <1>2, <2>6, <2>7 DEF Formed, SameParameters
    <2> QED
      BY <1>1, <1>3, <2>1, <2>3, <2>6, <2>8 DEF rest
  <1>4. CASE ~ Matches(q, missions[m])
    <2>1. z = [q EXCEPT !.todo = Tail(q.todo)]
      BY <1>4 DEF Examined, StillMatches, Rest
    <2>2. /\ z \in Stmt /\ SameParameters(q, z) /\ z.account = NULL
          /\ z.todo = Tail(q.todo) /\ z.rows = q.rows /\ z.saw = q.saw /\ z.busy = q.busy
      BY <1>1, <1>2, <2>1 DEF Stmt, SameParameters
    <2>3. z.kind # "sweep" => DOMAIN z.rows = {}
      BY <2>2 DEF Formed, SameParameters
    <2>4. z.kind \notin {"sweep", "claim_next"} => z.todo = <<>>
      BY <1>2, <2>2 DEF Formed, SameParameters
    <2>5. Formed(z)
      BY <1>2, <2>2, <2>3, <2>4 DEF Formed, SameParameters
    <2> QED
      BY <1>1, <1>4, <2>2, <2>5
  <1> QED
    BY <1>3, <1>4

LEMMA NoticedStmt ==
  ASSUME NEW q \in {Idle} \cup Stmt, NEW m \in Missions, NEW z, z = Noticed(q, m)
  PROVE  z \in {Idle} \cup Stmt /\ SameStmt(q, z)
  <1>1. CASE q.kind = "claim_next"
    <2>1. q \in Stmt
      BY <1>1 DEF Idle
    <2>2. z = [q EXCEPT !.busy = @ \cup {m}]
      BY <1>1 DEF Noticed
    <2> QED
      BY <2>1, <2>2 DEF Stmt, SameStmt
  <1>2. CASE q.kind # "claim_next"
    BY <1>2 DEF Noticed, SameStmt
  <1> QED
    BY <1>1, <1>2

LEMMA KeepLockRow ==
  ASSUME LockInv, NEW s \in Sessions, LockRow(s)
  PROVE  LockInv'
  <1>1. PICK q \in Stmt : q = stmt[s]
    BY BusyStmt DEF LockRow, LockInv
  <1>2. /\ Formed(q) /\ Prepared(s, q) /\ Booked(s, q) /\ q.todo # <<>> /\ TypeOK
        /\ LockTypes /\ HeldInv
    BY <1>1 DEF LockRow, LockInv, ReadyInv, Ready
  <1>3. PICK m \in Missions : m = Head(q.todo)
    BY <1>2, Fields
  <1>4. PICK z : z = Examined(q, m)
    OBVIOUS
  <1>5. /\ z \in Stmt /\ Formed(z) /\ SameParameters(q, z) /\ q.account = NULL /\ z.account = NULL
        /\ IF Matches(q, missions[m])
           THEN /\ DOMAIN z.rows = DOMAIN q.rows \cup {m}
                /\ z.rows[m] = Written(q, m, missions[m])
                /\ \A n \in DOMAIN q.rows : n # m => z.rows[n] = q.rows[n]
           ELSE z.rows = q.rows
    BY <1>2, <1>3, <1>4, ExaminedStmt, ZenonT(40)
  <1>6. /\ locks[m] = NULL /\ m \in Tables
        /\ locks' = [locks EXCEPT ![m] = s] /\ locks'[m] = s
        /\ \A x \in Tables : x # m => locks'[x] = locks[x]
        /\ UNCHANGED <<missions, ledger, now, runs, left>>
    BY <1>1, <1>2, <1>3 DEF LockRow, LockTypes, Tables
  <1>7. /\ stmt' = [p \in Sessions |-> IF p = s THEN z ELSE Noticed(stmt[p], m)]
        /\ stmt'[s] = z
        /\ \A p \in Sessions \ {s} : stmt'[p] = Noticed(stmt[p], m)
    BY <1>1, <1>3, <1>4 DEF LockRow
  <1>8. \A p \in Sessions \ {s} : stmt'[p] \in {Idle} \cup Stmt /\ SameStmt(stmt[p], stmt'[p])
    BY <1>2, <1>7, NoticedStmt DEF LockTypes
  <1>9. LockTypes'
    <2>1. stmt' \in [Sessions -> {Idle} \cup Stmt]
      BY <1>5, <1>7, <1>8
    <2> QED
      BY <1>2, <1>6, <2>1 DEF LockTypes
  <1>10. Ready(s)'
    <2>1. Formed(stmt[s])'
      BY <1>5, <1>6, <1>7 DEF Formed, Moments, MovesLedger
    <2>2. \A n \in DOMAIN z.rows :
            locks'[n] = s /\ Matches(z, missions[n]) /\ z.rows[n] = Written(z, n, missions[n])
      <3>1. \A n \in DOMAIN q.rows :
              /\ locks[n] = s /\ Matches(q, missions[n])
              /\ q.rows[n] = Written(q, n, missions[n])
        BY <1>2 DEF Prepared
      <3>2. \A n \in DOMAIN q.rows : n \in Tables /\ n # m /\ locks'[n] = s
        BY <1>6, <3>1, Fields, SessionsAssumption DEF Tables
      <3> QED
        BY <1>5, <1>6, <3>1, <3>2, Parameters
    <2>3. Prepared(s, stmt[s])'
      BY <1>6, <1>7, <2>2, StillPrepared
    <2>4. Booked(s, stmt[s])'
      BY <1>5, <1>7 DEF Booked
    <2> QED
      BY <2>1, <2>3, <2>4 DEF Ready
  <1>11. Busy(s)'
    BY <1>5, <1>7 DEF Stmt, Kinds, Busy
  <1>12. \A p \in Sessions \ {s} : \A x \in Tables : locks'[x] = p <=> locks[x] = p
    BY <1>6, SessionsAssumption
  <1>13. \A d \in Disciples : locks'[d] # s
    <2>1. \A d \in Disciples : d # m /\ d \in Tables
      BY RowsAssumption DEF Tables
    <2>2. \A d \in Disciples : locks[d] # s
      BY <1>1, <1>2, <1>5, SessionsAssumption DEF HeldInv
    <2> QED
      BY <1>6, <2>1, <2>2
  <1> QED
    BY <1>6, <1>8, <1>9, <1>10, <1>11, <1>12, <1>13, OneSession

LEMMA KeepLockAccount ==
  ASSUME LockInv, NEW s \in Sessions, LockAccount(s)
  PROVE  LockInv'
  <1>1. PICK q \in Stmt : q = stmt[s]
    BY BusyStmt DEF LockAccount, LockInv
  <1>2. /\ Formed(q) /\ Prepared(s, q) /\ TypeOK /\ LockTypes /\ HeldInv
        /\ MovesLedger(q) /\ q.account = NULL
    BY <1>1 DEF LockAccount, LockInv, ReadyInv, Ready
  <1>3. PICK d \in Disciples : d = q.by
    BY <1>2 DEF Formed, MovesLedger
  <1>4. PICK a : a = IF q.kind = "complete" THEN Credited(ledger[d]) ELSE Debited(ledger[d])
    OBVIOUS
  <1>5. a \in Account /\ a # NULL
    <2>1. ledger[d] \in Account
      BY <1>2 DEF TypeOK
    <2> QED
      BY <1>4, <2>1, AccountTypes, RowsAssumption
  <1>6. PICK z : z = [q EXCEPT !.account = a]
    OBVIOUS
  <1>7. /\ z \in Stmt /\ SameParameters(q, z) /\ z.todo = q.todo /\ z.rows = q.rows
        /\ z.account = a
    BY <1>5, <1>6 DEF Stmt, SameParameters
  <1>8. /\ locks[d] = NULL /\ d \in Tables
        /\ locks' = [locks EXCEPT ![d] = s] /\ locks'[d] = s
        /\ \A x \in Tables : x # d => locks'[x] = locks[x]
        /\ UNCHANGED <<missions, ledger, now, runs, left>>
    BY <1>1, <1>2, <1>3 DEF LockAccount, LockTypes, Tables
  <1>9. /\ stmt' = [stmt EXCEPT ![s] = z] /\ stmt'[s] = z
        /\ \A p \in Sessions \ {s} : stmt'[p] = stmt[p]
    BY <1>1, <1>2, <1>3, <1>4, <1>6 DEF LockAccount, LockTypes
  <1>10. LockTypes'
    BY <1>2, <1>7, <1>8, <1>9 DEF LockTypes
  <1>11. Ready(s)'
    <2>1. MovesLedger(z) /\ Formed(z)
      BY <1>2, <1>7, Parameters DEF Formed, SameParameters
    <2>2. Formed(stmt[s])'
      BY <1>8, <1>9, <2>1 DEF Formed, Moments, MovesLedger
    <2>3. \A n \in DOMAIN z.rows :
            locks'[n] = s /\ Matches(z, missions[n]) /\ z.rows[n] = Written(z, n, missions[n])
      <3>1. \A n \in DOMAIN q.rows :
              /\ locks[n] = s /\ Matches(q, missions[n])
              /\ q.rows[n] = Written(q, n, missions[n])
        BY <1>2 DEF Prepared
      <3>2. \A n \in DOMAIN q.rows : n \in Tables /\ n # d /\ locks'[n] = s
        BY <1>8, <3>1, Fields, SessionsAssumption DEF Tables
      <3> QED
        BY <1>7, <3>1, <3>2, Parameters
    <2>4. Prepared(s, stmt[s])'
      BY <1>8, <1>9, <2>3, StillPrepared
    <2>5. Booked(s, stmt[s])'
      BY <1>3, <1>4, <1>7, <1>8, <1>9 DEF Booked, SameParameters
    <2> QED
      BY <2>2, <2>4, <2>5 DEF Ready
  <1>12. Busy(s)'
    BY <1>7, <1>9 DEF Stmt, Kinds, Busy
  <1>13. \A p \in Sessions \ {s} :
           /\ SameStmt(stmt[p], stmt'[p])
           /\ \A x \in Tables : locks'[x] = p <=> locks[x] = p
    BY <1>8, <1>9, SessionsAssumption DEF SameStmt
  <1> QED
    BY <1>5, <1>7, <1>8, <1>9, <1>10, <1>11, <1>12, <1>13, OneSession

----------------------------------------------------------------------------
\* Statements end.

\* A statement that ends leaves to the others what they have locked.
LEMMA KeepEnd ==
  ASSUME LockInv, NEW s \in Sessions, End(s), TypeOK', BoardInv',
         \A m \in Missions : locks[m] # s => missions'[m] = missions[m] /\ runs'[m] = runs[m],
         \A d \in Disciples : locks[d] # s => ledger'[d] = ledger[d]
  PROVE  LockInv'
  <1>1. LockTypes /\ ReadyInv /\ HeldInv
    BY DEF LockInv
  <1>2. /\ stmt' = [stmt EXCEPT ![s] = Idle] /\ stmt'[s] = Idle
        /\ \A p \in Sessions \ {s} : stmt'[p] = stmt[p]
        /\ locks' = [x \in Tables |-> IF locks[x] = s THEN NULL ELSE locks[x]]
        /\ now' = now /\ left' = left
    BY <1>1 DEF End, Released, LockTypes
  <1>3. LockTypes'
    BY <1>1, <1>2 DEF LockTypes
  <1>4. ASSUME NEW p \in Sessions PROVE Ready(p)'
    <2>1. CASE p # s /\ Busy(p)
      <3>1. Ready(p) /\ Formed(stmt[p]) /\ stmt[p] \in Stmt
        BY <1>1, <2>1, BusyStmt DEF ReadyInv, Ready
      <3>2. DOMAIN stmt[p].rows \in SUBSET Missions
        BY <3>1, Fields
      <3>3. stmt[p].account # NULL => stmt[p].by \in Disciples
        BY <3>1 DEF Formed, MovesLedger
      <3>4. SameStmt(stmt[p], stmt'[p]) /\ stmt[p].at \in Moments'
        BY <1>2, <2>1, <3>1 DEF SameStmt, Formed, Moments
      <3>5. \A m \in DOMAIN stmt[p].rows : locks[m] = p =>
              locks'[m] = p /\ missions'[m] = missions[m] /\ runs'[m] = runs[m]
        BY <1>2, <2>1, <3>2 DEF Tables
      <3>6. stmt[p].account # NULL /\ locks[stmt[p].by] = p =>
              locks'[stmt[p].by] = p /\ ledger'[stmt[p].by] = ledger[stmt[p].by]
        BY <1>2, <2>1, <3>3 DEF Tables
      <3> QED
        BY <2>1, <3>1, <3>4, <3>5, <3>6, StaysReady
    <2>2. CASE p # s /\ ~ Busy(p)
      BY <1>2, <2>2 DEF Ready, Busy
    <2>3. CASE p = s
      BY <1>2, <2>3 DEF Ready, Busy, Idle
    <2> QED
      BY <2>1, <2>2, <2>3
  <1>5. HeldInv'
    <2>1. \A x \in Tables : locks'[x] # NULL =>
            /\ locks'[x] = locks[x] /\ locks[x] \in Sessions \ {s} /\ locks[x] # NULL
            /\ stmt'[locks[x]] = stmt[locks[x]]
      BY <1>1, <1>2 DEF LockTypes
    <2> QED
      BY <1>1, <2>1 DEF HeldInv, Busy, Tables
  <1> QED
    BY <1>3, <1>4, <1>5 DEF LockInv, ReadyInv

LEMMA KeepRollback ==
  ASSUME LockInv, NEW s \in Sessions, Rollback(s)
  PROVE  LockInv'
  <1>1. End(s) /\ UNCHANGED <<missions, ledger, now, runs>>
    BY DEF Rollback, End
  <1>2. TypeOK' /\ BoardInv'
    BY <1>1 DEF LockInv, TypeOK, BoardInv
  <1> QED
    BY <1>1, <1>2, KeepEnd

\* What a commit does to the tables.
LEMMA Committed ==
  ASSUME LockInv, NEW s \in Sessions, Commit(s), NEW q \in Stmt, q = stmt[s]
  PROVE  /\ Formed(q)
         /\ \A m \in DOMAIN q.rows :
              /\ m \in Missions /\ locks[m] = s /\ Matches(q, missions[m])
              /\ q.rows[m] = Written(q, m, missions[m])
              /\ missions'[m] = q.rows[m] /\ runs'[m] = Chronicle(q, m)
         /\ \A m \in Missions \ DOMAIN q.rows :
              missions'[m] = missions[m] /\ runs'[m] = runs[m]
         /\ missions' = [m \in Missions |-> missions'[m]]
         /\ runs' = [m \in Missions |-> runs'[m]]
         /\ MovesLedger(q) =>
              /\ q.by \in Disciples /\ locks[q.by] = s
              /\ ledger' = [ledger EXCEPT ![q.by] =
                             IF q.kind = "complete" THEN Credited(@) ELSE Debited(@)]
         /\ ~ MovesLedger(q) => ledger' = ledger
         /\ now' = now /\ End(s)
  <1>1. Formed(q) /\ Prepared(s, q) /\ Booked(s, q) /\ ledger \in [Disciples -> Account]
    BY DEF Commit, LockInv, ReadyInv, Ready, TypeOK
  <1>2. DOMAIN q.rows \in SUBSET Missions
    BY Fields
  <1>3. /\ missions' = [m \in Missions |-> IF m \in DOMAIN q.rows THEN q.rows[m]
                                           ELSE missions[m]]
        /\ ledger' = [d \in Disciples |-> IF d = q.by /\ MovesLedger(q) THEN q.account
                                          ELSE ledger[d]]
        /\ runs' = [m \in Missions |-> IF m \in DOMAIN q.rows THEN Chronicle(q, m)
                                       ELSE runs[m]]
        /\ MovesLedger(q) => q.account # NULL
        /\ End(s)
    BY DEF Commit
  <1>4. \A m \in DOMAIN q.rows :
          /\ m \in Missions /\ locks[m] = s /\ Matches(q, missions[m])
          /\ q.rows[m] = Written(q, m, missions[m])
          /\ missions'[m] = q.rows[m] /\ runs'[m] = Chronicle(q, m)
    BY <1>1, <1>2, <1>3 DEF Prepared
  <1>5. \A m \in Missions \ DOMAIN q.rows :
          missions'[m] = missions[m] /\ runs'[m] = runs[m]
    BY <1>3
  <1>6. missions' = [m \in Missions |-> missions'[m]] /\ runs' = [m \in Missions |-> runs'[m]]
    BY <1>3
  <1>7. ~ MovesLedger(q) => ledger' = ledger
    BY <1>1, <1>3
  <1>8. ASSUME MovesLedger(q)
        PROVE  /\ q.by \in Disciples /\ locks[q.by] = s
               /\ ledger' = [ledger EXCEPT ![q.by] =
                              IF q.kind = "complete" THEN Credited(@) ELSE Debited(@)]
    <2>1. q.by \in Disciples
      BY <1>1, <1>8 DEF Formed, MovesLedger
    <2>2. /\ locks[q.by] = s
          /\ q.account = IF q.kind = "complete" THEN Credited(ledger[q.by])
                                                ELSE Debited(ledger[q.by])
      BY <1>1, <1>3, <1>8 DEF Booked
    <2> QED
      BY <1>1, <1>3, <1>8, <2>1, <2>2
  <1> QED
    BY <1>1, <1>3, <1>4, <1>5, <1>6, <1>7, <1>8 DEF End

\* A statement that commits one row.
LEMMA CommittedOne ==
  ASSUME LockInv, NEW s \in Sessions, Commit(s), NEW q \in Stmt, q = stmt[s],
         NEW m \in DOMAIN q.rows, q.kind # "sweep"
  PROVE  /\ m \in Missions /\ Matches(q, missions[m])
         /\ q.rows[m] = Written(q, m, missions[m])
         /\ missions' = [missions EXCEPT ![m] = Written(q, m, missions[m])]
         /\ runs' = [runs EXCEPT ![m] = Chronicle(q, m)]
         /\ q.at \in Moments
         /\ q.kind # "cancel" => q.by \in Disciples
         /\ MovesLedger(q) <=> /\ q.kind \in {"complete", "fail"}
                               /\ q.rows[m].status \in Terminal
  <1>1. /\ Formed(q) /\ TypeOK
        /\ m \in Missions /\ Matches(q, missions[m])
        /\ q.rows[m] = Written(q, m, missions[m])
        /\ missions'[m] = q.rows[m] /\ runs'[m] = Chronicle(q, m)
        /\ \A n \in Missions \ DOMAIN q.rows :
             missions'[n] = missions[n] /\ runs'[n] = runs[n]
        /\ missions' = [n \in Missions |-> missions'[n]]
        /\ runs' = [n \in Missions |-> runs'[n]]
    BY Committed DEF LockInv
  <1>2. DOMAIN q.rows = {m}
    BY <1>1 DEF Formed
  <1>3. missions' = [missions EXCEPT ![m] = q.rows[m]]
    BY <1>1, <1>2 DEF TypeOK
  <1>4. runs' = [runs EXCEPT ![m] = Chronicle(q, m)]
    BY <1>1, <1>2 DEF TypeOK
  <1>5. q.at \in Moments /\ (q.kind # "cancel" => q.by \in Disciples)
    BY <1>1 DEF Formed
  <1> QED
    BY <1>1, <1>2, <1>3, <1>4, <1>5 DEF MovesLedger

LEMMA CommitClaim ==
  ASSUME LockInv, NEW s \in Sessions, Commit(s), NEW q \in Stmt, q = stmt[s],
         NEW m \in DOMAIN q.rows, q.kind \in {"claim", "claim_next"}
  PROVE  Next
  <1>1. /\ m \in Missions /\ Matches(q, missions[m])
        /\ q.rows[m] = Written(q, m, missions[m])
        /\ missions' = [missions EXCEPT ![m] = Written(q, m, missions[m])]
        /\ runs' = [runs EXCEPT ![m] = Chronicle(q, m)]
        /\ q.at \in Moments /\ q.by \in Disciples /\ ~ MovesLedger(q)
    BY CommittedOne
  <1>2. UNCHANGED <<ledger, now>>
    BY <1>1, Committed
  <1>3. TypeOK /\ BoardInv /\ q.at \in Nat /\ Unset \in Asked
    BY Fields DEF LockInv, Asked
  <1> DEFINE r == missions[m]
  <1>4. r \in Row /\ runs[m] \in Seq(Run) /\ Len(runs[m]) \in Nat /\ RowInv(r, runs[m])
    BY <1>1, <1>3, BoardFacts, LenProperties
  <1>5. CASE q.kind = "claim" /\ HeldBy(r, q.by)
    <2>1. q.rows[m] = Renewed(r, Unset, q.at) /\ r.not_before <= q.at
      BY <1>1, <1>5 DEF Written, Matches, Claimable
    <2>2. q.rows[m].claim_token = Len(runs[m])
      BY <1>4, <1>5, <2>1 DEF Renewed, HeldBy, RowInv, RunsFit, Row
    <2>3. Chronicle(q, m) = runs[m]
      BY <1>4, <1>5, <2>2 DEF Chronicle
    <2>4. runs' = runs
      BY <1>1, <1>3, <2>3 DEF TypeOK
    <2>5. ClaimHeld(m, q.by, Unset, q.at)
      BY <1>1, <1>2, <1>5, <2>1, <2>4 DEF ClaimHeld
    <2> QED
      BY <1>1, <1>3, <2>5 DEF Claim, ClaimStep, Next
  <1>6. CASE ~ (q.kind = "claim" /\ HeldBy(r, q.by))
    <2>1. q.rows[m] = Granted(r, q.by, FreshToken(m), Unset, q.at) /\ Claimable(r, q.at)
      BY <1>1, <1>6 DEF Written, Matches
    <2>2. FreshToken(m) = Len(runs[m]) + 1
      BY DEF FreshToken
    <2>3. q.rows[m].claim_token = FreshToken(m)
      BY <1>1, <1>3, <1>4, <2>1, <2>2, GrantedType
    <2>4. Chronicle(q, m) = Append(runs[m], [by |-> q.by, report |-> "none"])
      BY <1>4, <2>2, <2>3 DEF Chronicle
    <2>5. Grant(m, q.by, Unset, q.at)
      BY <1>1, <1>2, <2>1, <2>4 DEF Grant, Begin
    <2>6. CASE q.kind = "claim"
      BY <1>1, <1>3, <1>6, <2>5, <2>6 DEF Claim, ClaimStep, Next
    <2>7. CASE q.kind = "claim_next"
      BY <1>1, <1>3, <2>5, <2>7 DEF ClaimNext, ClaimStep, Next, Matches
    <2> QED
      BY <2>6, <2>7
  <1> QED
    BY <1>5, <1>6

LEMMA CommitReport ==
  ASSUME LockInv, NEW s \in Sessions, Commit(s), NEW q \in Stmt, q = stmt[s],
         NEW m \in DOMAIN q.rows, q.kind \in {"heartbeat", "complete", "fail"}
  PROVE  Next
  <1>1. /\ m \in Missions /\ Matches(q, missions[m])
        /\ q.rows[m] = Written(q, m, missions[m])
        /\ missions' = [missions EXCEPT ![m] = Written(q, m, missions[m])]
        /\ runs' = [runs EXCEPT ![m] = Chronicle(q, m)]
        /\ q.at \in Moments /\ q.by \in Disciples
        /\ MovesLedger(q) <=> /\ q.kind \in {"complete", "fail"}
                              /\ q.rows[m].status \in Terminal
    BY CommittedOne
  <1>2. now' = now /\ (~ MovesLedger(q) => ledger' = ledger)
        /\ (MovesLedger(q) => ledger' = [ledger EXCEPT ![q.by] =
                             IF q.kind = "complete" THEN Credited(@) ELSE Debited(@)])
    BY Committed
  <1>3. TypeOK /\ BoardInv /\ q.at \in Nat /\ Unset \in Asked
    BY Fields DEF LockInv, Asked
  <1> DEFINE r == missions[m]
             d == q.by
             t == q.token
  <1>4. r \in Row /\ Holds(r, d, t)
    BY <1>1, <1>3, RowTypes DEF Matches
  <1>5. t \in Given(m, d) /\ r.claimed_by = d
    BY <1>1, <1>3, <1>4, TokenGiven
  <1>6. HolderStep(m, d, t) => Next
    BY <1>1, <1>5 DEF Next
  <1>7. CASE q.kind = "heartbeat"
    <2>1. Chronicle(q, m) = runs[m]
      BY <1>7 DEF Chronicle
    <2>2. runs' = runs
      BY <1>1, <1>3, <2>1 DEF TypeOK
    <2>3. Heartbeat(m, d, t, Unset, q.at)
      BY <1>1, <1>2, <1>4, <1>7, <2>2 DEF Heartbeat, Written
    <2> QED
      BY <1>1, <1>3, <1>6, <2>3 DEF HolderStep
  <1>8. CASE q.kind = "complete"
    <2>1. q.rows[m] = CompletedRow(r)
      BY <1>1, <1>8 DEF Written
    <2>2. q.rows[m].status = "completed"
      BY <1>4, <2>1 DEF CompletedRow, Noted, Row
    <2>3. Record(m, t, "completed")
      BY <1>1, <1>8, <2>2 DEF Chronicle, Record
    <2>4. ledger' = [ledger EXCEPT ![r.claimed_by] = Credited(@)]
      BY <1>1, <1>2, <1>5, <1>8, <2>2 DEF Terminal
    <2>5. Complete(m, d, t)
      BY <1>1, <1>2, <1>4, <2>1, <2>3, <2>4 DEF Complete
    <2> QED
      BY <1>6, <2>5 DEF HolderStep
  <1>9. CASE q.kind = "fail" /\ Retries(q, r)
    <2>1. q.rows[m] = ReleasedRow(r, q.at + q.after)
      BY <1>1, <1>9 DEF Written
    <2>2. q.after \in Backoffs /\ r.attempts < r.max_attempts
      BY <1>9, Fields DEF Retries
    <2>3. q.rows[m].status = "open"
      <3>1. q.at + q.after \in Nat
        BY <1>3, <2>2, PostingAssumption
      <3> QED
        BY <1>4, <2>1, <3>1, ReleasedType
    <2>4. Record(m, t, "retried")
      BY <1>1, <1>9, <2>3 DEF Chronicle, Record
    <2>5. ledger' = ledger
      BY <1>1, <1>2, <2>3 DEF Terminal
    <2>6. FailRetry(m, d, t, q.after, q.at)
      BY <1>1, <1>2, <1>4, <2>1, <2>2, <2>4, <2>5 DEF FailRetry
    <2> QED
      BY <1>1, <1>6, <2>2, <2>6 DEF HolderStep
  <1>10. CASE q.kind = "fail" /\ ~ Retries(q, r)
    <2>1. q.rows[m] = FailedRow(r)
      BY <1>1, <1>10 DEF Written
    <2>2. q.rows[m].status = "failed"
      BY <1>4, <2>1 DEF FailedRow, Noted, Row
    <2>3. Record(m, t, "failed")
      BY <1>1, <1>10, <2>2 DEF Chronicle, Record
    <2>4. ledger' = [ledger EXCEPT ![r.claimed_by] = Debited(@)]
      BY <1>1, <1>2, <1>5, <1>10, <2>2 DEF Terminal
    <2>5. PICK retryable \in BOOLEAN : retryable <=> q.after # NULL
      OBVIOUS
    <2>6. retryable => r.attempts >= r.max_attempts
      BY <1>4, <1>10, <2>5 DEF Retries, Row
    <2>7. FailTerminal(m, d, t, retryable)
      BY <1>1, <1>2, <1>4, <2>1, <2>3, <2>4, <2>6 DEF FailTerminal
    <2> QED
      BY <1>6, <2>7 DEF HolderStep
  <1> QED
    BY <1>7, <1>8, <1>9, <1>10

LEMMA CommitCancel ==
  ASSUME LockInv, NEW s \in Sessions, Commit(s), NEW q \in Stmt, q = stmt[s],
         NEW m \in DOMAIN q.rows, q.kind = "cancel"
  PROVE  Next
  <1>1. /\ m \in Missions /\ Matches(q, missions[m])
        /\ missions' = [missions EXCEPT ![m] = Written(q, m, missions[m])]
        /\ runs' = [runs EXCEPT ![m] = Chronicle(q, m)]
        /\ ~ MovesLedger(q)
    BY CommittedOne
  <1>2. UNCHANGED <<ledger, now>>
    BY <1>1, Committed
  <1>3. runs' = runs
    BY <1>1 DEF Chronicle, LockInv, TypeOK
  <1>4. Cancel(m)
    BY <1>1, <1>2, <1>3 DEF Cancel, Matches, Written
  <1> QED
    BY <1>1, <1>4 DEF MissionStep, Next

LEMMA CommitSweep ==
  ASSUME LockInv, NEW s \in Sessions, Commit(s), NEW q \in Stmt, q = stmt[s],
         DOMAIN q.rows # {}, q.kind = "sweep"
  PROVE  Next
  <1> DEFINE S == DOMAIN q.rows
  <1>1. /\ Formed(q)
        /\ \A m \in S :
             /\ m \in Missions /\ Matches(q, missions[m])
             /\ q.rows[m] = Written(q, m, missions[m])
             /\ missions'[m] = q.rows[m] /\ runs'[m] = Chronicle(q, m)
        /\ \A m \in Missions \ S : missions'[m] = missions[m] /\ runs'[m] = runs[m]
        /\ missions' = [m \in Missions |-> missions'[m]]
        /\ runs' = [m \in Missions |-> runs'[m]]
        /\ ~ MovesLedger(q) => ledger' = ledger
        /\ now' = now
    BY Committed
  <1>2. S \in SUBSET Missions
    BY Fields
  <1>3. UNCHANGED <<ledger, now>>
    BY <1>1 DEF MovesLedger
  <1>4. runs' = runs
    BY <1>1 DEF Chronicle, LockInv, TypeOK
  <1>5. missions' = [m \in Missions |-> IF m \in S THEN SweptRow(missions[m]) ELSE missions[m]]
    BY <1>1 DEF Written
  <1>6. \A m \in S : Exhausted(missions[m], q.at)
    BY <1>1 DEF Matches
  <1>7. Sweep(q.at, S)
    BY <1>3, <1>4, <1>5, <1>6 DEF Sweep
  <1> QED
    BY <1>1, <1>2, <1>7 DEF Next, Formed

\* A commit is one step of MissionHall, or changes nothing.
LEMMA CommitSteps ==
  ASSUME LockInv, NEW s \in Sessions, Commit(s)
  PROVE  Next \/ UNCHANGED vars
  <1>1. PICK q \in Stmt : q = stmt[s]
    BY BusyStmt DEF Commit, LockInv
  <1>2. CASE DOMAIN q.rows = {}
    <2>1. ~ MovesLedger(q)
      BY <1>2 DEF MovesLedger
    <2>2. UNCHANGED <<ledger, now>>
      BY <1>1, <2>1, Committed
    <2>3. /\ \A m \in Missions : missions'[m] = missions[m] /\ runs'[m] = runs[m]
          /\ missions' = [m \in Missions |-> missions'[m]]
          /\ runs' = [m \in Missions |-> runs'[m]]
      BY <1>1, <1>2, Committed
    <2>4. UNCHANGED <<missions, runs>>
      BY <2>3 DEF LockInv, TypeOK
    <2> QED
      BY <2>2, <2>4 DEF vars
  <1>3. CASE DOMAIN q.rows # {} /\ q.kind # "sweep"
    <2>1. PICK m \in DOMAIN q.rows : TRUE
      BY <1>3
    <2>2. q.kind \in Kinds
      BY Fields
    <2> QED
      BY <1>1, <1>3, <2>1, <2>2, CommitClaim, CommitReport, CommitCancel DEF Kinds
  <1> QED
    BY <1>1, <1>2, <1>3, CommitSweep

LEMMA KeepCommit ==
  ASSUME LockInv, NEW s \in Sessions, Commit(s)
  PROVE  LockInv'
  <1>1. PICK q \in Stmt : q = stmt[s]
    BY BusyStmt DEF Commit, LockInv
  <1>2. [Next]_vars
    BY CommitSteps
  <1>3. TypeOK' /\ BoardInv'
    BY <1>2, TypeStep, BoardStep DEF LockInv
  <1>4. \A m \in DOMAIN q.rows : locks[m] = s
    BY <1>1, Committed
  <1>5. \A m \in Missions : locks[m] # s => missions'[m] = missions[m] /\ runs'[m] = runs[m]
    BY <1>1, <1>4, Committed
  <1>6. ASSUME NEW d \in Disciples, locks[d] # s
        PROVE  ledger'[d] = ledger[d]
    <2>1. CASE MovesLedger(q)
      <3>1. /\ q.by \in Disciples /\ locks[q.by] = s
            /\ ledger' = [ledger EXCEPT ![q.by] =
                            IF q.kind = "complete" THEN Credited(@) ELSE Debited(@)]
        BY <1>1, <2>1, Committed
      <3> QED
        BY <1>6, <3>1 DEF LockInv, TypeOK
    <2>2. CASE ~ MovesLedger(q)
      BY <1>1, <2>2, Committed
    <2> QED
      BY <2>1, <2>2
  <1>7. End(s)
    BY DEF Commit
  <1> QED
    BY <1>3, <1>5, <1>6, <1>7, KeepEnd

\* While the clock moves every statement waits, within its bound.
LEMMA KeepLockTick ==
  ASSUME LockInv, LockTick
  PROVE  LockInv' /\ Tick
  <1>1. /\ TypeOK /\ BoardInv /\ LockTypes /\ ReadyInv /\ HeldInv
        /\ Tick /\ now' = now + 1 /\ UNCHANGED <<missions, ledger, runs, stmt, locks, left>>
        /\ \A s \in Sessions : Busy(s) => now - stmt[s].at < MaxWait
    BY DEF LockInv, LockTick, Tick
  <1>2. TypeOK' /\ BoardInv'
    BY <1>1, TypeStep DEF Next, BoardInv
  <1>3. LockTypes' /\ HeldInv'
    BY <1>1 DEF LockTypes, HeldInv, Busy
  <1>4. ASSUME NEW p \in Sessions PROVE Ready(p)'
    <2>1. CASE Busy(p)
      <3>1. Ready(p) /\ stmt[p].at \in Moments /\ now \in Nat
        BY <1>1, <2>1 DEF ReadyInv, Ready, Formed, TypeOK
      <3>2. stmt[p].at \in Moments'
        BY <1>1, <2>1, <3>1, TimeAssumption DEF Moments
      <3>3. SameStmt(stmt[p], stmt'[p])
        BY <1>1 DEF SameStmt
      <3> QED
        BY <1>1, <2>1, <3>1, <3>2, <3>3, StaysReady
    <2>2. CASE ~ Busy(p)
      BY <1>1, <2>2 DEF Ready, Busy
    <2> QED
      BY <2>1, <2>2
  <1> QED
    BY <1>1, <1>2, <1>3, <1>4 DEF LockInv, ReadyInv

----------------------------------------------------------------------------
\* Every state is such a state, and every step is a step of MissionHall or none.

\* A board a run starts from is a board as posted.
LEMMA PostedBoard ==
  ASSUME LockInit, NEW m \in Missions
  PROVE  missions[m] \in Row /\ RowInv(missions[m], <<>>) /\ missions[m].status = "open"
  <1>1. PICK art \in Arts, cap \in AttemptCaps, lease \in Leases, delay \in Delays :
          missions[m] = PostedRow(art, cap, lease, delay)
    BY BoardsAssumption DEF LockInit
  <1>2. /\ cap \in Nat /\ lease \in Nat /\ delay \in Int
    BY PostingAssumption
  <1>3. missions[m] \in Row
    BY <1>1, <1>2 DEF PostedRow, Row, Pending, NoToken, NoLease, Notes
  <1>4. AbsentRow \in Row /\ AbsentRow.status = "absent"
    BY DEF AbsentRow, Row, NoToken, NoLease, Notes
  <1>5. <<>> \in Seq(Run) /\ RowInv(AbsentRow, <<>>)
    <2>1. <<>> \in Seq(Run) /\ Len(<<>>) = 0
      BY EmptySeq
    <2> QED
      BY <2>1 DEF RowInv, ColumnsFit, RunsFit, AbsentRow
  <1>6. RowInv(PostedRow(art, cap, lease, delay), <<>>)
    BY <1>4, <1>5, PostFits
  <1> QED
    BY <1>1, <1>3, <1>6 DEF PostedRow

LEMMA LockStart == LockInit => LockInv
  <1> SUFFICES ASSUME LockInit PROVE LockInv
    OBVIOUS
  <1>1. /\ missions \in Boards /\ ledger = [d \in Disciples |-> NewAccount] /\ now = 0
        /\ runs = [m \in Missions |-> <<>>] /\ stmt = [s \in Sessions |-> Idle]
        /\ locks = [x \in Tables |-> NULL] /\ left = MaxStatements
    BY DEF LockInit
  <1>2. TypeOK
    <2>1. missions \in [Missions -> Row]
      <3>1. missions = [m \in Missions |-> missions[m]]
        BY <1>1, BoardsAssumption
      <3> QED
        BY <3>1, PostedBoard
    <2>2. NewAccount \in Account /\ <<>> \in Seq(Run)
      BY EmptySeq DEF NewAccount, Account
    <2> QED
      BY <1>1, <2>1, <2>2 DEF TypeOK
  <1>3. BoardInv
    BY <1>1, PostedBoard DEF BoardInv
  <1>4. LockTypes
    BY <1>1, SessionsAssumption DEF LockTypes
  <1>5. ReadyInv
    BY <1>1 DEF ReadyInv, Ready, Busy, Idle
  <1>6. HeldInv
    BY <1>1 DEF HeldInv, Tables
  <1> QED
    BY <1>2, <1>3, <1>4, <1>5, <1>6 DEF LockInv

LEMMA LockStep == LockInv /\ [LockNext]_lockVars => LockInv' /\ [Next]_vars
  <1> SUFFICES ASSUME LockInv, [LockNext]_lockVars
               PROVE  LockInv' /\ [Next]_vars
    OBVIOUS
  <1>1. ASSUME NEW s \in Sessions, Start(s)
        PROVE  LockInv' /\ [Next]_vars
    <2>1. PICK q \in Stmt : Launch(s, q) /\ Formed(q) /\ q.rows = <<>> /\ q.account = NULL
      BY <1>1, Starting
    <2> QED
      BY <2>1, KeepLaunch DEF Launch, vars
  <1>2. ASSUME NEW s \in Sessions, LockRow(s)
        PROVE  LockInv' /\ [Next]_vars
    BY <1>2, KeepLockRow DEF LockRow, vars
  <1>3. ASSUME NEW s \in Sessions, Skip(s)
        PROVE  LockInv' /\ [Next]_vars
    BY <1>3, KeepSkip DEF Skip, vars
  <1>4. ASSUME NEW s \in Sessions, LockAccount(s)
        PROVE  LockInv' /\ [Next]_vars
    BY <1>4, KeepLockAccount DEF LockAccount, vars
  <1>5. ASSUME NEW s \in Sessions, Commit(s)
        PROVE  LockInv' /\ [Next]_vars
    BY <1>5, KeepCommit, CommitSteps
  <1>6. ASSUME NEW s \in Sessions, Rollback(s)
        PROVE  LockInv' /\ [Next]_vars
    BY <1>6, KeepRollback DEF Rollback, End, vars
  <1>7. CASE LockTick
    BY <1>7, KeepLockTick DEF Next
  <1>8. CASE UNCHANGED lockVars
    <2>1. UNCHANGED <<missions, ledger, now, runs, stmt, locks, left>>
      BY <1>8 DEF lockVars
    <2>2. TypeOK' /\ BoardInv' /\ LockTypes' /\ HeldInv'
      BY <2>1 DEF LockInv, TypeOK, BoardInv, LockTypes, HeldInv, Busy
    <2>3. ASSUME NEW p \in Sessions PROVE Ready(p)'
      <3>1. CASE Busy(p)
        <4>1. Ready(p) /\ stmt[p].at \in Moments'
          BY <2>1, <3>1 DEF LockInv, ReadyInv, Ready, Formed, Moments
        <4>2. SameStmt(stmt[p], stmt'[p])
          BY <2>1 DEF SameStmt
        <4> QED
          BY <2>1, <3>1, <4>1, <4>2, StaysReady
      <3>2. CASE ~ Busy(p)
        BY <2>1, <3>2 DEF Ready, Busy
      <3> QED
        BY <3>1, <3>2
    <2> QED
      BY <2>1, <2>2, <2>3 DEF LockInv, ReadyInv, vars
  <1> QED
    BY <1>1, <1>2, <1>3, <1>4, <1>5, <1>6, <1>7, <1>8 DEF LockNext

(* Between its locks and its commit a statement may rely on what it read:  *)
(* the row it will write is locked by it, still satisfies its WHERE clause *)
(* and is what the written row was computed from.                          *)
THEOREM LocksCorrect == LockSpec => []LockInv
  BY LockStart, LockStep, PTL DEF LockSpec

(* Concurrent statements, each locking its rows one by one, waiting, and   *)
(* looking at the newest version of what it locked, behave as the atomic   *)
(* statements of MissionHall: at its commit a statement takes one of those *)
(* steps on the tables as they are then, or changes nothing.               *)
THEOREM Atomicity == LockSpec => StatementsAreAtomic
  <1>1. LockInv /\ [LockNext]_lockVars => [UNCHANGED vars \/ Next]_vars
    BY LockStep
  <1> QED
    BY <1>1, LocksCorrect, PTL DEF LockSpec, StatementsAreAtomic

(* Whatever happens, a lock has a statement under way behind it, and a     *)
(* statement holds the locks of the rows, and of the account, it writes.   *)
THEOREM LocksFit == LockSpec => []LocksTypeOK
  <1>1. ASSUME LockInv
        PROVE  LocksTypeOK
    <2>1. TypeOK /\ LockTypes /\ ReadyInv /\ HeldInv
      BY <1>1 DEF LockInv
    <2>2. ASSUME NEW s \in Sessions, Busy(s)
          PROVE  /\ \A m \in DOMAIN stmt[s].rows :
                      stmt[s].rows[m] \in Row /\ locks[m] = s
                 /\ stmt[s].account # NULL =>
                      stmt[s].account \in Account /\ locks[stmt[s].by] = s
      <3>1. stmt[s] \in Stmt /\ Prepared(s, stmt[s]) /\ Booked(s, stmt[s])
        BY <2>1, <2>2, BusyStmt DEF ReadyInv, Ready
      <3>2. stmt[s].rows \in [DOMAIN stmt[s].rows -> Row]
            /\ stmt[s].account \in Account \cup {NULL}
        BY <3>1, Fields
      <3> QED
        BY <3>1, <3>2 DEF Prepared, Booked
    <2> QED
      BY <2>1, <2>2 DEF LocksTypeOK, LockTypes, HeldInv
  <1> QED
    BY <1>1, LocksCorrect, PTL

(* What the theorems about MissionHall say of one statement at a time      *)
(* holds of statements that overlap: one run decides a mission, the ledger *)
(* counts the board, and a finished row is final.                          *)
THEOREM ConcurrentBoard ==
  LockSpec => [](OneRunDecides /\ LedgerMatchesBoard) /\ TerminalIsFinal
  <1>1. LockInit => LedgerInv
    <2> SUFFICES ASSUME LockInit, NEW d \in Disciples
                 PROVE  /\ ledger[d].completed = Cardinality(DoneSet(d))
                        /\ ledger[d].failed = Cardinality(LostSet(d))
      BY DEF LedgerInv
    <2>1. DoneSet(d) = {} /\ LostSet(d) = {}
      BY PostedBoard DEF DoneSet, LostSet, Done, Lost
    <2>2. ledger[d].completed = 0 /\ ledger[d].failed = 0
      BY DEF LockInit, NewAccount
    <2> QED
      BY <2>1, <2>2, FS_EmptySet
  <1>2. LockInv /\ LedgerInv /\ [LockNext]_lockVars => LedgerInv'
    BY LockStep, LedgerStep DEF LockInv
  <1>3. LockInv => OneRunDecides
    BY DEF LockInv, BoardInv, RowInv, OneRunDecides
  <1>4. LockInv /\ [LockNext]_lockVars =>
          [\A m \in Missions :
             missions[m].status \in Terminal => missions'[m] = missions[m]]_vars
    BY LockStep, FinalStep DEF LockInv
  <1> QED
    BY <1>1, <1>2, <1>3, <1>4, Counters, LocksCorrect, PTL DEF LockSpec, TerminalIsFinal

----------------------------------------------------------------------------
\* Deadlocks.

\* A statement on one mission that has not locked it yet holds nothing.
EmptyHanded ==
  \A s \in Sessions :
    Busy(s) /\ stmt[s].kind \notin {"sweep", "claim_next"} /\ stmt[s].todo # <<>> =>
      \A x \in Tables : locks[x] # s

LEMMA EmptyHandedStep ==
  LockInv /\ EmptyHanded /\ [LockNext]_lockVars => EmptyHanded'
  <1> SUFFICES ASSUME LockInv, EmptyHanded, [LockNext]_lockVars, NEW s \in Sessions,
                      Busy(s)', stmt'[s].kind \notin {"sweep", "claim_next"},
                      stmt'[s].todo # <<>>, NEW x \in Tables, locks'[x] = s
               PROVE  FALSE
    BY DEF EmptyHanded
  <1>1. LockTypes /\ HeldInv /\ ReadyInv /\ s # NULL
    BY SessionsAssumption DEF LockInv
  <1>2. ~ (stmt'[s].kind = stmt[s].kind /\ stmt'[s].todo = stmt[s].todo /\ locks'[x] = locks[x])
    BY DEF EmptyHanded, Busy
  <1>3. ASSUME NEW p \in Sessions, Start(p)
        PROVE  FALSE
    <2>1. PICK q \in Stmt : Launch(p, q)
      BY <1>3, Starting
    <2>2. /\ ~ Busy(p) /\ locks' = locks /\ stmt' = [stmt EXCEPT ![p] = q]
      BY <2>1 DEF Launch
    <2>3. p = s
      BY <1>1, <1>2, <2>2 DEF LockTypes
    <2> QED
      BY <1>1, <2>2, <2>3 DEF HeldInv
  <1>4. ASSUME NEW p \in Sessions, LockRow(p)
        PROVE  FALSE
    <2>1. PICK q \in Stmt : q = stmt[p]
      BY <1>4, BusyStmt DEF LockRow, LockInv
    <2>2. /\ Formed(q) /\ q.todo # <<>> /\ TypeOK
      BY <1>1, <1>4, <2>1 DEF LockRow, LockInv, ReadyInv, Ready
    <2>3. PICK m \in Missions : m = Head(q.todo)
      BY <2>2, Fields
    <2>4. /\ locks' = [locks EXCEPT ![m] = p]
          /\ stmt' = [o \in Sessions |-> IF o = p THEN Examined(q, m) ELSE Noticed(stmt[o], m)]
      BY <1>4, <2>1, <2>3 DEF LockRow
    <2>5. CASE p = s
      <3>1. PICK z : z = Examined(q, m)
        OBVIOUS
      <3>2. stmt'[s] = z /\ SameParameters(q, z)
            /\ z.todo \in {Rest(q, TRUE), Tail(q.todo)}
        BY <2>2, <2>3, <2>4, <2>5, <3>1, ExaminedStmt
      <3>3. q.kind \notin {"sweep", "claim_next"}
        BY <3>2 DEF SameParameters
      <3>4. Tail(q.todo) = <<>> /\ Rest(q, TRUE) = <<>>
        BY <2>2, <3>3, Fields DEF Formed, Rest
      <3> QED
        BY <3>2, <3>4
    <2>6. CASE p # s
      <3>1. PICK z : z = Noticed(stmt[s], m)
        OBVIOUS
      <3>2. stmt'[s] = z /\ SameStmt(stmt[s], z)
        BY <1>1, <2>4, <2>6, <3>1, NoticedStmt DEF LockTypes
      <3>3. locks'[x] = locks[x]
        BY <1>1, <2>4, <2>6 DEF LockTypes
      <3> QED
        BY <1>2, <3>2, <3>3 DEF SameStmt
    <2> QED
      BY <2>5, <2>6
  <1>5. ASSUME NEW p \in Sessions, Skip(p)
        PROVE  FALSE
    <2>1. /\ stmt' = [stmt EXCEPT ![p].todo = Tail(@)] /\ locks' = locks
          /\ stmt[p].kind = "claim_next" /\ Busy(p)
      BY <1>5 DEF Skip
    <2>2. stmt[p] \in Stmt
      BY <1>1, <2>1, BusyStmt
    <2>3. stmt'[p].kind = "claim_next" /\ \A o \in Sessions \ {p} : stmt'[o] = stmt[o]
      BY <1>1, <2>1, <2>2 DEF LockTypes, Stmt
    <2> QED
      BY <1>2, <2>1, <2>3
  <1>6. ASSUME NEW p \in Sessions, LockAccount(p)
        PROVE  FALSE
    <2>1. PICK a : stmt' = [stmt EXCEPT ![p].account = a]
      BY <1>6 DEF LockAccount
    <2>2. /\ locks' = [locks EXCEPT ![stmt[p].by] = p] /\ Busy(p) /\ MovesLedger(stmt[p])
      BY <1>6 DEF LockAccount
    <2>3. stmt[p] \in Stmt /\ Formed(stmt[p])
      BY <1>1, <2>2, BusyStmt DEF ReadyInv, Ready
    <2>4. /\ stmt'[p].todo = stmt[p].todo
          /\ \A o \in Sessions \ {p} : stmt'[o] = stmt[o]
      BY <1>1, <2>1, <2>3 DEF LockTypes, Stmt
    <2>5. stmt[p].todo = <<>>
      BY <2>2, <2>3 DEF MovesLedger, Formed
    <2>6. p # s /\ locks'[x] = locks[x]
      BY <1>1, <2>2, <2>4, <2>5 DEF LockTypes
    <2> QED
      BY <1>2, <2>4, <2>6
  <1>7. ASSUME NEW p \in Sessions, End(p)
        PROVE  FALSE
    <2>1. /\ stmt' = [stmt EXCEPT ![p] = Idle] /\ locks' = Released(p)
      BY <1>7 DEF End
    <2>2. p # s
      BY <1>1, <2>1 DEF LockTypes, Busy, Idle
    <2>3. stmt'[s] = stmt[s] /\ locks'[x] = locks[x]
      BY <1>1, <2>1, <2>2 DEF LockTypes, Released
    <2> QED
      BY <1>2, <2>3
  <1>8. CASE LockTick \/ UNCHANGED lockVars
    BY <1>2, <1>8 DEF LockTick, lockVars
  <1> QED
    BY <1>3, <1>4, <1>5, <1>6, <1>7, <1>8 DEF LockNext, Commit, Rollback

(* Reports, claims and cancels are never in a deadlock: before it locks    *)
(* its mission such a statement holds nothing anybody could wait for, and  *)
(* who holds an account waits for nobody.  Only sweeps can wait for one    *)
(* another in a circle, whatever the number of connections.                *)
THEOREM Deadlocks == LockSpec => []OnlySweepsDeadlock
  <1>1. LockInit => EmptyHanded
    BY DEF LockInit, EmptyHanded, Busy, Idle
  <1>2. ASSUME LockInv, EmptyHanded
        PROVE  OnlySweepsDeadlock
    <2> SUFFICES ASSUME NEW S \in SUBSET Sessions, S # {}, S = {Awaited(s) : s \in S},
                        NEW s \in S, stmt[s].kind # "sweep"
                 PROVE  FALSE
      BY DEF OnlySweepsDeadlock
    <2>1. LockTypes /\ HeldInv /\ ReadyInv
      BY <1>2 DEF LockInv
    <2>2. \A p \in S : p # NULL /\ Awaited(p) \in S /\ Awaited(p) # NULL
      BY SessionsAssumption
    <2>3. \A p \in S : Busy(p) /\ stmt[p] \in Stmt /\ Formed(stmt[p])
      BY <2>1, <2>2, BusyStmt DEF Awaited, ReadyInv, Ready
    <2>4. \A p \in S : \E x \in Tables : locks[x] = Awaited(p)
      <3> SUFFICES ASSUME NEW p \in S PROVE \E x \in Tables : locks[x] = Awaited(p)
        OBVIOUS
      <3>1. CASE stmt[p].todo # <<>> /\ stmt[p].kind # "claim_next"
        <4>1. Head(stmt[p].todo) \in Missions
          BY <2>3, <3>1, Fields
        <4> QED
          BY <2>3, <3>1, <4>1 DEF Awaited, Tables
      <3>2. CASE ~ (stmt[p].todo # <<>> /\ stmt[p].kind # "claim_next")
        <4>1. MovesLedger(stmt[p]) /\ Awaited(p) = locks[stmt[p].by]
          BY <2>2, <2>3, <3>2 DEF Awaited
        <4>2. stmt[p].by \in Disciples
          BY <2>3, <4>1 DEF MovesLedger, Formed
        <4> QED
          BY <4>1, <4>2 DEF Tables
      <3> QED
        BY <3>1, <3>2
    <2>5. \E x \in Tables : locks[x] = s
      BY <2>4
    <2>6. ~ (stmt[s].todo # <<>> /\ stmt[s].kind # "claim_next")
      BY <1>2, <2>3, <2>5 DEF EmptyHanded
    <2>7. MovesLedger(stmt[s]) /\ Awaited(s) = locks[stmt[s].by]
      BY <2>2, <2>3, <2>6 DEF Awaited
    <2>8. PICK p \in S : p = locks[stmt[s].by]
      BY <2>2, <2>7
    <2>9. stmt[p].account # NULL
      BY <2>1, <2>2, <2>3, <2>7, <2>8 DEF HeldInv, MovesLedger, Formed
    <2>10. stmt[p].todo = <<>>
      BY <2>3, <2>9 DEF Formed, MovesLedger
    <2> QED
      BY <2>2, <2>3, <2>9, <2>10 DEF Awaited
  <1> QED
    BY <1>1, <1>2, LocksCorrect, EmptyHandedStep, PTL DEF LockSpec

----------------------------------------------------------------------------
\* What claim-next takes.

\* The missions of the snapshot that nobody else has locked since are unlocked and
\* match still; they are still to come, or no better than what was taken.
Offered(s, q) ==
  /\ \A i, j \in DOMAIN q.todo :
       i < j => q.todo[i] # q.todo[j] /\ ~ Better(q.by, q.todo[j], q.todo[i])
  /\ \A m \in Range(q.todo) : locks[m] # s
  /\ \A m \in q.saw \ q.busy : locks[m] \in {NULL, s} /\ Matches(q, missions[m])
  /\ DOMAIN q.rows = {} => q.saw \ q.busy \subseteq Range(q.todo)
  /\ \A taken \in DOMAIN q.rows : \A m \in q.saw \ (q.busy \cup DOMAIN q.rows) :
       ~ Better(q.by, m, taken)

Picking(s) == Busy(s) /\ stmt[s].kind = "claim_next"

OfferInv == \A s \in Sessions : Picking(s) => Offered(s, stmt[s])

\* Its own locks as they were, and no row changed that nobody else has locked.
LEMMA StaysOffered ==
  ASSUME NEW s \in Sessions, NEW q \in Stmt, NEW z, q = stmt[s], z = stmt'[s],
         Offered(s, q), q.kind = "claim_next",
         SameStmt(q, z), z.saw = q.saw, q.busy \subseteq z.busy,
         \A m \in Missions : locks'[m] = s <=> locks[m] = s,
         \A m \in q.saw \ z.busy : locks[m] \in {NULL, s} =>
           locks'[m] \in {NULL, s} /\ missions'[m] = missions[m]
  PROVE  Offered(s, stmt[s])'
  <1>1. /\ z.by = q.by /\ z.at = q.at /\ z.todo = q.todo /\ z.rows = q.rows /\ z.kind = q.kind
    BY DEF SameStmt
  <1>2. q.todo \in Seq(Missions) /\ q.saw \in SUBSET Missions
    BY Fields
  <1>3. \A m \in Range(q.todo) : m \in Missions
    BY <1>2, ElementOfSeq, LenProperties DEF Range
  <1>4. \A m \in z.saw \ z.busy : locks'[m] \in {NULL, s} /\ missions'[m] = missions[m]
                                 /\ Matches(q, missions[m])
    BY DEF Offered
  <1>5. \A m \in z.saw \ z.busy : (Matches(stmt[s], missions[m]))'
    BY <1>1, <1>4 DEF Matches
  <1>6. \A m \in Range(z.todo) : locks'[m] # s
    BY <1>1, <1>3 DEF Offered
  <1>7. /\ \A i, j \in DOMAIN z.todo :
             i < j => z.todo[i] # z.todo[j] /\ ~ Better(z.by, z.todo[j], z.todo[i])
        /\ DOMAIN z.rows = {} => z.saw \ z.busy \subseteq Range(z.todo)
        /\ \A taken \in DOMAIN z.rows : \A m \in z.saw \ (z.busy \cup DOMAIN z.rows) :
             ~ Better(z.by, m, taken)
    BY <1>1 DEF Offered
  <1> QED
    BY <1>4, <1>5, <1>6, <1>7 DEF Offered, Better

\* The rest of an ordered list of distinct rows.
LEMMA RestOfOrder ==
  ASSUME NEW todo \in Seq(Missions), todo # <<>>, NEW d,
         \A i, j \in DOMAIN todo :
           i < j => todo[i] # todo[j] /\ ~ Better(d, todo[j], todo[i])
  PROVE  /\ \A i, j \in DOMAIN Tail(todo) :
              i < j => /\ Tail(todo)[i] # Tail(todo)[j]
                       /\ ~ Better(d, Tail(todo)[j], Tail(todo)[i])
         /\ Range(Tail(todo)) = Range(todo) \ {Head(todo)}
         /\ \A m \in Range(todo) \ {Head(todo)} : ~ Better(d, m, Head(todo))
         /\ Head(todo) \in Missions
  <1> DEFINE n == Len(todo)
  <1>1. n \in Nat /\ n # 0 /\ DOMAIN todo = 1 .. n
    BY EmptySeq, LenProperties
  <1>2. /\ Head(todo) = todo[1] /\ Head(todo) \in Missions
        /\ Tail(todo) \in Seq(Missions) /\ Len(Tail(todo)) = n - 1
        /\ \A i \in 1 .. n - 1 : Tail(todo)[i] = todo[i + 1]
    BY HeadTailProperties, <1>1
  <1>3. DOMAIN Tail(todo) = 1 .. n - 1
    BY <1>2, LenProperties
  <1>4. \A i, j \in DOMAIN Tail(todo) :
          i < j => /\ Tail(todo)[i] # Tail(todo)[j]
                   /\ ~ Better(d, Tail(todo)[j], Tail(todo)[i])
    <2> SUFFICES ASSUME NEW i \in 1 .. n - 1, NEW j \in 1 .. n - 1, i < j
                 PROVE  /\ Tail(todo)[i] # Tail(todo)[j]
                        /\ ~ Better(d, Tail(todo)[j], Tail(todo)[i])
      BY <1>3
    <2>1. i + 1 \in DOMAIN todo /\ j + 1 \in DOMAIN todo /\ i + 1 < j + 1
      BY <1>1
    <2> QED
      BY <1>2, <2>1
  <1>5. Range(Tail(todo)) = Range(todo) \ {Head(todo)}
    <2>1. ASSUME NEW m \in Range(Tail(todo))
          PROVE  m \in Range(todo) \ {Head(todo)}
      <3>1. PICK i \in 1 .. n - 1 : m = todo[i + 1]
        BY <1>2, <1>3, <2>1 DEF Range
      <3>2. i + 1 \in DOMAIN todo /\ 1 \in DOMAIN todo /\ 1 < i + 1
        BY <1>1
      <3> QED
        BY <1>2, <3>1, <3>2 DEF Range
    <2>2. ASSUME NEW m \in Range(todo) \ {Head(todo)}
          PROVE  m \in Range(Tail(todo))
      <3>1. PICK i \in 1 .. n : m = todo[i]
        BY <1>1, <2>2 DEF Range
      <3>2. i # 1
        BY <1>2, <2>2, <3>1
      <3>3. i - 1 \in 1 .. n - 1 /\ Tail(todo)[i - 1] = todo[(i - 1) + 1] /\ (i - 1) + 1 = i
        BY <1>1, <1>2, <3>2
      <3> QED
        BY <1>3, <3>1, <3>3 DEF Range
    <2> QED
      BY <2>1, <2>2
  <1>6. \A m \in Range(todo) \ {Head(todo)} : ~ Better(d, m, Head(todo))
    <2> SUFFICES ASSUME NEW m \in Range(todo) \ {Head(todo)}
                 PROVE  ~ Better(d, m, Head(todo))
      OBVIOUS
    <2>1. PICK i \in DOMAIN todo : m = todo[i]
      BY DEF Range
    <2>2. 1 \in DOMAIN todo /\ 1 < i
      BY <1>1, <1>2, <2>1
    <2> QED
      BY <1>2, <2>1, <2>2
  <1> QED
    BY <1>2, <1>4, <1>5, <1>6

\* An offer in the next state, when no row changes.
LEMMA OfferedThen ==
  ASSUME NEW s \in Sessions, NEW z, z = stmt'[s], UNCHANGED missions,
         \A i, j \in DOMAIN z.todo :
           i < j => z.todo[i] # z.todo[j] /\ ~ Better(z.by, z.todo[j], z.todo[i]),
         \A m \in Range(z.todo) : locks'[m] # s,
         \A m \in z.saw \ z.busy : locks'[m] \in {NULL, s} /\ Matches(z, missions[m]),
         DOMAIN z.rows = {} => z.saw \ z.busy \subseteq Range(z.todo),
         \A taken \in DOMAIN z.rows : \A m \in z.saw \ (z.busy \cup DOMAIN z.rows) :
           ~ Better(z.by, m, taken)
  PROVE  Offered(s, stmt[s])'
  <1>1. \A m \in z.saw \ z.busy : Matches(stmt[s], missions[m])'
    BY DEF Matches
  <1> QED
    BY <1>1 DEF Offered, Better

LEMMA OfferLaunch ==
  ASSUME LockInv, NEW s \in Sessions, ~ Busy(s), NEW q \in Stmt, Offer(q),
         q.kind = "claim_next", q.rows = <<>>
  PROVE  Offered(s, q)
  <1>1. PICK d \in Disciples :
          \E todo \in Sorted(d, Matching(Statement("claim_next", d, NoToken, NULL, <<>>))) :
            q = Statement("claim_next", d, NoToken, NULL, todo)
    BY DEF Offer
  <1>2. PICK f : f = Statement("claim_next", d, NoToken, NULL, <<>>)
    OBVIOUS
  <1>3. PICK found \in SUBSET Missions : found = Matching(f)
    BY DEF Matching
  <1>4. PICK todo \in Sorted(d, found) : q = Statement("claim_next", d, NoToken, NULL, todo)
    BY <1>1, <1>2, <1>3
  <1>5. /\ todo \in SetToSeqs(found)
        /\ \A i, j \in DOMAIN todo : i < j => ~ Better(d, todo[j], todo[i])
    BY <1>4 DEF Sorted
  <1>6. Range(todo) = found /\ DOMAIN todo = 1 .. Len(todo) /\ Len(todo) \in Nat
    BY <1>5, Orders
  <1>7. \A i, j \in DOMAIN todo : i < j => todo[i] # todo[j]
    <2>1. \A i, j \in 1 .. Cardinality(found) : i # j => todo[i] # todo[j]
      BY <1>5 DEF SetToSeqs
    <2>2. DOMAIN todo = 1 .. Cardinality(found)
      BY <1>5, <1>6, Orders
    <2>3. \A i, j \in 1 .. Len(todo) : i < j => i # j
      BY <1>6
    <2> QED
      BY <1>6, <2>1, <2>2, <2>3
  <1>8. /\ q.by = d /\ q.todo = todo /\ q.saw = Range(todo)
        /\ q.busy = {m \in Missions : locks[m] # NULL} /\ SameParameters(f, q)
    BY <1>2, <1>4 DEF Statement, SameParameters
  <1>9. \A m \in found : Matches(q, missions[m])
    BY <1>3, <1>8, Parameters DEF Matching
  <1>10. \A x \in Tables : locks[x] # s
    BY SessionsAssumption DEF LockInv, HeldInv
  <1>11. /\ \A i, j \in DOMAIN q.todo :
              i < j => q.todo[i] # q.todo[j] /\ ~ Better(q.by, q.todo[j], q.todo[i])
         /\ \A m \in Range(q.todo) : locks[m] # s
    BY <1>3, <1>5, <1>6, <1>7, <1>8, <1>10 DEF Tables
  <1>12. /\ \A m \in q.saw \ q.busy : locks[m] \in {NULL, s} /\ Matches(q, missions[m])
         /\ q.saw \ q.busy \subseteq Range(q.todo)
    BY <1>3, <1>6, <1>8, <1>9
  <1> QED
    BY <1>11, <1>12, NoRows DEF Offered

LEMMA OfferLockRow ==
  ASSUME LockInv, NEW s \in Sessions, LockRow(s), Picking(s), Offered(s, stmt[s])
  PROVE  Offered(s, stmt[s])'
  <1>1. PICK q \in Stmt : q = stmt[s]
    BY BusyStmt DEF Picking, LockInv
  <1>2. Formed(q) /\ q.todo # <<>> /\ TypeOK /\ LockTypes /\ q.kind = "claim_next"
    BY <1>1 DEF LockRow, LockInv, ReadyInv, Ready, Picking
  <1>3. PICK m \in Missions : m = Head(q.todo)
    BY <1>2, Fields
  <1>4. PICK z : z = Examined(q, m)
    OBVIOUS
  <1>5. /\ z \in Stmt /\ SameParameters(q, z) /\ z.saw = q.saw /\ z.busy = q.busy
        /\ IF Matches(q, missions[m])
           THEN z.todo = Rest(q, TRUE) /\ DOMAIN z.rows = DOMAIN q.rows \cup {m}
           ELSE z.todo = Tail(q.todo) /\ z.rows = q.rows
    BY <1>2, <1>3, <1>4, ExaminedStmt, ZenonT(40)
  <1>6. /\ stmt'[s] = z /\ locks' = [locks EXCEPT ![m] = s] /\ missions' = missions
        /\ DOMAIN q.rows = {}
    BY <1>1, <1>2, <1>3, <1>4 DEF LockRow, Formed
  <1>7. /\ locks'[m] = s /\ m \in Tables
        /\ \A n \in Tables : n # m => locks'[n] = locks[n]
    BY <1>2, <1>6 DEF LockTypes, Tables
  <1>8. /\ \A i, j \in DOMAIN q.todo :
             i < j => q.todo[i] # q.todo[j] /\ ~ Better(q.by, q.todo[j], q.todo[i])
        /\ \A n \in Range(q.todo) : locks[n] # s
        /\ \A n \in q.saw \ q.busy : locks[n] \in {NULL, s} /\ Matches(q, missions[n])
        /\ q.saw \ q.busy \subseteq Range(q.todo)
    BY <1>1, <1>6 DEF Offered
  <1>9. q.todo \in Seq(Missions) /\ q.saw \in SUBSET Missions
    BY Fields
  <1>10. \A n \in Range(q.todo) : n \in Missions
    BY <1>9, ElementOfSeq, LenProperties DEF Range
  <1>11. /\ \A i, j \in DOMAIN Tail(q.todo) :
              i < j => /\ Tail(q.todo)[i] # Tail(q.todo)[j]
                       /\ ~ Better(q.by, Tail(q.todo)[j], Tail(q.todo)[i])
         /\ Range(Tail(q.todo)) = Range(q.todo) \ {m}
         /\ \A n \in Range(q.todo) \ {m} : ~ Better(q.by, n, m)
    BY <1>2, <1>3, <1>8, <1>9, RestOfOrder
  <1>12. \A n \in z.saw \ z.busy : locks'[n] \in {NULL, s} /\ Matches(z, missions[n])
    BY <1>5, <1>7, <1>8, <1>9, Parameters DEF Tables
  <1>13. \A n \in Range(Tail(q.todo)) : locks'[n] # s
    BY <1>7, <1>8, <1>10, <1>11 DEF Tables
  <1>14. Range(<<>>) = {} /\ DOMAIN <<>> = {}
    BY NoRows DEF Range
  <1>15. z.by = q.by
    BY <1>5 DEF SameParameters
  <1>16. CASE Matches(q, missions[m])
    <2>1. z.todo = <<>> /\ DOMAIN z.rows = {m}
      BY <1>2, <1>5, <1>6, <1>16 DEF Rest
    <2>2. \A n \in z.saw \ (z.busy \cup {m}) : ~ Better(z.by, n, m)
      BY <1>5, <1>8, <1>11, <1>15
    <2> QED
      BY <1>6, <1>12, <1>14, <2>1, <2>2, OfferedThen
  <1>17. CASE ~ Matches(q, missions[m])
    <2>1. z.todo = Tail(q.todo) /\ DOMAIN z.rows = {}
      BY <1>5, <1>6, <1>17
    <2>2. z.saw \ z.busy \subseteq Range(z.todo)
      BY <1>5, <1>8, <1>11, <1>17, <2>1
    <2>3. \A i, j \in DOMAIN z.todo :
            i < j => z.todo[i] # z.todo[j] /\ ~ Better(z.by, z.todo[j], z.todo[i])
      BY <1>11, <1>15, <2>1
    <2>4. \A n \in Range(z.todo) : locks'[n] # s
      BY <1>13, <2>1
    <2>5. UNCHANGED missions /\ z = stmt'[s]
      BY <1>6
    <2>6. DOMAIN z.rows = {} /\ (DOMAIN z.rows = {} => z.saw \ z.busy \subseteq Range(z.todo))
      BY <2>1, <2>2
    <2> QED
      BY <1>12, <2>3, <2>4, <2>5, <2>6, OfferedThen
  <1> QED
    BY <1>16, <1>17

LEMMA OfferSkip ==
  ASSUME LockInv, NEW s \in Sessions, Skip(s), Offered(s, stmt[s])
  PROVE  Offered(s, stmt[s])'
  <1>1. PICK q \in Stmt : q = stmt[s]
    BY BusyStmt DEF Skip, LockInv
  <1>2. /\ Formed(q) /\ q.todo # <<>> /\ q.kind = "claim_next" /\ LockTypes
        /\ locks[Head(q.todo)] # NULL /\ UNCHANGED <<missions, locks>>
        /\ stmt' = [stmt EXCEPT ![s].todo = Tail(@)]
    BY <1>1 DEF Skip, LockInv, ReadyInv, Ready
  <1>3. DOMAIN q.rows = {}
    BY <1>2 DEF Formed
  <1>4. PICK z : z = [q EXCEPT !.todo = Tail(q.todo)]
    OBVIOUS
  <1>5. /\ stmt'[s] = z /\ SameParameters(q, z) /\ z.todo = Tail(q.todo) /\ z.rows = q.rows
        /\ z.saw = q.saw /\ z.busy = q.busy
    BY <1>1, <1>2, <1>4 DEF Stmt, SameParameters, LockTypes
  <1>6. /\ \A i, j \in DOMAIN q.todo :
             i < j => q.todo[i] # q.todo[j] /\ ~ Better(q.by, q.todo[j], q.todo[i])
        /\ \A n \in Range(q.todo) : locks[n] # s
        /\ \A n \in q.saw \ q.busy : locks[n] \in {NULL, s} /\ Matches(q, missions[n])
        /\ q.saw \ q.busy \subseteq Range(q.todo)
    BY <1>1, <1>3 DEF Offered
  <1>7. q.todo \in Seq(Missions)
    BY Fields
  <1>8. /\ \A i, j \in DOMAIN Tail(q.todo) :
             i < j => /\ Tail(q.todo)[i] # Tail(q.todo)[j]
                      /\ ~ Better(q.by, Tail(q.todo)[j], Tail(q.todo)[i])
        /\ Range(Tail(q.todo)) = Range(q.todo) \ {Head(q.todo)}
    BY <1>2, <1>6, <1>7, RestOfOrder
  <1>9. Head(q.todo) \notin q.saw \ q.busy
    BY <1>2, <1>6
  <1>10. z.by = q.by
    BY <1>5 DEF SameParameters
  <1>11. \A n \in z.saw \ z.busy : locks'[n] \in {NULL, s} /\ Matches(z, missions[n])
    BY <1>2, <1>5, <1>6, Parameters
  <1>12. /\ \A n \in Range(z.todo) : locks'[n] # s
         /\ z.saw \ z.busy \subseteq Range(z.todo)
    BY <1>2, <1>5, <1>6, <1>8, <1>9
  <1>13. \A i, j \in DOMAIN z.todo :
           i < j => z.todo[i] # z.todo[j] /\ ~ Better(z.by, z.todo[j], z.todo[i])
    BY <1>5, <1>8, <1>10
  <1>14. DOMAIN z.rows = {} /\ UNCHANGED missions /\ z = stmt'[s]
    BY <1>2, <1>3, <1>5
  <1> QED
    BY <1>11, <1>12, <1>13, <1>14, OfferedThen

LEMMA OfferStep == LockInv /\ OfferInv /\ [LockNext]_lockVars => OfferInv'
  <1> SUFFICES ASSUME LockInv, OfferInv, [LockNext]_lockVars, NEW s \in Sessions, Picking(s)'
               PROVE  Offered(s, stmt[s])'
    BY DEF OfferInv
  <1>1. LockTypes /\ HeldInv /\ ReadyInv /\ s # NULL /\ s \in Sessions
    BY SessionsAssumption DEF LockInv
  <1>2. Picking(s) => /\ Offered(s, stmt[s]) /\ stmt[s] \in Stmt /\ stmt[s].kind = "claim_next"
                      /\ stmt[s].saw \in SUBSET Missions
    BY <1>1, BusyStmt, Fields DEF OfferInv, Picking
  <1>3. ASSUME stmt'[s] = stmt[s],
               \A m \in Missions : locks'[m] = s <=> locks[m] = s,
               \A m \in Missions : locks[m] \in {NULL, s} =>
                 locks'[m] \in {NULL, s} /\ missions'[m] = missions[m]
        PROVE  Offered(s, stmt[s])'
    <2>1. Picking(s)
      BY <1>3 DEF Picking, Busy
    <2> DEFINE q == stmt[s]
               z == stmt'[s]
    <2>2. SameStmt(q, z) /\ z.saw = q.saw /\ q.busy \subseteq z.busy
      BY <1>3 DEF SameStmt
    <2>3. \A m \in q.saw \ z.busy : locks[m] \in {NULL, s} =>
            locks'[m] \in {NULL, s} /\ missions'[m] = missions[m]
      BY <1>2, <1>3, <2>1
    <2>4. Offered(s, q) /\ q \in Stmt /\ q.kind = "claim_next"
      BY <1>2, <2>1
    <2> QED
      BY <1>3, <2>2, <2>3, <2>4, StaysOffered
  <1>4. ASSUME NEW p \in Sessions, Start(p)
        PROVE  Offered(s, stmt[s])'
    <2>1. PICK q \in Stmt : Launch(p, q) /\ Offer(q) /\ q.rows = <<>>
      BY <1>4, Starting
    <2>2. /\ ~ Busy(p) /\ UNCHANGED <<missions, locks>> /\ stmt' = [stmt EXCEPT ![p] = q]
      BY <2>1 DEF Launch
    <2>3. CASE p = s
      <3>1. stmt'[s] = q /\ q.kind = "claim_next"
        BY <1>1, <2>2, <2>3 DEF LockTypes, Picking
      <3>2. Offered(s, q)
        BY <2>1, <2>2, <2>3, <3>1, OfferLaunch
      <3> QED
        BY <2>2, <3>1, <3>2, OfferedThen DEF Offered
    <2>4. CASE p # s
      BY <1>1, <1>3, <2>2, <2>4 DEF LockTypes
    <2> QED
      BY <2>3, <2>4
  <1>5. ASSUME NEW p \in Sessions, LockRow(p)
        PROVE  Offered(s, stmt[s])'
    <2>1. PICK q \in Stmt : q = stmt[p]
      BY <1>5, BusyStmt DEF LockRow, LockInv
    <2>2. Formed(q) /\ q.todo # <<>> /\ TypeOK
      BY <1>1, <1>5, <2>1 DEF LockRow, LockInv, ReadyInv, Ready
    <2>3. PICK m \in Missions : m = Head(q.todo)
      BY <2>2, Fields
    <2>4. /\ locks' = [locks EXCEPT ![m] = p] /\ missions' = missions /\ locks[m] = NULL
          /\ stmt' = [o \in Sessions |-> IF o = p THEN Examined(q, m) ELSE Noticed(stmt[o], m)]
      BY <1>5, <2>1, <2>3 DEF LockRow
    <2>5. CASE p = s
      <3>1. PICK z : z = Examined(q, m)
        OBVIOUS
      <3>2. SameParameters(q, z) /\ stmt'[s] = z
        BY <2>2, <2>3, <2>4, <2>5, <3>1, ExaminedStmt
      <3>3. Picking(s)
        BY <1>5, <2>1, <2>5, <3>2 DEF Picking, SameParameters, LockRow
      <3> QED
        BY <1>2, <1>5, <2>5, <3>3, OfferLockRow
    <2>6. CASE p # s
      <3>1. PICK z : z = Noticed(stmt[s], m)
        OBVIOUS
      <3>2. stmt'[s] = z /\ SameStmt(stmt[s], z)
        BY <1>1, <2>4, <2>6, <3>1, NoticedStmt DEF LockTypes
      <3>3. Picking(s)
        BY <3>2 DEF Picking, Busy, SameStmt
      <3>4. z = [stmt[s] EXCEPT !.busy = @ \cup {m}]
        BY <3>1, <3>3 DEF Noticed, Picking
      <3>5. z.saw = stmt[s].saw /\ z.busy = stmt[s].busy \cup {m}
        BY <1>2, <3>3, <3>4 DEF Stmt
      <3>6. \A n \in Missions : locks'[n] = s <=> locks[n] = s
        BY <1>1, <2>4, <2>6 DEF LockTypes, Tables
      <3>7. \A n \in stmt[s].saw \ z.busy : locks'[n] = locks[n] /\ missions'[n] = missions[n]
        BY <1>1, <1>2, <2>4, <3>3, <3>5 DEF LockTypes, Tables
      <3>8. stmt[s].busy \subseteq z.busy
        BY <3>5
      <3> QED
        BY <1>2, <3>2, <3>3, <3>5, <3>6, <3>7, <3>8, StaysOffered
    <2> QED
      BY <2>5, <2>6
  <1>6. ASSUME NEW p \in Sessions, Skip(p)
        PROVE  Offered(s, stmt[s])'
    <2>1. CASE p = s
      BY <1>2, <1>6, <2>1, OfferSkip DEF Skip, Picking
    <2>2. CASE p # s
      BY <1>1, <1>3, <1>6, <2>2 DEF Skip, LockTypes
    <2> QED
      BY <2>1, <2>2
  <1>7. ASSUME NEW p \in Sessions, LockAccount(p)
        PROVE  Offered(s, stmt[s])'
    <2>1. stmt[p] \in Stmt /\ stmt[p].kind \in {"complete", "fail"} /\ stmt[p].by \in Disciples
      BY <1>1, <1>7, BusyStmt DEF LockAccount, MovesLedger, ReadyInv, Ready, Formed
    <2>2. \A m \in Missions : m # stmt[p].by /\ m \in Tables
      BY <2>1, RowsAssumption DEF Tables
    <2>3. \A m \in Missions : locks'[m] = locks[m] /\ missions'[m] = missions[m]
      BY <1>1, <1>7, <2>2 DEF LockAccount, LockTypes
    <2>4. PICK a : stmt' = [stmt EXCEPT ![p].account = a]
      BY <1>7 DEF LockAccount
    <2>5. stmt'[p].kind = stmt[p].kind
      BY <1>1, <2>1, <2>4 DEF LockTypes, Stmt
    <2>6. p # s
      BY <2>1, <2>5 DEF Picking
    <2>7. stmt'[s] = stmt[s]
      BY <1>1, <2>4, <2>6 DEF LockTypes
    <2> QED
      BY <1>3, <2>3, <2>7
  <1>8. ASSUME NEW p \in Sessions, Commit(p) \/ Rollback(p)
        PROVE  Offered(s, stmt[s])'
    <2>1. End(p)
      BY <1>8 DEF Commit, Rollback
    <2>2. /\ stmt' = [stmt EXCEPT ![p] = Idle] /\ locks' = Released(p)
      BY <2>1 DEF End
    <2>3. p # s
      BY <1>1, <2>2 DEF LockTypes, Picking, Busy, Idle
    <2>4. \A m \in Missions : locks[m] # p => missions'[m] = missions[m]
      <3>1. CASE Rollback(p)
        BY <3>1 DEF Rollback
      <3>2. CASE Commit(p)
        <4>1. PICK q \in Stmt : q = stmt[p]
          BY <3>2, BusyStmt DEF Commit, LockInv
        <4>2. \A m \in DOMAIN q.rows : locks[m] = p
          BY <3>2, <4>1, Committed
        <4>3. \A m \in Missions \ DOMAIN q.rows : missions'[m] = missions[m]
          BY <3>2, <4>1, Committed
        <4> QED
          BY <4>2, <4>3
      <3> QED
        BY <1>8, <3>1, <3>2
    <2>5. \A m \in Missions : locks'[m] = IF locks[m] = p THEN NULL ELSE locks[m]
      BY <2>2 DEF Released, Tables
    <2>6. stmt'[s] = stmt[s] /\ p # NULL
      BY <1>1, <2>2, <2>3, SessionsAssumption DEF LockTypes
    <2> QED
      BY <1>1, <1>3, <2>3, <2>4, <2>5, <2>6
  <1>9. CASE LockTick \/ UNCHANGED lockVars
    <2>1. UNCHANGED <<missions, stmt, locks>>
      BY <1>9 DEF LockTick, Tick, lockVars
    <2> QED
      BY <1>3, <2>1
  <1> QED
    BY <1>4, <1>5, <1>6, <1>7, <1>8, <1>9 DEF LockNext

(* Claim-next takes the best of what nobody else was at work on: a better  *)
(* mission its snapshot offered, or any mission if it goes away empty, had *)
(* its row locked by another statement at some time since it started.      *)
THEOREM BestPick == LockSpec => []BestOfTheRest
  <1>1. LockInit => OfferInv
    BY DEF LockInit, OfferInv, Picking, Busy, Idle
  <1>2. ASSUME LockInv, OfferInv
        PROVE  BestOfTheRest
    <2> SUFFICES ASSUME NEW s \in Sessions, Picking(s), stmt[s].todo = <<>>,
                        NEW m \in stmt[s].saw \ DOMAIN stmt[s].rows,
                        \A taken \in DOMAIN stmt[s].rows : Better(stmt[s].by, m, taken),
                        m \notin stmt[s].busy
                 PROVE  FALSE
      BY DEF BestOfTheRest, Picking
    <2>1. Offered(s, stmt[s])
      BY <1>2 DEF OfferInv
    <2>2. Range(<<>>) = {}
      BY NoRows DEF Range
    <2>3. DOMAIN stmt[s].rows # {}
      BY <2>1, <2>2 DEF Offered
    <2> QED
      BY <2>1, <2>3 DEF Offered
  <1> QED
    BY <1>1, <1>2, LocksCorrect, OfferStep, PTL DEF LockSpec

=============================================================================
