------------------------- MODULE MissionHallProofs -------------------------
(***************************************************************************)
(* Proofs about MissionHall for any sets of missions, disciples, arts,     *)
(* budgets and lease lengths, any waits and any clock horizon.             *)
(*                                                                         *)
(* The argument is made row by row: the first lemmas say what each         *)
(* statement writes, for one row and the history of its claims; the        *)
(* theorems then go through the disjuncts of Next once per property.       *)
(***************************************************************************)
EXTENDS MissionHall, TLAPS, FiniteSetTheorems, SequenceTheorems

----------------------------------------------------------------------------
\* What the statements write is a row.

LEMMA LeaseType ==
  ASSUME NEW r \in Row, NEW asked \in Asked
  PROVE  Lease(r, asked) \in Nat
  BY PostingAssumption DEF Lease, Asked, Unset, Row

LEMMA RenewedType ==
  ASSUME NEW r \in Row, NEW asked \in Asked, NEW at \in Nat
  PROVE  Renewed(r, asked, at) \in Row
  <1>1. Lease(r, asked) \in Nat
    BY LeaseType
  <1> QED
    BY <1>1 DEF Renewed, Row

LEMMA GrantedType ==
  ASSUME NEW r \in Row, NEW d \in Disciples, NEW token \in Nat,
         NEW asked \in Asked, NEW at \in Nat
  PROVE  /\ Granted(r, d, token, asked, at) \in Row
         /\ Granted(r, d, token, asked, at).status = "claimed"
         /\ Granted(r, d, token, asked, at).claimed_by = d
         /\ Granted(r, d, token, asked, at).claim_token = token
         /\ Granted(r, d, token, asked, at).attempts = r.attempts + 1
         /\ Granted(r, d, token, asked, at).max_attempts = r.max_attempts
         /\ Granted(r, d, token, asked, at).not_before = r.not_before
         /\ Granted(r, d, token, asked, at).lease_seconds = r.lease_seconds
         /\ Granted(r, d, token, asked, at).error = r.error
         /\ Granted(r, d, token, asked, at).lease_expires_at = at + Lease(r, asked)
  <1> DEFINE new  == Renewed(r, asked, at)
             held == [new EXCEPT !.status = "claimed", !.claimed_by = d]
             row  == [held EXCEPT !.claim_token = token, !.attempts = @ + 1]
  <1>1. new \in Row
    BY RenewedType
  <1>2. /\ new.attempts = r.attempts
        /\ new.max_attempts = r.max_attempts
        /\ new.not_before = r.not_before
        /\ new.lease_seconds = r.lease_seconds
        /\ new.error = r.error
        /\ new.lease_expires_at = at + Lease(r, asked)
    BY DEF Renewed, Row
  <1> HIDE DEF new
  <1>3. held \in Row
    BY <1>1 DEF Row, Pending
  <1>4. /\ held.status = "claimed" /\ held.claimed_by = d
        /\ held.attempts = new.attempts
        /\ held.max_attempts = new.max_attempts
        /\ held.not_before = new.not_before
        /\ held.lease_seconds = new.lease_seconds
        /\ held.error = new.error
        /\ held.lease_expires_at = new.lease_expires_at
    BY <1>1 DEF Row
  <1> HIDE DEF held
  <1>5. row \in Row
    <2>1. held.attempts + 1 \in Nat
      BY <1>3 DEF Row
    <2> QED
      BY <1>3, <2>1 DEF Row
  <1>6. /\ row.status = held.status /\ row.claimed_by = held.claimed_by
        /\ row.claim_token = token /\ row.attempts = held.attempts + 1
        /\ row.max_attempts = held.max_attempts
        /\ row.not_before = held.not_before
        /\ row.lease_seconds = held.lease_seconds
        /\ row.error = held.error
        /\ row.lease_expires_at = held.lease_expires_at
    BY <1>3 DEF Row
  <1>7. row = Granted(r, d, token, asked, at)
    BY DEF Granted, held, new
  <1> HIDE DEF row
  <1> QED
    BY <1>2, <1>4, <1>5, <1>6, <1>7

LEMMA NotedType ==
  ASSUME NEW r \in Row, NEW status \in Pending \cup Terminal,
         NEW error \in SUBSET Notes
  PROVE  /\ Noted(r, status, error) \in Row
         /\ Noted(r, status, error).status = status
         /\ Noted(r, status, error).error = error
         /\ Noted(r, status, error).attempts = r.attempts
         /\ Noted(r, status, error).max_attempts = r.max_attempts
         /\ Noted(r, status, error).claimed_by = r.claimed_by
         /\ Noted(r, status, error).claim_token = r.claim_token
         /\ Noted(r, status, error).lease_expires_at = r.lease_expires_at
         /\ Noted(r, status, error).lease_seconds = r.lease_seconds
  BY DEF Noted, Row

LEMMA UnleasedType ==
  ASSUME NEW r \in Row
  PROVE  /\ Unleased(r) \in Row
         /\ Unleased(r).claim_token = NoToken
         /\ Unleased(r).lease_expires_at = NoLease
         /\ Unleased(r).attempts = r.attempts
         /\ Unleased(r).max_attempts = r.max_attempts
         /\ Unleased(r).claimed_by = r.claimed_by
         /\ Unleased(r).lease_seconds = r.lease_seconds
         /\ Unleased(r).error = r.error
  <1>1. NoToken \in Nat /\ NoLease \in Int
    BY DEF NoToken, NoLease
  <1>2. Unleased(r) \in Row
    BY <1>1 DEF Unleased, Row
  <1> QED
    BY <1>2 DEF Unleased, Row

LEMMA ReleasedType ==
  ASSUME NEW r \in Row, NEW until \in Nat
  PROVE  /\ ReleasedRow(r, until) \in Row
         /\ ReleasedRow(r, until).status = "open"
         /\ ReleasedRow(r, until).claimed_by = NULL
         /\ ReleasedRow(r, until).claim_token = NoToken
         /\ ReleasedRow(r, until).lease_expires_at = NoLease
         /\ ReleasedRow(r, until).attempts = r.attempts
         /\ ReleasedRow(r, until).max_attempts = r.max_attempts
         /\ ReleasedRow(r, until).lease_seconds = r.lease_seconds
         /\ ReleasedRow(r, until).error = {"reported"}
  <1> DEFINE q == Noted(Unleased(r), "open", {"reported"})
  <1>1. Unleased(r) \in Row
    BY UnleasedType
  <1>2. "open" \in Pending \cup Terminal /\ {"reported"} \in SUBSET Notes
    BY DEF Pending, Notes
  <1>3. /\ q \in Row /\ q.status = "open" /\ q.error = {"reported"}
        /\ q.claim_token = NoToken /\ q.lease_expires_at = NoLease
        /\ q.attempts = r.attempts /\ q.max_attempts = r.max_attempts
        /\ q.lease_seconds = r.lease_seconds
    BY <1>1, <1>2, UnleasedType, NotedType
  <1>4. ReleasedRow(r, until) = [q EXCEPT !.claimed_by = NULL, !.not_before = until]
    BY DEF ReleasedRow
  <1> HIDE DEF q
  <1>5. ASSUME NEW h \in Disciples \cup {NULL}, NEW u \in Int
        PROVE  [q EXCEPT !.claimed_by = h, !.not_before = u] \in Row
    BY <1>3 DEF Row
  <1> DEFINE new == [q EXCEPT !.claimed_by = NULL, !.not_before = until]
  <1>6. new \in Row
    <2>1. until \in Int /\ NULL \in Disciples \cup {NULL}
      OBVIOUS
    <2> QED
      BY <1>5, <2>1, Zenon
  <1>7. /\ new.status = q.status /\ new.claimed_by = NULL
        /\ new.claim_token = q.claim_token
        /\ new.lease_expires_at = q.lease_expires_at
        /\ new.attempts = q.attempts /\ new.max_attempts = q.max_attempts
        /\ new.lease_seconds = q.lease_seconds /\ new.error = q.error
    BY <1>3 DEF Row
  <1> HIDE DEF new
  <1> QED
    BY <1>3, <1>4, <1>6, <1>7 DEF new

LEMMA CancelledType ==
  ASSUME NEW r \in Row
  PROVE  /\ CancelledRow(r) \in Row
         /\ CancelledRow(r).status = "cancelled"
         /\ CancelledRow(r).attempts = r.attempts
         /\ CancelledRow(r).max_attempts = r.max_attempts
         /\ CancelledRow(r).lease_seconds = r.lease_seconds
         /\ CancelledRow(r).error = r.error
  <1> DEFINE q == Unleased(r)
  <1>1. /\ q \in Row /\ q.attempts = r.attempts /\ q.error = r.error
        /\ q.max_attempts = r.max_attempts /\ q.lease_seconds = r.lease_seconds
    BY UnleasedType
  <1>2. CancelledRow(r) = [q EXCEPT !.status = "cancelled"]
    BY DEF CancelledRow
  <1> HIDE DEF q
  <1> QED
    BY <1>1, <1>2 DEF Row, Terminal

LEMMA WrittenTypes ==
  ASSUME NEW r \in Row, NEW until \in Nat
  PROVE  /\ CompletedRow(r) \in Row
         /\ FailedRow(r) \in Row
         /\ ReleasedRow(r, until) \in Row
         /\ CancelledRow(r) \in Row
         /\ SweptRow(r) \in Row
  <1>1. /\ {"completed", "failed"} \subseteq Pending \cup Terminal
        /\ {} \in SUBSET Notes /\ {"reported"} \in SUBSET Notes
        /\ r.error \cup {"exhausted"} \in SUBSET Notes
    BY DEF Row, Notes, Terminal
  <1> QED
    BY <1>1, NotedType, ReleasedType, CancelledType
       DEF CompletedRow, FailedRow, SweptRow

LEMMA ReputationType ==
  ASSUME NEW p \in Nat, NEW c \in Nat, NEW f \in Nat
  PROVE  Reputation(p, c, f) \in Int
  BY DEF Reputation

LEMMA AccountTypes ==
  ASSUME NEW a \in Account
  PROVE  Credited(a) \in Account /\ Debited(a) \in Account
  <1>1. /\ a.points \in Nat /\ a.completed \in Nat /\ a.failed \in Nat
    BY DEF Account
  <1>2. Reputation(a.points + 1, a.completed + 1, a.failed) \in Int
    BY <1>1, ReputationType
  <1>3. Credited(a) \in Account
    BY <1>1, <1>2 DEF Credited, Account
  <1> DEFINE points == IF a.points > Penalty THEN a.points - Penalty ELSE 0
  <1>4. points \in Nat
    BY <1>1, PenaltyAssumption
  <1>5. Reputation(points, a.completed, a.failed + 1) \in Int
    BY <1>1, <1>4, ReputationType
  <1>6. Debited(a) \in Account
    BY <1>1, <1>4, <1>5 DEF Debited, Account
  <1> QED
    BY <1>3, <1>6

----------------------------------------------------------------------------
\* What the statements write into the history.

LEMMA BeginType ==
  ASSUME TypeOK, NEW m \in Missions, NEW d \in Disciples, Begin(m, d)
  PROVE  /\ runs' \in [Missions -> Seq(Run)]
         /\ runs'[m] = Append(runs[m], [by |-> d, report |-> "none"])
         /\ \A n \in Missions \ {m} : runs'[n] = runs[n]
  <1>1. [by |-> d, report |-> "none"] \in Run
    BY DEF Run
  <1>2. Append(runs[m], [by |-> d, report |-> "none"]) \in Seq(Run)
    BY <1>1, AppendProperties DEF TypeOK
  <1> QED
    BY <1>2 DEF TypeOK, Begin

Reports == {"none", "retried", "completed", "failed"}

\* History z is s with a report recorded on run t.
Reported(s, t, report, z) ==
  /\ z \in Seq(Run)
  /\ Len(z) = Len(s)
  /\ \A k \in 1 .. Len(s) :
       z[k] = IF k = t THEN [s[k] EXCEPT !.report = report] ELSE s[k]

LEMMA RecordType ==
  ASSUME TypeOK, NEW m \in Missions, NEW t \in 1 .. Len(runs[m]),
         NEW report \in Reports, Record(m, t, report)
  PROVE  /\ runs' \in [Missions -> Seq(Run)]
         /\ Reported(runs[m], t, report, runs'[m])
         /\ \A n \in Missions \ {m} : runs'[n] = runs[n]
  <1> DEFINE e == [runs[m][t] EXCEPT !.report = report]
             s == [runs[m] EXCEPT ![t] = e]
  <1>1. runs \in [Missions -> Seq(Run)] /\ runs[m] \in Seq(Run)
    BY DEF TypeOK
  <1>2. runs[m][t] \in Run
    BY <1>1, ElementOfSeq
  <1>3. e \in Run
    BY <1>2 DEF Run, Reports
  <1>4. /\ s \in Seq(Run)
        /\ Len(s) = Len(runs[m])
        /\ \A k \in 1 .. Len(runs[m]) : s[k] = IF k = t THEN e ELSE runs[m][k]
    BY <1>1, <1>3, ExceptSeq
  <1>5. runs' = [runs EXCEPT ![m] = s]
    BY DEF Record
  <1>6. runs'[m] = s /\ \A n \in Missions \ {m} : runs'[n] = runs[n]
    BY <1>1, <1>5
  <1>7. runs' \in [Missions -> Seq(Run)]
    BY <1>1, <1>4, <1>5
  <1>8. Reported(runs[m], t, report, s)
    BY <1>4 DEF Reported
  <1> QED
    BY <1>6, <1>7, <1>8

----------------------------------------------------------------------------
\* Every step keeps the types.

LEMMA MomentsType == ASSUME TypeOK, NEW at \in Moments PROVE at \in Nat /\ at <= now
  BY DEF TypeOK, Moments

LEMMA GivenType ==
  ASSUME TypeOK, NEW m \in Missions, NEW d \in Disciples, NEW t \in Given(m, d)
  PROVE  t \in 1 .. Len(runs[m])
  BY DEF Given

LEMMA TypeInit == Init => TypeOK
  <1>1. AbsentRow \in Row
    BY DEF AbsentRow, Row, NoToken, NoLease, Notes
  <1>2. NewAccount \in Account
    BY DEF NewAccount, Account
  <1> QED
    BY <1>1, <1>2 DEF Init, TypeOK

LEMMA TypePost ==
  ASSUME TypeOK, NEW m \in Missions, NEW art \in Arts, NEW cap \in AttemptCaps,
         NEW lease \in Leases, NEW delay \in Delays, Post(m, art, cap, lease, delay)
  PROVE  TypeOK'
  <1>1. cap \in Nat /\ lease \in Nat /\ now + delay \in Int
    BY PostingAssumption DEF TypeOK
  <1>2. PostedRow(art, cap, lease, now + delay) \in Row
    BY <1>1 DEF PostedRow, Row, Pending, NoToken, NoLease, Notes
  <1> QED
    BY <1>2 DEF Post, TypeOK

LEMMA TypeGrant ==
  ASSUME TypeOK, NEW m \in Missions, NEW d \in Disciples, NEW asked \in Asked,
         NEW at \in Moments, Grant(m, d, asked, at)
  PROVE  TypeOK'
  <1>1. FreshToken(m) \in Nat /\ at \in Nat
    BY MomentsType, LenProperties DEF FreshToken, TypeOK
  <1>2. missions[m] \in Row
    BY DEF TypeOK
  <1>3. Granted(missions[m], d, FreshToken(m), asked, at) \in Row
    BY <1>1, <1>2, GrantedType
  <1>4. missions' \in [Missions -> Row]
    BY <1>3 DEF TypeOK, Grant
  <1>5. runs' \in [Missions -> Seq(Run)]
    BY BeginType DEF Grant
  <1> QED
    BY <1>4, <1>5 DEF Grant, TypeOK

LEMMA TypeRenew ==
  ASSUME TypeOK, NEW m \in Missions, NEW asked \in Asked, NEW at \in Moments,
         missions' = [missions EXCEPT ![m] = Renewed(@, asked, at)],
         UNCHANGED <<ledger, now, runs>>
  PROVE  TypeOK'
  <1>1. missions[m] \in Row /\ at \in Nat
    BY MomentsType DEF TypeOK
  <1>2. Renewed(missions[m], asked, at) \in Row
    BY <1>1, RenewedType
  <1> QED
    BY <1>2 DEF TypeOK

LEMMA TypeComplete ==
  ASSUME TypeOK, NEW m \in Missions, NEW d \in Disciples, NEW t \in Given(m, d),
         Complete(m, d, t)
  PROVE  TypeOK'
  <1>1. missions[m] \in Row /\ missions[m].claimed_by = d
    BY DEF TypeOK, Complete, Holds, HeldBy
  <1>2. CompletedRow(missions[m]) \in Row
    BY <1>1, WrittenTypes
  <1>3. Credited(ledger[d]) \in Account
    BY AccountTypes DEF TypeOK
  <1>4. runs' \in [Missions -> Seq(Run)]
    BY GivenType, RecordType DEF Complete, Reports
  <1> QED
    BY <1>1, <1>2, <1>3, <1>4 DEF Complete, TypeOK

LEMMA TypeFailRetry ==
  ASSUME TypeOK, NEW m \in Missions, NEW d \in Disciples, NEW t \in Given(m, d),
         NEW after \in Backoffs, NEW at \in Moments, FailRetry(m, d, t, after, at)
  PROVE  TypeOK'
  <1>1. missions[m] \in Row /\ at + after \in Nat
    BY PostingAssumption, MomentsType DEF TypeOK
  <1>2. ReleasedRow(missions[m], at + after) \in Row
    BY <1>1, WrittenTypes
  <1>3. runs' \in [Missions -> Seq(Run)]
    BY GivenType, RecordType DEF FailRetry, Reports
  <1> QED
    BY <1>2, <1>3 DEF FailRetry, TypeOK

LEMMA TypeFailTerminal ==
  ASSUME TypeOK, NEW m \in Missions, NEW d \in Disciples, NEW t \in Given(m, d),
         NEW retryable \in BOOLEAN, FailTerminal(m, d, t, retryable)
  PROVE  TypeOK'
  <1>1. missions[m] \in Row /\ missions[m].claimed_by = d
    BY DEF TypeOK, FailTerminal, Holds, HeldBy
  <1>2. FailedRow(missions[m]) \in Row
    BY <1>1, WrittenTypes
  <1>3. Debited(ledger[d]) \in Account
    BY AccountTypes DEF TypeOK
  <1>4. runs' \in [Missions -> Seq(Run)]
    BY GivenType, RecordType DEF FailTerminal, Reports
  <1> QED
    BY <1>1, <1>2, <1>3, <1>4 DEF FailTerminal, TypeOK

LEMMA TypeCancelSweepTick ==
  ASSUME TypeOK,
         \/ \E m \in Missions : Cancel(m)
         \/ \E at \in Moments, S \in SUBSET Missions : Sweep(at, S)
         \/ Tick
  PROVE  TypeOK'
  <1>1. CASE \E m \in Missions : Cancel(m)
    BY <1>1, WrittenTypes DEF Cancel, TypeOK
  <1>2. CASE \E at \in Moments, S \in SUBSET Missions : Sweep(at, S)
    <2>1. PICK at \in Moments, S \in SUBSET Missions : Sweep(at, S)
      BY <1>2
    <2>2. \A m \in Missions : SweptRow(missions[m]) \in Row /\ missions[m] \in Row
      BY WrittenTypes DEF TypeOK
    <2> QED
      BY <2>1, <2>2 DEF Sweep, TypeOK
  <1>3. CASE Tick
    BY <1>3 DEF Tick, TypeOK
  <1> QED
    BY <1>1, <1>2, <1>3

LEMMA TypeStep == TypeOK /\ [Next]_vars => TypeOK'
  <1> SUFFICES ASSUME TypeOK, [Next]_vars
               PROVE  TypeOK'
    OBVIOUS
  <1>1. ASSUME NEW m \in Missions, MissionStep(m)
        PROVE  TypeOK'
    BY <1>1, TypePost, TypeCancelSweepTick DEF MissionStep
  <1>2. ASSUME NEW m \in Missions, NEW d \in Disciples, ClaimStep(m, d)
        PROVE  TypeOK'
    BY <1>2, TypeGrant, TypeRenew DEF ClaimStep, Claim, ClaimHeld, ClaimNext
  <1>3. ASSUME NEW m \in Missions, NEW d \in Disciples, NEW t \in Given(m, d),
               HolderStep(m, d, t)
        PROVE  TypeOK'
    BY <1>3, TypeRenew, TypeComplete, TypeFailRetry, TypeFailTerminal
       DEF HolderStep, Heartbeat
  <1>4. CASE UNCHANGED vars
    BY <1>4 DEF vars, TypeOK
  <1> QED
    BY <1>1, <1>2, <1>3, <1>4, TypeCancelSweepTick DEF Next

(* Rows, accounts and the history keep their types in every reachable      *)
(* state: no statement of core/sql.py writes a value the columns exclude,  *)
(* points never go below zero.                                             *)
THEOREM TypeCorrect == Spec => []TypeOK
  BY TypeInit, TypeStep, PTL DEF Spec

----------------------------------------------------------------------------
\* The row and the history of its claims, statement by statement.

RowInv(r, s) ==
  /\ ColumnsFit(r)
  /\ RunsFit(r, s)
  /\ r.status # "absent" => r.lease_seconds \in Nat \ {0}

BoardInv == \A m \in Missions : RowInv(missions[m], runs[m])

LEMMA PostFits ==
  ASSUME NEW r \in Row, NEW s \in Seq(Run), RowInv(r, s), r.status = "absent",
         NEW art, NEW cap \in AttemptCaps, NEW lease \in Leases, NEW start
  PROVE  RowInv(PostedRow(art, cap, lease, start), s)
  <1> DEFINE p == PostedRow(art, cap, lease, start)
  <1>1. /\ p.status = "open" /\ p.attempts = 0 /\ p.max_attempts = cap
        /\ p.claimed_by = NULL /\ p.claim_token = NoToken
        /\ p.lease_expires_at = NoLease /\ p.lease_seconds = lease
    BY DEF PostedRow
  <1>2. s = <<>> /\ Len(s) = 0
    BY EmptySeq DEF RowInv, RunsFit
  <1>3. cap \in Nat /\ 0 < cap /\ lease \in Nat \ {0}
    BY PostingAssumption
  <1> HIDE DEF p
  <1>4. ColumnsFit(p)
    BY <1>1, <1>3 DEF ColumnsFit
  <1>5. RunsFit(p, s)
    BY <1>1, <1>2, <1>3 DEF RunsFit
  <1> QED
    BY <1>1, <1>3, <1>4, <1>5 DEF RowInv, p

LEMMA RenewFits ==
  ASSUME NEW r \in Row, NEW s \in Seq(Run), RowInv(r, s), r.status = "claimed",
         NEW asked \in Asked, NEW at \in Nat
  PROVE  RowInv(Renewed(r, asked, at), s)
  <1> DEFINE q == Renewed(r, asked, at)
  <1>1. Lease(r, asked) \in Nat \ {0}
    BY PostingAssumption DEF Lease, Asked, Unset, RowInv
  <1>2. /\ q.status = r.status /\ q.attempts = r.attempts
        /\ q.max_attempts = r.max_attempts /\ q.claimed_by = r.claimed_by
        /\ q.claim_token = r.claim_token /\ q.lease_seconds = r.lease_seconds
        /\ q.error = r.error /\ q.lease_expires_at = at + Lease(r, asked)
    BY DEF Renewed, Row
  <1> HIDE DEF q
  <1>3. ColumnsFit(q)
    BY <1>1, <1>2 DEF ColumnsFit, RowInv, NoLease
  <1>4. RunsFit(q, s)
    BY <1>2 DEF RunsFit, RowInv
  <1> QED
    BY <1>2, <1>3, <1>4 DEF RowInv, q

LEMMA GrantFits ==
  ASSUME NEW r \in Row, NEW s \in Seq(Run), RowInv(r, s),
         NEW d \in Disciples, NEW asked \in Asked, NEW at \in Nat, Claimable(r, at)
  PROVE  RowInv(Granted(r, d, Len(s) + 1, asked, at),
                Append(s, [by |-> d, report |-> "none"]))
  <1> DEFINE e == [by |-> d, report |-> "none"]
             a == Append(s, e)
             q == Granted(r, d, Len(s) + 1, asked, at)
  <1>1. Lease(r, asked) \in Nat \ {0}
    BY PostingAssumption DEF Lease, Asked, Unset, RowInv, Claimable
  <1>2. e \in Run /\ e.by = d /\ e.report = "none"
    BY DEF Run
  <1>3. /\ a \in Seq(Run) /\ a # <<>> /\ Len(a) = Len(s) + 1 /\ Len(s) \in Nat
        /\ \A k \in 1 .. Len(s) : a[k] = s[k]
        /\ a[Len(s) + 1] = e
    BY <1>2, AppendProperties, LenProperties
  <1>4. /\ q.status = "claimed" /\ q.claimed_by = d /\ q.claim_token = Len(s) + 1
        /\ q.attempts = r.attempts + 1 /\ q.max_attempts = r.max_attempts
        /\ q.lease_seconds = r.lease_seconds
        /\ q.lease_expires_at = at + Lease(r, asked)
    BY <1>3, GrantedType
  <1>5. /\ Len(s) = r.attempts /\ r.attempts < r.max_attempts
        /\ r.attempts \in Nat /\ r.max_attempts \in Nat
    BY DEF RowInv, RunsFit, Claimable, Row
  <1>6. \A k \in 1 .. Len(s) : s[k].report \in {"none", "retried"}
    <2> SUFFICES ASSUME NEW k \in 1 .. Len(s)
                 PROVE  s[k].report \in {"none", "retried"}
      OBVIOUS
    <2>1. CASE k = Len(s)
      BY <2>1, <1>3 DEF RowInv, RunsFit, Claimable
    <2>2. CASE k # Len(s)
      BY <2>2, <1>3 DEF RowInv, RunsFit
    <2> QED
      BY <2>1, <2>2
  <1> HIDE DEF e, a, q
  <1>7. ColumnsFit(q)
    BY <1>1, <1>3, <1>4, TablesAssumption DEF ColumnsFit, NoLease, NoToken
  <1>8. RunsFit(q, a)
    <2>1. \A k \in 1 .. Len(a) - 1 : a[k].report \in {"none", "retried"}
      BY <1>3, <1>6
    <2>2. a[Len(a)] = e
      BY <1>3
    <2>3. Len(a) = q.attempts /\ q.attempts <= q.max_attempts /\ q.claim_token = Len(a)
      BY <1>3, <1>4, <1>5
    <2> QED
      BY <1>2, <1>3, <1>4, <2>1, <2>2, <2>3 DEF RunsFit
  <1>9. r.lease_seconds \in Nat \ {0}
    BY DEF RowInv, Claimable
  <1> QED
    BY <1>4, <1>7, <1>8, <1>9 DEF RowInv, q, a, e

\* A report on the newest run, whatever row it leaves behind.
LEMMA ReportedRuns ==
  ASSUME NEW r \in Row, NEW s \in Seq(Run), RowInv(r, s), r.status = "claimed",
         NEW z, NEW report, Reported(s, r.claim_token, report, z)
  PROVE  /\ Len(s) \in Nat \ {0} /\ Len(s) = r.attempts /\ r.claim_token = Len(s)
         /\ z # <<>>
         /\ z[Len(z)].report = report
         /\ z[Len(z)].by = r.claimed_by
         /\ \A k \in 1 .. Len(z) - 1 : z[k].report \in {"none", "retried"}
  <1>1. Len(s) \in Nat \ {0} /\ Len(s) = r.attempts /\ r.claim_token = Len(s)
    BY EmptySeq DEF RowInv, RunsFit
  <1>2. z # <<>>
    BY <1>1, EmptySeq DEF Reported
  <1>3. Len(s) \in 1 .. Len(s) /\ s[Len(s)] \in Run
    BY <1>1, ElementOfSeq
  <1>4. z[Len(z)] = [s[Len(s)] EXCEPT !.report = report]
    BY <1>1, <1>3 DEF Reported
  <1>5. z[Len(z)].report = report /\ z[Len(z)].by = s[Len(s)].by
    BY <1>3, <1>4 DEF Run
  <1>6. s[Len(s)].by = r.claimed_by
    BY DEF RowInv, RunsFit
  <1>7. \A k \in 1 .. Len(z) - 1 : z[k] = s[k]
    <2> SUFFICES ASSUME NEW k \in 1 .. Len(z) - 1
                 PROVE  z[k] = s[k]
      OBVIOUS
    <2>1. k \in 1 .. Len(s) /\ k # r.claim_token
      BY <1>1 DEF Reported
    <2> QED
      BY <2>1 DEF Reported
  <1>8. \A k \in 1 .. Len(z) - 1 : s[k].report \in {"none", "retried"}
    BY DEF RowInv, RunsFit, Reported
  <1> QED
    BY <1>1, <1>2, <1>5, <1>6, <1>7, <1>8

LEMMA FinishFits ==
  ASSUME NEW r \in Row, NEW s \in Seq(Run), RowInv(r, s), r.status = "claimed",
         NEW outcome \in {"completed", "failed"}, NEW error \in SUBSET Notes,
         outcome = "failed" => "exhausted" \notin error,
         NEW z, Reported(s, r.claim_token, outcome, z)
  PROVE  RowInv(Noted(r, outcome, error), z)
  <1> DEFINE q == Noted(r, outcome, error)
  <1>1. /\ q.status = outcome /\ q.error = error /\ q.attempts = r.attempts
        /\ q.max_attempts = r.max_attempts /\ q.claimed_by = r.claimed_by
        /\ q.claim_token = r.claim_token /\ q.lease_seconds = r.lease_seconds
    <2>1. outcome \in Pending \cup Terminal
      BY DEF Terminal
    <2> QED
      BY <2>1, NotedType
  <1>2. /\ Len(s) = r.attempts /\ r.claim_token = Len(s)
        /\ z # <<>>
        /\ z[Len(z)].report = outcome
        /\ z[Len(z)].by = r.claimed_by
        /\ \A k \in 1 .. Len(z) - 1 : z[k].report \in {"none", "retried"}
    BY ReportedRuns, ZenonT(40)
  <1>3. /\ Len(z) = Len(s)
        /\ r.attempts <= r.max_attempts /\ r.lease_seconds \in Nat \ {0}
    BY DEF RowInv, RunsFit, Reported
  <1> HIDE DEF q
  <1>4. ColumnsFit(q)
    BY <1>1 DEF ColumnsFit
  <1>5. RunsFit(q, z)
    BY <1>1, <1>2, <1>3 DEF RunsFit
  <1> QED
    BY <1>1, <1>3, <1>4, <1>5 DEF RowInv, q

LEMMA ReleaseFits ==
  ASSUME NEW r \in Row, NEW s \in Seq(Run), RowInv(r, s), r.status = "claimed",
         r.attempts < r.max_attempts,
         NEW until \in Nat, NEW z, Reported(s, r.claim_token, "retried", z)
  PROVE  RowInv(ReleasedRow(r, until), z)
  <1> DEFINE q == ReleasedRow(r, until)
  <1>1. /\ q.status = "open" /\ q.attempts = r.attempts
        /\ q.max_attempts = r.max_attempts /\ q.claimed_by = NULL
        /\ q.claim_token = NoToken /\ q.lease_expires_at = NoLease
        /\ q.lease_seconds = r.lease_seconds
    BY ReleasedType
  <1>2. /\ Len(s) = r.attempts
        /\ z[Len(z)].report = "retried"
        /\ \A k \in 1 .. Len(z) - 1 : z[k].report \in {"none", "retried"}
    BY ReportedRuns, ZenonT(40)
  <1>3. /\ Len(z) = Len(s)
        /\ r.attempts <= r.max_attempts /\ r.lease_seconds \in Nat \ {0}
    BY DEF RowInv, RunsFit, Reported
  <1> HIDE DEF q
  <1>4. ColumnsFit(q)
    BY <1>1 DEF ColumnsFit
  <1>5. RunsFit(q, z)
    BY <1>1, <1>2, <1>3 DEF RunsFit
  <1> QED
    BY <1>1, <1>3, <1>4, <1>5 DEF RowInv, q

LEMMA CancelFits ==
  ASSUME NEW r \in Row, NEW s \in Seq(Run), RowInv(r, s), Cancellable(r)
  PROVE  RowInv(CancelledRow(r), s)
  <1> DEFINE q == CancelledRow(r)
  <1>1. /\ q.status = "cancelled" /\ q.attempts = r.attempts
        /\ q.max_attempts = r.max_attempts /\ q.lease_seconds = r.lease_seconds
    BY CancelledType
  <1>2. r.lease_seconds \in Nat \ {0}
    BY DEF RowInv, Cancellable, Pending
  <1> HIDE DEF q
  <1>3. ColumnsFit(q)
    BY <1>1 DEF ColumnsFit
  <1>4. RunsFit(q, s)
    BY <1>1 DEF RunsFit, RowInv, Cancellable, Pending
  <1> QED
    BY <1>1, <1>2, <1>3, <1>4 DEF RowInv, q

LEMMA SweepFits ==
  ASSUME NEW r \in Row, NEW s \in Seq(Run), RowInv(r, s), r.status = "claimed"
  PROVE  RowInv(SweptRow(r), s)
  <1> DEFINE q == SweptRow(r)
  <1>1. /\ r.error \cup {"exhausted"} \in SUBSET Notes
        /\ "failed" \in Pending \cup Terminal
    BY DEF Row, Notes, Terminal
  <1>2. /\ q.status = "failed" /\ q.error = r.error \cup {"exhausted"}
        /\ q.attempts = r.attempts /\ q.max_attempts = r.max_attempts
        /\ q.claimed_by = r.claimed_by /\ q.claim_token = r.claim_token
        /\ q.lease_seconds = r.lease_seconds
    BY <1>1, NotedType DEF SweptRow
  <1> HIDE DEF q
  <1>3. ColumnsFit(q)
    BY <1>2 DEF ColumnsFit
  <1>4. RunsFit(q, s)
    BY <1>2 DEF RunsFit, RowInv
  <1>5. r.lease_seconds \in Nat \ {0}
    BY DEF RowInv
  <1> QED
    BY <1>2, <1>3, <1>4, <1>5 DEF RowInv, q

----------------------------------------------------------------------------
\* Every step keeps every row and its history in agreement.

LEMMA RowTypes ==
  ASSUME TypeOK, NEW m \in Missions
  PROVE  missions[m] \in Row /\ runs[m] \in Seq(Run)
  BY DEF TypeOK

LEMMA OneRow ==
  ASSUME BoardInv, NEW m \in Missions,
         RowInv(missions'[m], runs'[m]),
         \A n \in Missions \ {m} : missions'[n] = missions[n] /\ runs'[n] = runs[n]
  PROVE  BoardInv'
  BY DEF BoardInv

LEMMA RecordReported ==
  ASSUME TypeOK, NEW m \in Missions, NEW d \in Disciples, NEW t \in Given(m, d),
         NEW report \in Reports, Record(m, t, report), Holds(missions[m], d, t)
  PROVE  /\ Reported(runs[m], missions[m].claim_token, report, runs'[m])
         /\ missions[m].status = "claimed"
         /\ \A n \in Missions \ {m} : runs'[n] = runs[n]
  <1>1. t \in 1 .. Len(runs[m])
    BY GivenType
  <1>2. t = missions[m].claim_token /\ missions[m].status = "claimed"
    BY DEF Holds, HeldBy
  <1>3. /\ Reported(runs[m], t, report, runs'[m])
        /\ \A n \in Missions \ {m} : runs'[n] = runs[n]
    BY <1>1, RecordType
  <1> QED
    BY <1>2, <1>3

LEMMA BoardInit == Init => BoardInv
  <1> SUFFICES ASSUME Init, NEW m \in Missions
               PROVE  RowInv(AbsentRow, <<>>)
    BY DEF Init, BoardInv
  <1>1. Len(<<>>) = 0
    BY EmptySeq
  <1> QED
    BY <1>1 DEF RowInv, ColumnsFit, RunsFit, AbsentRow

LEMMA BoardPost ==
  ASSUME TypeOK, BoardInv, NEW m \in Missions, NEW art \in Arts,
         NEW cap \in AttemptCaps, NEW lease \in Leases, NEW delay \in Delays,
         Post(m, art, cap, lease, delay)
  PROVE  BoardInv'
  <1>1. missions[m].status = "absent" /\ RowInv(missions[m], runs[m])
    BY DEF Post, BoardInv
  <1>2. RowInv(PostedRow(art, cap, lease, now + delay), runs[m])
    BY <1>1, RowTypes, PostFits
  <1>3. /\ missions'[m] = PostedRow(art, cap, lease, now + delay)
        /\ runs' = runs
        /\ \A n \in Missions \ {m} : missions'[n] = missions[n]
    BY DEF Post, TypeOK
  <1> QED
    BY <1>2, <1>3, OneRow

LEMMA BoardGrant ==
  ASSUME TypeOK, BoardInv, NEW m \in Missions, NEW d \in Disciples,
         NEW asked \in Asked, NEW at \in Moments, Grant(m, d, asked, at)
  PROVE  BoardInv'
  <1>1. Claimable(missions[m], at) /\ RowInv(missions[m], runs[m]) /\ at \in Nat
    BY MomentsType DEF Grant, BoardInv
  <1>2. RowInv(Granted(missions[m], d, Len(runs[m]) + 1, asked, at),
               Append(runs[m], [by |-> d, report |-> "none"]))
    BY <1>1, RowTypes, GrantFits
  <1>3. /\ missions'[m] = Granted(missions[m], d, Len(runs[m]) + 1, asked, at)
        /\ \A n \in Missions \ {m} : missions'[n] = missions[n]
    BY DEF Grant, TypeOK, FreshToken
  <1>4. /\ runs'[m] = Append(runs[m], [by |-> d, report |-> "none"])
        /\ \A n \in Missions \ {m} : runs'[n] = runs[n]
    BY BeginType DEF Grant
  <1> QED
    BY <1>2, <1>3, <1>4, OneRow

LEMMA BoardRenew ==
  ASSUME TypeOK, BoardInv, NEW m \in Missions, missions[m].status = "claimed",
         NEW asked \in Asked, NEW at \in Moments,
         missions' = [missions EXCEPT ![m] = Renewed(@, asked, at)],
         UNCHANGED <<ledger, now, runs>>
  PROVE  BoardInv'
  <1>1. RowInv(missions[m], runs[m]) /\ at \in Nat
    BY MomentsType DEF BoardInv
  <1>2. RowInv(Renewed(missions[m], asked, at), runs[m])
    BY <1>1, RowTypes, RenewFits
  <1>3. /\ missions'[m] = Renewed(missions[m], asked, at)
        /\ runs' = runs
        /\ \A n \in Missions \ {m} : missions'[n] = missions[n]
    BY DEF TypeOK
  <1> QED
    BY <1>2, <1>3, OneRow

LEMMA BoardFinish ==
  ASSUME TypeOK, BoardInv, NEW m \in Missions, NEW d \in Disciples,
         NEW t \in Given(m, d), NEW outcome \in {"completed", "failed"},
         NEW error \in SUBSET Notes, outcome = "failed" => "exhausted" \notin error,
         Holds(missions[m], d, t), Record(m, t, outcome),
         missions' = [missions EXCEPT ![m] = Noted(@, outcome, error)]
  PROVE  BoardInv'
  <1>1. /\ Reported(runs[m], missions[m].claim_token, outcome, runs'[m])
        /\ missions[m].status = "claimed"
        /\ \A n \in Missions \ {m} : runs'[n] = runs[n]
    BY RecordReported DEF Reports
  <1>2. RowInv(missions[m], runs[m])
    BY DEF BoardInv
  <1>3. RowInv(Noted(missions[m], outcome, error), runs'[m])
    BY <1>1, <1>2, RowTypes, FinishFits
  <1>4. /\ missions'[m] = Noted(missions[m], outcome, error)
        /\ \A n \in Missions \ {m} : missions'[n] = missions[n]
    BY DEF TypeOK
  <1> QED
    BY <1>1, <1>3, <1>4, OneRow

LEMMA BoardFailRetry ==
  ASSUME TypeOK, BoardInv, NEW m \in Missions, NEW d \in Disciples,
         NEW t \in Given(m, d), NEW after \in Backoffs, NEW at \in Moments,
         FailRetry(m, d, t, after, at)
  PROVE  BoardInv'
  <1>1. /\ Reported(runs[m], missions[m].claim_token, "retried", runs'[m])
        /\ missions[m].status = "claimed"
        /\ \A n \in Missions \ {m} : runs'[n] = runs[n]
    BY RecordReported DEF Reports, FailRetry
  <1>2. RowInv(missions[m], runs[m]) /\ at + after \in Nat
    BY MomentsType, PostingAssumption DEF BoardInv
  <1>3. RowInv(ReleasedRow(missions[m], at + after), runs'[m])
    BY <1>1, <1>2, RowTypes, ReleaseFits DEF FailRetry
  <1>4. /\ missions'[m] = ReleasedRow(missions[m], at + after)
        /\ \A n \in Missions \ {m} : missions'[n] = missions[n]
    BY DEF FailRetry, TypeOK
  <1> QED
    BY <1>1, <1>3, <1>4, OneRow

LEMMA BoardCancel ==
  ASSUME TypeOK, BoardInv, NEW m \in Missions, Cancel(m)
  PROVE  BoardInv'
  <1>1. RowInv(CancelledRow(missions[m]), runs[m])
    BY RowTypes, CancelFits DEF Cancel, BoardInv
  <1>2. /\ missions'[m] = CancelledRow(missions[m])
        /\ runs' = runs
        /\ \A n \in Missions \ {m} : missions'[n] = missions[n]
    BY DEF Cancel, TypeOK
  <1> QED
    BY <1>1, <1>2, OneRow

LEMMA BoardSweep ==
  ASSUME TypeOK, BoardInv, NEW at \in Moments, NEW S \in SUBSET Missions, Sweep(at, S)
  PROVE  BoardInv'
  <1> SUFFICES ASSUME NEW m \in Missions
               PROVE  RowInv(missions'[m], runs[m])
    BY DEF Sweep, BoardInv
  <1>1. CASE m \in S
    <2>1. RowInv(SweptRow(missions[m]), runs[m])
      BY <1>1, RowTypes, SweepFits DEF BoardInv, Exhausted, Sweep
    <2> QED
      BY <1>1, <2>1 DEF Sweep
  <1>2. CASE m \notin S
    BY <1>2 DEF Sweep, BoardInv
  <1> QED
    BY <1>1, <1>2

LEMMA BoardStep == TypeOK /\ BoardInv /\ [Next]_vars => BoardInv'
  <1> SUFFICES ASSUME TypeOK, BoardInv, [Next]_vars
               PROVE  BoardInv'
    OBVIOUS
  <1>1. ASSUME NEW m \in Missions, MissionStep(m)
        PROVE  BoardInv'
    BY <1>1, BoardPost, BoardCancel DEF MissionStep
  <1>2. ASSUME NEW m \in Missions, NEW d \in Disciples, ClaimStep(m, d)
        PROVE  BoardInv'
    BY <1>2, BoardGrant, BoardRenew
       DEF ClaimStep, Claim, ClaimHeld, ClaimNext, HeldBy
  <1>3. ASSUME NEW m \in Missions, NEW d \in Disciples, NEW t \in Given(m, d),
               HolderStep(m, d, t)
        PROVE  BoardInv'
    <2>1. CASE \E asked \in Asked, at \in Moments : Heartbeat(m, d, t, asked, at)
      BY <2>1, BoardRenew DEF Heartbeat, Holds, HeldBy
    <2>2. CASE Complete(m, d, t)
      <3>1. missions' = [missions EXCEPT ![m] = Noted(@, "completed", {})]
        BY <2>2 DEF Complete, CompletedRow
      <3>2. Holds(missions[m], d, t) /\ Record(m, t, "completed")
        BY <2>2 DEF Complete
      <3>3. {} \in SUBSET Notes
        OBVIOUS
      <3> QED
        BY <3>1, <3>2, <3>3, BoardFinish
    <2>3. CASE \E after \in Backoffs, at \in Moments : FailRetry(m, d, t, after, at)
      BY <2>3, BoardFailRetry
    <2>4. CASE \E retryable \in BOOLEAN : FailTerminal(m, d, t, retryable)
      <3>1. missions' = [missions EXCEPT ![m] = Noted(@, "failed", {"reported"})]
        BY <2>4 DEF FailTerminal, FailedRow
      <3>2. Holds(missions[m], d, t) /\ Record(m, t, "failed")
        BY <2>4 DEF FailTerminal
      <3>3. {"reported"} \in SUBSET Notes /\ "exhausted" \notin {"reported"}
        BY DEF Notes
      <3> QED
        BY <3>1, <3>2, <3>3, BoardFinish
    <2> QED
      BY <1>3, <2>1, <2>2, <2>3, <2>4 DEF HolderStep
  <1>4. CASE Tick
    BY <1>4 DEF Tick, BoardInv
  <1>5. CASE UNCHANGED vars
    BY <1>5 DEF vars, BoardInv
  <1> QED
    BY <1>1, <1>2, <1>3, <1>4, <1>5, BoardSweep DEF Next

(* The invariant behind the safety theorems: rows are well typed, and each *)
(* row agrees with the history of its claims.                              *)
THEOREM BoardCorrect == Spec => [](TypeOK /\ BoardInv)
  BY TypeInit, TypeStep, BoardInit, BoardStep, PTL DEF Spec

(* A token fences its run: however claims, late reports, replays, cancels  *)
(* and sweeps interleave, only the newest run of a mission can decide it,  *)
(* and attempts count exactly the tokens minted, within max_attempts.      *)
THEOREM Fencing == Spec => []OneRunDecides
  <1>1. BoardInv => OneRunDecides
    BY DEF BoardInv, RowInv, OneRunDecides
  <1> QED
    BY <1>1, BoardCorrect, PTL

(* No open mission names a holder or is out of attempts, and no claimed    *)
(* one lacks its holder, token or lease (the CHECK of 0001_init.sql can    *)
(* never abort a statement).                                               *)
THEOREM Columns == Spec => []HolderColumns
  <1>1. BoardInv => HolderColumns
    BY DEF BoardInv, RowInv, HolderColumns
  <1> QED
    BY <1>1, BoardCorrect, PTL

----------------------------------------------------------------------------
\* Finished rows.

LEMMA FinalStep ==
  ASSUME TypeOK, [Next]_vars, NEW m \in Missions, missions[m].status \in Terminal
  PROVE  missions'[m] = missions[m]
  <1>1. /\ missions[m].status \notin Pending
        /\ missions[m].status # "absent" /\ missions[m].status # "claimed"
    BY DEF Pending, Terminal
  <1>2. ASSUME NEW n \in Missions, MissionStep(n)
        PROVE  missions'[m] = missions[m]
    BY <1>1, <1>2 DEF MissionStep, Post, Cancel, Cancellable, TypeOK
  <1>3. ASSUME NEW n \in Missions, NEW d \in Disciples, ClaimStep(n, d)
        PROVE  missions'[m] = missions[m]
    <2>1. PICK asked \in Asked, at \in Moments :
            Claim(n, d, asked, at) \/ ClaimNext(n, d, asked, at)
      BY <1>3 DEF ClaimStep
    <2>2. ClaimHeld(n, d, asked, at) \/ Grant(n, d, asked, at)
      BY <2>1 DEF Claim, ClaimNext
    <2>3. n # m
      BY <1>1, <2>2 DEF ClaimHeld, HeldBy, Grant, Claimable, Pending
    <2> QED
      BY <2>2, <2>3 DEF ClaimHeld, Grant, TypeOK
  <1>4. ASSUME NEW n \in Missions, NEW d \in Disciples, NEW t \in Given(n, d),
               HolderStep(n, d, t)
        PROVE  missions'[m] = missions[m]
    <2>1. Holds(missions[n], d, t)
      BY <1>4 DEF HolderStep, Heartbeat, Complete, FailRetry, FailTerminal
    <2>2. n # m
      BY <1>1, <2>1 DEF Holds, HeldBy
    <2> QED
      BY <1>4, <2>2
         DEF HolderStep, Heartbeat, Complete, FailRetry, FailTerminal, TypeOK
  <1>5. ASSUME NEW at \in Moments, NEW S \in SUBSET Missions, Sweep(at, S)
        PROVE  missions'[m] = missions[m]
    BY <1>1, <1>5 DEF Sweep, Exhausted
  <1>6. CASE Tick \/ UNCHANGED vars
    BY <1>6 DEF Tick, vars
  <1> QED
    BY <1>2, <1>3, <1>4, <1>5, <1>6 DEF Next

(* A finished mission stays as it is: no late report, replayed request,    *)
(* claim, cancel or sweep touches the row again.                           *)
THEOREM Final == Spec => TerminalIsFinal
  <1>1. TypeOK /\ [Next]_vars =>
          [\A m \in Missions :
             missions[m].status \in Terminal => missions'[m] = missions[m]]_vars
    BY FinalStep
  <1> QED
    BY <1>1, TypeCorrect, PTL DEF Spec, TerminalIsFinal

----------------------------------------------------------------------------
\* The ledger.

Done(r, d) == r.status = "completed" /\ r.claimed_by = d
Lost(r, d) == r.status = "failed" /\ r.claimed_by = d /\ "exhausted" \notin r.error

DoneSet(d) == {m \in Missions : Done(missions[m], d)}
LostSet(d) == {m \in Missions : Lost(missions[m], d)}

LedgerInv ==
  \A d \in Disciples :
    /\ ledger[d].completed = Cardinality(DoneSet(d))
    /\ ledger[d].failed = Cardinality(LostSet(d))

LEMMA LedgerInit == Init => LedgerInv
  <1> SUFFICES ASSUME Init, NEW d \in Disciples
               PROVE  /\ ledger[d].completed = Cardinality(DoneSet(d))
                      /\ ledger[d].failed = Cardinality(LostSet(d))
    BY DEF LedgerInv
  <1>1. DoneSet(d) = {} /\ LostSet(d) = {}
    BY DEF Init, DoneSet, LostSet, Done, Lost, AbsentRow
  <1>2. ledger[d].completed = 0 /\ ledger[d].failed = 0
    BY DEF Init, NewAccount
  <1> QED
    BY <1>1, <1>2, FS_EmptySet

\* A step that books nothing: no row enters or leaves an outcome.
LEMMA QuietStep ==
  ASSUME LedgerInv, UNCHANGED ledger,
         \A m \in Missions, d \in Disciples :
           /\ Done(missions'[m], d) <=> Done(missions[m], d)
           /\ Lost(missions'[m], d) <=> Lost(missions[m], d)
  PROVE  LedgerInv'
  <1>1. \A d \in Disciples : DoneSet(d)' = DoneSet(d) /\ LostSet(d)' = LostSet(d)
    BY DEF DoneSet, LostSet, Done, Lost
  <1> QED
    BY <1>1 DEF LedgerInv

LEMMA QuietRow ==
  ASSUME TypeOK, LedgerInv, NEW m \in Missions, NEW row,
         missions' = [missions EXCEPT ![m] = row], UNCHANGED ledger,
         missions[m].status \notin {"completed", "failed"},
         row.status \notin {"completed", "failed"}
  PROVE  LedgerInv'
  <1>1. /\ missions'[m] = row
        /\ \A n \in Missions \ {m} : missions'[n] = missions[n]
    BY DEF TypeOK
  <1> QED
    BY <1>1, QuietStep DEF Done, Lost

LEMMA Counting ==
  ASSUME NEW S \in SUBSET Missions, NEW m \in Missions, m \notin S
  PROVE  Cardinality(S \cup {m}) = Cardinality(S) + 1
  <1>1. IsFiniteSet(S)
    BY TablesAssumption, FS_Subset
  <1> QED
    BY <1>1, FS_AddElement

LEMMA LedgerComplete ==
  ASSUME TypeOK, LedgerInv, NEW m \in Missions, NEW d \in Disciples,
         NEW t \in Given(m, d), Complete(m, d, t)
  PROVE  LedgerInv'
  <1>1. missions[m].status = "claimed" /\ missions[m].claimed_by = d
    BY DEF Complete, Holds, HeldBy
  <1>2. missions[m] \in Row /\ {} \in SUBSET Notes /\ "completed" \in Pending \cup Terminal
    BY DEF TypeOK, Terminal
  <1>3. missions'[m].status = "completed" /\ missions'[m].claimed_by = d
    BY <1>1, <1>2, NotedType DEF Complete, CompletedRow, TypeOK
  <1>4. \A n \in Missions \ {m} : missions'[n] = missions[n]
    BY DEF Complete, TypeOK
  <1>5. ledger' = [ledger EXCEPT ![d] = Credited(ledger[d])]
    BY <1>1 DEF Complete
  <1>6. m \notin DoneSet(d) /\ DoneSet(d)' = DoneSet(d) \cup {m}
    BY <1>1, <1>3, <1>4 DEF DoneSet, Done
  <1>7. Cardinality(DoneSet(d)') = Cardinality(DoneSet(d)) + 1
    BY <1>6, Counting DEF DoneSet
  <1>8. \A e \in Disciples \ {d} : DoneSet(e)' = DoneSet(e)
    BY <1>1, <1>3, <1>4 DEF DoneSet, Done
  <1>9. \A e \in Disciples : LostSet(e)' = LostSet(e)
    BY <1>1, <1>3, <1>4 DEF LostSet, Lost
  <1>10. /\ ledger'[d].completed = ledger[d].completed + 1
         /\ ledger'[d].failed = ledger[d].failed
         /\ \A e \in Disciples \ {d} : ledger'[e] = ledger[e]
    BY <1>5 DEF Credited, TypeOK
  <1> QED
    BY <1>7, <1>8, <1>9, <1>10 DEF LedgerInv

LEMMA LedgerFailTerminal ==
  ASSUME TypeOK, LedgerInv, NEW m \in Missions, NEW d \in Disciples,
         NEW t \in Given(m, d), NEW retryable \in BOOLEAN,
         FailTerminal(m, d, t, retryable)
  PROVE  LedgerInv'
  <1>1. missions[m].status = "claimed" /\ missions[m].claimed_by = d
    BY DEF FailTerminal, Holds, HeldBy
  <1>2. /\ missions[m] \in Row /\ {"reported"} \in SUBSET Notes
        /\ "failed" \in Pending \cup Terminal
    BY DEF TypeOK, Terminal, Notes
  <1>3. /\ missions'[m].status = "failed" /\ missions'[m].claimed_by = d
        /\ missions'[m].error = {"reported"}
    BY <1>1, <1>2, NotedType DEF FailTerminal, FailedRow, TypeOK
  <1>4. \A n \in Missions \ {m} : missions'[n] = missions[n]
    BY DEF FailTerminal, TypeOK
  <1>5. ledger' = [ledger EXCEPT ![d] = Debited(ledger[d])]
    BY <1>1 DEF FailTerminal
  <1>6. m \notin LostSet(d) /\ LostSet(d)' = LostSet(d) \cup {m}
    BY <1>1, <1>3, <1>4 DEF LostSet, Lost
  <1>7. Cardinality(LostSet(d)') = Cardinality(LostSet(d)) + 1
    BY <1>6, Counting DEF LostSet
  <1>8. \A e \in Disciples \ {d} : LostSet(e)' = LostSet(e)
    BY <1>1, <1>3, <1>4 DEF LostSet, Lost
  <1>9. \A e \in Disciples : DoneSet(e)' = DoneSet(e)
    BY <1>1, <1>3, <1>4 DEF DoneSet, Done
  <1>10. /\ ledger'[d].failed = ledger[d].failed + 1
         /\ ledger'[d].completed = ledger[d].completed
         /\ \A e \in Disciples \ {d} : ledger'[e] = ledger[e]
    BY <1>5 DEF Debited, TypeOK
  <1> QED
    BY <1>7, <1>8, <1>9, <1>10 DEF LedgerInv

LEMMA LedgerSweep ==
  ASSUME TypeOK, LedgerInv, NEW at \in Moments, NEW S \in SUBSET Missions, Sweep(at, S)
  PROVE  LedgerInv'
  <1>1. ASSUME NEW m \in Missions, NEW d \in Disciples
        PROVE  /\ Done(missions'[m], d) <=> Done(missions[m], d)
               /\ Lost(missions'[m], d) <=> Lost(missions[m], d)
    <2>1. CASE m \in S
      <3>1. /\ missions[m].error \cup {"exhausted"} \in SUBSET Notes
            /\ "failed" \in Pending \cup Terminal /\ missions[m] \in Row
        BY DEF TypeOK, Row, Notes, Terminal
      <3>2. /\ missions'[m].status = "failed"
            /\ missions'[m].error = missions[m].error \cup {"exhausted"}
        BY <2>1, <3>1, NotedType DEF Sweep, SweptRow
      <3> QED
        BY <2>1, <3>2 DEF Done, Lost, Exhausted, Sweep
    <2>2. CASE m \notin S
      BY <2>2 DEF Sweep
    <2> QED
      BY <2>1, <2>2
  <1> QED
    BY <1>1, QuietStep DEF Sweep

LEMMA LedgerGrant ==
  ASSUME TypeOK, LedgerInv, NEW m \in Missions, NEW d \in Disciples,
         NEW asked \in Asked, NEW at \in Moments, Grant(m, d, asked, at)
  PROVE  LedgerInv'
  <1>1. /\ missions[m] \in Row /\ at \in Nat /\ FreshToken(m) \in Nat
        /\ missions[m].status \in Pending
    BY MomentsType, LenProperties DEF TypeOK, FreshToken, Grant, Claimable, Pending
  <1>2. Granted(missions[m], d, FreshToken(m), asked, at).status = "claimed"
    BY <1>1, GrantedType
  <1> QED
    BY <1>1, <1>2, QuietRow DEF Grant, Pending

LEMMA LedgerRenew ==
  ASSUME TypeOK, LedgerInv, NEW m \in Missions, missions[m].status = "claimed",
         NEW asked \in Asked, NEW at \in Moments,
         missions' = [missions EXCEPT ![m] = Renewed(@, asked, at)],
         UNCHANGED <<ledger, now, runs>>
  PROVE  LedgerInv'
  <1>1. Renewed(missions[m], asked, at).status = "claimed"
    BY DEF Renewed, TypeOK, Row
  <1> QED
    BY <1>1, QuietRow

LEMMA LedgerStep == TypeOK /\ LedgerInv /\ [Next]_vars => LedgerInv'
  <1> SUFFICES ASSUME TypeOK, LedgerInv, [Next]_vars
               PROVE  LedgerInv'
    OBVIOUS
  <1>1. ASSUME NEW m \in Missions, MissionStep(m)
        PROVE  LedgerInv'
    <2>1. CASE Cancel(m)
      BY <2>1, CancelledType, QuietRow DEF Cancel, Cancellable, Pending, TypeOK
    <2>2. ASSUME NEW art \in Arts, NEW cap \in AttemptCaps, NEW lease \in Leases,
                 NEW delay \in Delays, Post(m, art, cap, lease, delay)
          PROVE  LedgerInv'
      <3>1. PostedRow(art, cap, lease, now + delay).status = "open"
        BY DEF PostedRow
      <3> QED
        BY <2>2, <3>1, QuietRow DEF Post
    <2> QED
      BY <1>1, <2>1, <2>2 DEF MissionStep
  <1>2. ASSUME NEW m \in Missions, NEW d \in Disciples, ClaimStep(m, d)
        PROVE  LedgerInv'
    BY <1>2, LedgerGrant, LedgerRenew
       DEF ClaimStep, Claim, ClaimHeld, ClaimNext, HeldBy
  <1>3. ASSUME NEW m \in Missions, NEW d \in Disciples, NEW t \in Given(m, d),
               HolderStep(m, d, t)
        PROVE  LedgerInv'
    <2>1. CASE \E asked \in Asked, at \in Moments : Heartbeat(m, d, t, asked, at)
      BY <2>1, LedgerRenew DEF Heartbeat, Holds, HeldBy
    <2>2. ASSUME NEW after \in Backoffs, NEW at \in Moments,
                 FailRetry(m, d, t, after, at)
          PROVE  LedgerInv'
      <3>1. at + after \in Nat /\ missions[m] \in Row
        BY MomentsType, PostingAssumption DEF TypeOK
      <3>2. ReleasedRow(missions[m], at + after).status = "open"
        BY <3>1, ReleasedType
      <3> QED
        BY <2>2, <3>2, QuietRow DEF FailRetry, Holds, HeldBy
    <2> QED
      BY <1>3, <2>1, <2>2, LedgerComplete, LedgerFailTerminal DEF HolderStep
  <1>4. CASE Tick \/ UNCHANGED vars
    BY <1>4, QuietStep DEF Tick, vars
  <1> QED
    BY <1>1, <1>2, <1>3, <1>4, LedgerSweep DEF Next

LEMMA Counters == LedgerInv => LedgerMatchesBoard
  <1> SUFFICES ASSUME LedgerInv, NEW d \in Disciples
               PROVE  /\ ledger[d].completed = Cardinality(Outcomes(d, "completed"))
                      /\ ledger[d].failed =
                           Cardinality(Outcomes(d, "failed") \ Swept)
    BY DEF LedgerMatchesBoard
  <1>1. Outcomes(d, "completed") = DoneSet(d)
    BY DEF Outcomes, DoneSet, Done
  <1>2. Outcomes(d, "failed") \ Swept = LostSet(d)
    BY DEF Outcomes, Swept, LostSet, Lost
  <1> QED
    BY <1>1, <1>2 DEF LedgerInv

(* The stored counters equal what the board shows: one completion per      *)
(* completed mission of the disciple, one failure per mission it reported  *)
(* failed, however reports are repeated or raced; a sweep books nothing.   *)
THEOREM Ledger == Spec => []LedgerMatchesBoard
  BY TypeInit, TypeStep, LedgerInit, LedgerStep, Counters, PTL DEF Spec
=============================================================================
