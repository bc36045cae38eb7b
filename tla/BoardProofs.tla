---------------------------- MODULE BoardProofs ----------------------------
(***************************************************************************)
(* More about MissionHall for every value of its constants: backoffs,      *)
(* leases, the sweep's note, the stored reputation, and that every         *)
(* statement is a step of the abstract board of Lifecycle.                 *)
(*                                                                         *)
(* The first lemma says once what a step may do to one row and the history *)
(* of its claims; the theorems are then arguments about one row.           *)
(***************************************************************************)
EXTENDS MissionHallProofs

----------------------------------------------------------------------------
\* What one step may do to the row of m.

RowKept(m) == missions'[m] = missions[m] /\ runs'[m] = runs[m]

RowPosted(m) ==
  /\ missions[m].status = "absent" /\ runs'[m] = runs[m]
  /\ \E art \in Arts, cap \in AttemptCaps, lease \in Leases, delay \in Delays :
       missions'[m] = PostedRow(art, cap, lease, now + delay)

RowGranted(m) ==
  \E d \in Disciples, asked \in Asked, at \in Moments :
    /\ Claimable(missions[m], at)
    /\ missions'[m] = Granted(missions[m], d, Len(runs[m]) + 1, asked, at)
    /\ runs'[m] = Append(runs[m], [by |-> d, report |-> "none"])

RowRenewed(m) ==
  /\ missions[m].status = "claimed" /\ runs'[m] = runs[m]
  /\ \E asked \in Asked, at \in Moments :
       missions'[m] = Renewed(missions[m], asked, at)

RowFinished(m) ==
  /\ missions[m].status = "claimed"
  /\ \E outcome \in {"completed", "failed"}, error \in {{}, {"reported"}} :
       /\ missions'[m] = Noted(missions[m], outcome, error)
       /\ Reported(runs[m], missions[m].claim_token, outcome, runs'[m])

RowReleased(m) ==
  /\ missions[m].status = "claimed"
  /\ missions[m].attempts < missions[m].max_attempts
  /\ \E until \in Nat : missions'[m] = ReleasedRow(missions[m], until)
  /\ Reported(runs[m], missions[m].claim_token, "retried", runs'[m])

RowCancelled(m) ==
  /\ Cancellable(missions[m])
  /\ missions'[m] = CancelledRow(missions[m]) /\ runs'[m] = runs[m]

RowSwept(m) ==
  /\ \E at \in Moments : Exhausted(missions[m], at)
  /\ missions'[m] = SweptRow(missions[m]) /\ runs'[m] = runs[m]

RowStep(m) ==
  \/ RowKept(m) \/ RowPosted(m) \/ RowGranted(m) \/ RowRenewed(m)
  \/ RowFinished(m) \/ RowReleased(m) \/ RowCancelled(m) \/ RowSwept(m)

\* A statement on one row leaves the others, and the clock, as they are.
Only(m) ==
  /\ \A n \in Missions \ {m} : missions'[n] = missions[n] /\ runs'[n] = runs[n]
  /\ now' = now

LEMMA MissionRow ==
  ASSUME TypeOK, NEW m \in Missions, MissionStep(m)
  PROVE  Only(m) /\ (RowPosted(m) \/ RowCancelled(m))
  BY DEF MissionStep, Post, Cancel, Only, RowPosted, RowCancelled, TypeOK

LEMMA ClaimRow ==
  ASSUME TypeOK, NEW m \in Missions, NEW d \in Disciples, ClaimStep(m, d)
  PROVE  Only(m) /\ (RowRenewed(m) \/ RowGranted(m))
  <1>1. PICK asked \in Asked, at \in Moments :
          ClaimHeld(m, d, asked, at) \/ Grant(m, d, asked, at)
    BY DEF ClaimStep, Claim, ClaimNext
  <1>2. CASE ClaimHeld(m, d, asked, at)
    BY <1>2 DEF ClaimHeld, HeldBy, Only, RowRenewed, TypeOK
  <1>3. CASE Grant(m, d, asked, at)
    <2>1. /\ runs'[m] = Append(runs[m], [by |-> d, report |-> "none"])
          /\ \A n \in Missions \ {m} : runs'[n] = runs[n]
      BY <1>3, BeginType DEF Grant
    <2> QED
      BY <1>3, <2>1 DEF Grant, FreshToken, Only, RowGranted, TypeOK
  <1> QED
    BY <1>1, <1>2, <1>3

LEMMA HolderRow ==
  ASSUME TypeOK, NEW m \in Missions, NEW d \in Disciples, NEW t \in Given(m, d),
         HolderStep(m, d, t)
  PROVE  Only(m) /\ (RowRenewed(m) \/ RowFinished(m) \/ RowReleased(m))
  <1>1. CASE \E asked \in Asked, at \in Moments : Heartbeat(m, d, t, asked, at)
    BY <1>1 DEF Heartbeat, Holds, HeldBy, Only, RowRenewed, TypeOK
  <1>2. ASSUME NEW report \in {"completed", "failed", "retried"},
               Holds(missions[m], d, t), Record(m, t, report)
        PROVE  /\ Reported(runs[m], missions[m].claim_token, report, runs'[m])
               /\ missions[m].status = "claimed"
               /\ \A n \in Missions \ {m} : runs'[n] = runs[n]
    BY <1>2, RecordReported DEF Reports
  <1>3. CASE Complete(m, d, t)
    BY <1>2, <1>3 DEF Complete, CompletedRow, Only, RowFinished, TypeOK
  <1>4. CASE \E retryable \in BOOLEAN : FailTerminal(m, d, t, retryable)
    BY <1>2, <1>4 DEF FailTerminal, FailedRow, Only, RowFinished, TypeOK
  <1>5. ASSUME NEW after \in Backoffs, NEW at \in Moments, FailRetry(m, d, t, after, at)
        PROVE  Only(m) /\ RowReleased(m)
    <2>1. at + after \in Nat
      BY MomentsType, PostingAssumption
    <2> QED
      BY <1>2, <1>5, <2>1 DEF FailRetry, Only, RowReleased, TypeOK
  <1> QED
    BY <1>1, <1>3, <1>4, <1>5 DEF HolderStep

LEMMA SweepRow ==
  ASSUME NEW at \in Moments, NEW S \in SUBSET Missions, Sweep(at, S)
  PROVE  /\ \A m \in S : RowSwept(m)
         /\ \A m \in Missions \ S : RowKept(m)
         /\ now' = now
  BY DEF Sweep, RowSwept, RowKept

\* Every step is about one row, or a sweep, or moves nothing but the clock.
LEMMA Steps ==
  ASSUME TypeOK, [Next]_vars
  PROVE  \/ \E m \in Missions :
              /\ Only(m)
              /\ \/ RowPosted(m) \/ RowGranted(m) \/ RowRenewed(m)
                 \/ RowFinished(m) \/ RowReleased(m) \/ RowCancelled(m)
         \/ \E S \in SUBSET Missions, at \in Moments : Sweep(at, S)
         \/ missions' = missions /\ runs' = runs /\ now' \in {now, now + 1}
  <1>1. CASE Tick \/ UNCHANGED vars
    BY <1>1 DEF Tick, vars
  <1>2. ASSUME NEW m \in Missions, MissionStep(m)
        PROVE  Only(m) /\ (RowPosted(m) \/ RowCancelled(m))
    BY <1>2, MissionRow
  <1>3. ASSUME NEW m \in Missions, NEW d \in Disciples, ClaimStep(m, d)
        PROVE  Only(m) /\ (RowRenewed(m) \/ RowGranted(m))
    BY <1>3, ClaimRow
  <1>4. ASSUME NEW m \in Missions, NEW d \in Disciples, NEW t \in Given(m, d),
               HolderStep(m, d, t)
        PROVE  Only(m) /\ (RowRenewed(m) \/ RowFinished(m) \/ RowReleased(m))
    BY <1>4, HolderRow
  <1> QED
    BY <1>1, <1>2, <1>3, <1>4 DEF Next

LEMMA RowSteps ==
  ASSUME TypeOK, [Next]_vars, NEW m \in Missions
  PROVE  /\ RowStep(m)
         /\ now' \in Nat /\ now <= now'
  <1>1. ASSUME NEW n \in Missions, Only(n),
               \/ RowPosted(n) \/ RowGranted(n) \/ RowRenewed(n)
               \/ RowFinished(n) \/ RowReleased(n) \/ RowCancelled(n)
        PROVE  RowStep(m) /\ now' = now
    BY <1>1 DEF Only, RowStep, RowKept
  <1>2. ASSUME NEW S \in SUBSET Missions, NEW at \in Moments, Sweep(at, S)
        PROVE  RowStep(m) /\ now' = now
    BY <1>2, SweepRow DEF RowStep
  <1>3. missions' = missions /\ runs' = runs => RowStep(m)
    BY DEF RowStep, RowKept
  <1>4. RowStep(m) /\ now' \in {now, now + 1}
    BY <1>1, <1>2, <1>3, Steps
  <1> QED
    BY <1>4 DEF TypeOK

\* What reports and the sweep leave on a row.
LEMMA FinishedType ==
  ASSUME NEW r \in Row, NEW outcome \in {"completed", "failed"},
         NEW error \in {{}, {"reported"}}
  PROVE  /\ Noted(r, outcome, error).status = outcome
         /\ Noted(r, outcome, error).error = error
  <1>1. outcome \in Pending \cup Terminal /\ error \in SUBSET Notes
    BY DEF Terminal, Notes
  <1> QED
    BY <1>1, NotedType

LEMMA SweptType ==
  ASSUME NEW r \in Row
  PROVE  /\ SweptRow(r).status = "failed"
         /\ SweptRow(r).error = r.error \cup {"exhausted"}
         /\ SweptRow(r).attempts = r.attempts
         /\ SweptRow(r).max_attempts = r.max_attempts
  <1>1. "failed" \in Pending \cup Terminal /\ r.error \cup {"exhausted"} \in SUBSET Notes
    BY DEF Terminal, Notes, Row
  <1> QED
    BY <1>1, NotedType DEF SweptRow

\* What a new run leaves of the row, and what it adds.
LEMMA GrantedRow ==
  ASSUME TypeOK, NEW m \in Missions, RowGranted(m)
  PROVE  /\ missions'[m].status = "claimed"
         /\ missions'[m].error = missions[m].error
         /\ missions'[m].not_before = missions[m].not_before
         /\ missions'[m].max_attempts = missions[m].max_attempts
         /\ \E at \in Moments : Claimable(missions[m], at)
         /\ \E d \in Disciples :
              runs'[m] = Append(runs[m], [by |-> d, report |-> "none"])
  <1>1. PICK d \in Disciples, asked \in Asked, at \in Moments :
          /\ Claimable(missions[m], at)
          /\ missions'[m] = Granted(missions[m], d, Len(runs[m]) + 1, asked, at)
          /\ runs'[m] = Append(runs[m], [by |-> d, report |-> "none"])
    BY DEF RowGranted
  <1>2. missions[m] \in Row /\ at \in Nat /\ Len(runs[m]) + 1 \in Nat
    BY MomentsType, LenProperties DEF TypeOK
  <1>3. /\ missions'[m].status = "claimed"
        /\ missions'[m].error = missions[m].error
        /\ missions'[m].not_before = missions[m].not_before
        /\ missions'[m].max_attempts = missions[m].max_attempts
    BY <1>1, <1>2, GrantedType
  <1> QED
    BY <1>1, <1>3

LEMMA BoardFacts ==
  ASSUME TypeOK, BoardInv, NEW m \in Missions
  PROVE  /\ missions[m] \in Row /\ runs[m] \in Seq(Run) /\ now \in Nat
         /\ RowInv(missions[m], runs[m])
         /\ Len(runs[m]) = missions[m].attempts
         /\ missions[m].attempts \in Nat /\ missions[m].max_attempts \in Nat
  BY DEF TypeOK, BoardInv, RowInv, RunsFit, Row

\* A token that holds was given to the holder.
LEMMA TokenGiven ==
  ASSUME TypeOK, BoardInv, NEW m \in Missions, NEW d, NEW t, Holds(missions[m], d, t)
  PROVE  t \in Given(m, d) /\ missions[m].claimed_by = d
  <1>1. /\ runs[m] \in Seq(Run) /\ Len(runs[m]) \in Nat /\ RowInv(missions[m], runs[m])
    BY BoardFacts, LenProperties
  <1>2. missions[m].status = "claimed" /\ missions[m].claimed_by = d
        /\ missions[m].claim_token = t
    BY DEF Holds, HeldBy
  <1>3. /\ t = Len(runs[m]) /\ runs[m] # <<>> /\ runs[m][t].by = d
    BY <1>1, <1>2 DEF RowInv, RunsFit
  <1>4. Len(runs[m]) # 0
    BY <1>1, <1>3, EmptySeq
  <1> QED
    BY <1>1, <1>2, <1>3, <1>4 DEF Given

\* What is on record for a run stays: its disciple, a report once made, and, when
\* its token holds no more, everything.
LEMMA HistoryStep ==
  ASSUME TypeOK, BoardInv, [Next]_vars, NEW m \in Missions, NEW d, NEW t \in Given(m, d)
  PROVE  /\ t \in Given(m, d)' /\ Len(runs[m]) <= Len(runs'[m])
         /\ runs[m][t].report # "none" => runs'[m][t] = runs[m][t]
         /\ ~ Holds(missions[m], d, t) =>
              ~ Holds(missions'[m], d, t) /\ runs'[m][t] = runs[m][t]
  <1> DEFINE r == missions[m]
             s == runs[m]
             z == runs'[m]
             n == Len(s)
  <1>1. /\ r \in Row /\ s \in Seq(Run) /\ RowInv(r, s) /\ n \in Nat
        /\ t \in 1 .. n /\ s[t].by = d
    BY BoardFacts, LenProperties DEF Given
  <1>2. TypeOK' /\ BoardInv'
    BY TypeStep, BoardStep
  <1>3. z \in Seq(Run) /\ RowInv(missions'[m], z) /\ Len(z) \in Nat
    BY <1>2, LenProperties DEF TypeOK, BoardInv
  <1>4. Holds(r, d, t) <=> r.status = "claimed" /\ t = n
    BY <1>1 DEF Holds, HeldBy, RowInv, RunsFit
  <1>5. Holds(missions'[m], d, t) => missions'[m].status = "claimed" /\ t = Len(z)
    BY <1>3 DEF Holds, HeldBy, RowInv, RunsFit
  <1>6. CASE z = s
    <2>1. ASSUME ~ Holds(r, d, t), Holds(missions'[m], d, t)
          PROVE  FALSE
      <3>1. r.status # "claimed" /\ missions'[m].status = "claimed"
        BY <1>4, <1>5, <1>6, <2>1
      <3>2. CASE RowKept(m)
        BY <3>1, <3>2 DEF RowKept
      <3>3. CASE RowPosted(m)
        BY <3>1, <3>3 DEF RowPosted, PostedRow
      <3>4. CASE RowGranted(m)
        <4>1. PICK e : z = Append(s, e) /\ e \in Run
          BY <3>4 DEF RowGranted, Run
        <4>2. Len(z) = n + 1
          BY <1>1, <4>1, AppendProperties
        <4> QED
          BY <1>1, <1>6, <4>2
      <3>5. CASE RowCancelled(m)
        BY <1>1, <3>1, <3>5, CancelledType DEF RowCancelled
      <3>6. CASE RowSwept(m)
        BY <1>1, <3>1, <3>6, SweptType DEF RowSwept
      <3> QED
        BY <3>1, <3>2, <3>3, <3>4, <3>5, <3>6, RowSteps
           DEF RowStep, RowRenewed, RowFinished, RowReleased
    <2> QED
      BY <1>1, <1>6, <2>1 DEF Given
  <1>7. CASE RowGranted(m)
    <2>1. PICK e \in Run : z = Append(s, e)
      BY <1>7 DEF RowGranted, Run
    <2>2. Len(z) = n + 1 /\ \A k \in 1 .. n : z[k] = s[k]
      BY <1>1, <2>1, AppendProperties
    <2> QED
      BY <1>1, <1>5, <2>2 DEF Given
  <1>8. CASE RowFinished(m) \/ RowReleased(m)
    <2>1. PICK report \in {"completed", "failed", "retried"} :
            r.status = "claimed" /\ Reported(s, r.claim_token, report, z)
      BY <1>8 DEF RowFinished, RowReleased
    <2>2. /\ Len(z) = n /\ r.claim_token = n /\ s[n].report = "none"
          /\ \A k \in 1 .. n : z[k] = IF k = n THEN [s[k] EXCEPT !.report = report] ELSE s[k]
      BY <1>1, <2>1 DEF Reported, RowInv, RunsFit
    <2>3. s[t] \in Run
      BY <1>1, ElementOfSeq
    <2>4. z[t].by = d
      BY <1>1, <2>2, <2>3 DEF Run
    <2>5. ~ Holds(r, d, t) => t # n /\ ~ Holds(missions'[m], d, t)
      BY <1>4, <1>5, <2>1, <2>2
    <2>6. t # n => z[t] = s[t]
      BY <1>1, <2>2
    <2>7. t \in Given(m, d)' /\ n <= Len(z)
      BY <1>1, <2>2, <2>4 DEF Given
    <2> QED
      BY <2>2, <2>5, <2>6, <2>7
  <1> QED
    BY <1>6, <1>7, <1>8, RowSteps
       DEF RowStep, RowKept, RowPosted, RowRenewed, RowCancelled, RowSwept

----------------------------------------------------------------------------
\* Backoffs.

Due(r, at) == r.status = "claimed" => r.not_before <= at

LEMMA DueStep ==
  ASSUME TypeOK, BackoffHonoured, [Next]_vars, NEW m \in Missions
  PROVE  Due(missions'[m], now')
  <1>1. /\ missions[m] \in Row /\ runs[m] \in Seq(Run)
        /\ now \in Nat /\ now' \in Nat /\ now <= now'
    BY RowSteps DEF TypeOK
  <1>2. CASE RowKept(m)
    BY <1>1, <1>2 DEF RowKept, BackoffHonoured, Due, Row
  <1>3. CASE RowPosted(m)
    BY <1>3 DEF RowPosted, PostedRow, Due
  <1>4. CASE RowGranted(m)
    <2>1. PICK at \in Moments : missions[m].not_before <= at
      BY <1>4, GrantedRow DEF Claimable
    <2>2. missions'[m].not_before = missions[m].not_before
      BY <1>4, GrantedRow
    <2>3. at \in Nat /\ at <= now
      BY <2>1, MomentsType
    <2> QED
      BY <1>1, <2>1, <2>2, <2>3 DEF Due, Row
  <1>5. CASE RowRenewed(m)
    <2>1. /\ missions'[m].not_before = missions[m].not_before
          /\ missions[m].status = "claimed"
      BY <1>1, <1>5 DEF RowRenewed, Renewed, Row
    <2> QED
      BY <1>1, <2>1 DEF BackoffHonoured, Due, Row
  <1>6. CASE RowFinished(m) \/ RowReleased(m) \/ RowCancelled(m) \/ RowSwept(m)
    <2>1. RowFinished(m) => missions'[m].status # "claimed"
      BY <1>1, FinishedType DEF RowFinished
    <2>2. RowReleased(m) => missions'[m].status # "claimed"
      BY <1>1, ReleasedType DEF RowReleased
    <2>3. RowCancelled(m) \/ RowSwept(m) => missions'[m].status # "claimed"
      BY <1>1, CancelledType, SweptType DEF RowCancelled, RowSwept
    <2> QED
      BY <1>6, <2>1, <2>2, <2>3 DEF Due
  <1> QED
    BY <1>2, <1>3, <1>4, <1>5, <1>6, RowSteps DEF RowStep

(* No mission is held before its not_before, whatever the delays, backoffs *)
(* and waits of statements are: neither the delay of a post nor the        *)
(* backoff of a retry can be claimed around.                               *)
THEOREM Backoff == Spec => []BackoffHonoured
  <1>1. Init => BackoffHonoured
    BY DEF Init, AbsentRow, BackoffHonoured
  <1>2. TypeOK /\ BackoffHonoured /\ [Next]_vars => BackoffHonoured'
    <2> SUFFICES ASSUME TypeOK, BackoffHonoured, [Next]_vars, NEW m \in Missions
                 PROVE  Due(missions'[m], now')
      BY DEF BackoffHonoured, Due
    <2> QED
      BY DueStep
  <1> QED
    BY <1>1, <1>2, TypeCorrect, PTL DEF Spec

----------------------------------------------------------------------------
\* The sweep's note.

Retried(s) == \E k \in 1 .. Len(s) : s[k].report = "retried"

\* What has to be kept from the retry on, and what the sweep then leaves.
ReportKept(r, s) ==
  /\ r.status \in {"absent", "open", "claimed"} =>
       /\ "exhausted" \notin r.error
       /\ Retried(s) => "reported" \in r.error
  /\ "exhausted" \in r.error =>
       /\ r.status = "failed" /\ r.attempts = r.max_attempts
       /\ Retried(s) => "reported" \in r.error

LEMMA ReportKeptStep ==
  ASSUME TypeOK, BoardInv, [Next]_vars, NEW m \in Missions,
         ReportKept(missions[m], runs[m])
  PROVE  ReportKept(missions'[m], runs'[m])
  <1>1. /\ missions[m] \in Row /\ runs[m] \in Seq(Run)
        /\ RowInv(missions[m], runs[m])
    BY DEF TypeOK, BoardInv
  <1>2. CASE RowKept(m)
    BY <1>2 DEF RowKept
  <1>3. CASE RowPosted(m)
    <2>1. runs'[m] = <<>> /\ Len(<<>>) = 0
      BY <1>1, <1>3, EmptySeq DEF RowPosted, RowInv, RunsFit
    <2>2. missions'[m].status = "open" /\ missions'[m].error = {}
      BY <1>3 DEF RowPosted, PostedRow
    <2> QED
      BY <2>1, <2>2 DEF ReportKept, Retried
  <1>4. CASE RowGranted(m)
    <2>1. PICK d \in Disciples : runs'[m] = Append(runs[m], [by |-> d, report |-> "none"])
      BY <1>4, GrantedRow
    <2>2. /\ missions'[m].status = "claimed"
          /\ missions'[m].error = missions[m].error
          /\ missions[m].status \in {"open", "claimed"}
      BY <1>4, GrantedRow DEF Claimable
    <2>3. Retried(runs'[m]) => Retried(runs[m])
      <3> SUFFICES ASSUME NEW k \in 1 .. Len(runs'[m]), runs'[m][k].report = "retried"
                   PROVE  k \in 1 .. Len(runs[m]) /\ runs[m][k] = runs'[m][k]
        BY DEF Retried
      <3>1. [by |-> d, report |-> "none"] \in Run
        BY DEF Run
      <3> QED
        BY <1>1, <2>1, <3>1, AppendProperties, LenProperties
    <2> QED
      BY <2>2, <2>3 DEF ReportKept
  <1>5. CASE RowRenewed(m)
    <2>1. /\ missions'[m].status = "claimed" /\ missions[m].status = "claimed"
          /\ missions'[m].error = missions[m].error /\ runs'[m] = runs[m]
      BY <1>1, <1>5 DEF RowRenewed, Renewed, Row
    <2> QED
      BY <2>1 DEF ReportKept
  <1>6. CASE RowFinished(m)
    <2>1. PICK outcome \in {"completed", "failed"}, error \in {{}, {"reported"}} :
            missions'[m] = Noted(missions[m], outcome, error)
      BY <1>6 DEF RowFinished
    <2>2. missions'[m].status = outcome /\ missions'[m].error = error
      BY <1>1, <2>1, FinishedType, ZenonT(40)
    <2> QED
      BY <2>1, <2>2 DEF ReportKept
  <1>7. CASE RowReleased(m)
    <2>1. missions'[m].status = "open" /\ missions'[m].error = {"reported"}
      <3>1. PICK until \in Nat : missions'[m] = ReleasedRow(missions[m], until)
        BY <1>7 DEF RowReleased
      <3>2. missions[m] \in Row
        BY <1>1
      <3> QED
        BY <3>1, <3>2, ReleasedType
    <2> QED
      BY <2>1 DEF ReportKept
  <1>8. CASE RowCancelled(m)
    <2>1. /\ missions'[m].status = "cancelled"
          /\ missions'[m].error = missions[m].error
      BY <1>1, <1>8, CancelledType DEF RowCancelled
    <2> QED
      BY <1>8, <2>1 DEF RowCancelled, Cancellable, Pending, ReportKept
  <1>9. CASE RowSwept(m)
    <2>1. /\ missions'[m].status = "failed" /\ runs'[m] = runs[m]
          /\ missions'[m].error = missions[m].error \cup {"exhausted"}
          /\ missions'[m].attempts = missions[m].attempts
          /\ missions'[m].max_attempts = missions[m].max_attempts
      BY <1>1, <1>9, SweptType DEF RowSwept
    <2>2. missions[m].status = "claimed" /\ missions[m].attempts = missions[m].max_attempts
      BY <1>1, <1>9 DEF RowSwept, Exhausted, RowInv, RunsFit, Row
    <2> QED
      BY <2>1, <2>2 DEF ReportKept
  <1> QED
    BY <1>2, <1>3, <1>4, <1>5, <1>6, <1>7, <1>8, <1>9, RowSteps DEF RowStep

(* A mission that was retried and then abandoned fails with both what its  *)
(* disciple said and the sweep's note, and only once its attempts are all  *)
(* used.                                                                   *)
THEOREM SweepNote == Spec => []SweepKeepsReport
  <1> DEFINE Kept == \A m \in Missions : ReportKept(missions[m], runs[m])
  <1>1. Init => Kept
    <2>1. Len(<<>>) = 0
      BY EmptySeq
    <2> QED
      BY <2>1 DEF Init, AbsentRow, ReportKept, Retried
  <1>2. TypeOK /\ BoardInv /\ Kept /\ [Next]_vars => Kept'
    BY ReportKeptStep
  <1>3. Kept => SweepKeepsReport
    BY DEF ReportKept, Retried, SweepKeepsReport
  <1> HIDE DEF Kept
  <1> QED
    BY <1>1, <1>2, <1>3, BoardCorrect, PTL DEF Spec

----------------------------------------------------------------------------
\* The stored reputation.

AccountInv(a) ==
  /\ a.reputation = Reputation(a.points, a.completed, a.failed)
  /\ Penalty >= 0 => a.points <= a.completed

LEMMA Division ==
  ASSUME NEW x \in Nat, NEW n \in Nat, n # 0
  PROVE  /\ x \div n \in Nat
         /\ (x \div n) * n <= x
         /\ x < (x \div n + 1) * n
  OBVIOUS

\* However its product rounds, the floor is off by at most what the two
\* branches of Reputation allow.
LEMMA ReputationBounds ==
  ASSUME NEW p \in Nat, NEW c \in Nat, NEW f \in Nat
  PROVE  /\ Reputation(p, c, f) * (c + f) <= p * c
         /\ p * c <= (Reputation(p, c, f) + 1) * (c + f)
  <1>1. CASE c = 0
    <2>1. Reputation(p, c, f) = 0 /\ p * c = 0
      BY <1>1 DEF Reputation
    <2> QED
      BY <2>1
  <1>2. CASE c # 0
    <2> DEFINE n     == c + f
               x     == p * c
               whole == x \div n
               r     == Reputation(p, c, f)
    <2>1. n \in Nat /\ n # 0 /\ x \in Nat
      BY <1>2
    <2>2. whole \in Nat /\ whole * n <= x /\ x < (whole + 1) * n
      BY <2>1, Division
    <2>3. \/ r = whole
          \/ r = whole - 1 /\ ~ (whole * n < x)
      BY <1>2 DEF Reputation
    <2> HIDE DEF n, x, whole, r
    <2>4. r = whole => r * n <= x /\ x <= (r + 1) * n
      BY <2>1, <2>2
    <2>5. ASSUME r = whole - 1, ~ (whole * n < x)
          PROVE  r * n <= x /\ x <= (r + 1) * n
      <3>1. whole * n = x /\ r + 1 = whole
        BY <2>1, <2>2, <2>5
      <3>2. r * n = x - n
        BY <2>1, <2>2, <2>5, <3>1
      <3> QED
        BY <2>1, <2>2, <3>1, <3>2
    <2>6. r * n <= x /\ x <= (r + 1) * n
      BY <2>3, <2>4, <2>5
    <2> QED
      BY <2>6 DEF n, x, r
  <1> QED
    BY <1>1, <1>2

LEMMA AccountKept ==
  ASSUME NEW a \in Account, AccountInv(a)
  PROVE  AccountInv(Credited(a)) /\ AccountInv(Debited(a))
  <1>1. a.points \in Nat /\ a.completed \in Nat
    BY DEF Account
  <1> QED
    BY <1>1, PenaltyAssumption DEF AccountInv, Credited, Debited

LEMMA LedgerSteps ==
  ASSUME TypeOK, [Next]_vars, NEW d \in Disciples
  PROVE  ledger'[d] \in {ledger[d], Credited(ledger[d]), Debited(ledger[d])}
  <1>1. ASSUME NEW m \in Missions, NEW e \in Disciples, NEW t \in Given(m, e),
               HolderStep(m, e, t)
        PROVE  ledger'[d] \in {ledger[d], Credited(ledger[d]), Debited(ledger[d])}
    BY <1>1 DEF HolderStep, Heartbeat, Complete, FailRetry, FailTerminal, TypeOK
  <1> QED
    BY <1>1 DEF Next, MissionStep, Post, Cancel, ClaimStep, Claim, ClaimHeld,
                ClaimNext, Grant, Sweep, Tick, vars

(* The stored reputation is always what double precision makes of the      *)
(* counters stored beside it: at most points * success rate, and at most   *)
(* one below that.  And no penalty, once a point is lost, makes a disciple *)
(* worth more than the missions it completed.                              *)
THEOREM StoredReputation == Spec => []ReputationIsCurrent
  <1> DEFINE Current == \A d \in Disciples : AccountInv(ledger[d])
  <1>1. Init => Current
    BY DEF Init, NewAccount, AccountInv, Reputation
  <1>2. TypeOK /\ Current /\ [Next]_vars => Current'
    <2> SUFFICES ASSUME TypeOK, Current, [Next]_vars, NEW d \in Disciples
                 PROVE  AccountInv(ledger'[d])
      OBVIOUS
    <2>1. ledger[d] \in Account
      BY DEF TypeOK
    <2> QED
      BY <2>1, AccountKept, LedgerSteps
  <1>3. TypeOK /\ Current => ReputationIsCurrent
    <2> SUFFICES ASSUME TypeOK, Current, NEW d \in Disciples
                 PROVE  LET a == ledger[d]
                            n == a.completed + a.failed
                        IN  /\ a.reputation = Reputation(a.points, a.completed, a.failed)
                            /\ a.reputation * n <= a.points * a.completed
                            /\ a.points * a.completed <= (a.reputation + 1) * n
                            /\ Penalty >= 0 => a.points <= a.completed
      BY DEF ReputationIsCurrent
    <2>1. /\ ledger[d].points \in Nat /\ ledger[d].completed \in Nat
          /\ ledger[d].failed \in Nat
      BY DEF TypeOK, Account
    <2>2. AccountInv(ledger[d])
      OBVIOUS
    <2> QED
      BY <2>1, <2>2, ReputationBounds DEF AccountInv
  <1> HIDE DEF Current
  <1> QED
    BY <1>1, <1>2, <1>3, TypeCorrect, PTL DEF Spec

----------------------------------------------------------------------------
\* Leases.

LEMMA LeaseStep ==
  ASSUME TypeOK, BoardInv, [Next]_vars, NEW m \in Missions,
         missions[m].status = "claimed", missions[m].lease_expires_at > now
  PROVE  /\ runs'[m] = runs[m] =>
              /\ missions'[m].status \in {"claimed", "cancelled"}
              /\ missions'[m].claimed_by = missions[m].claimed_by
         /\ Len(runs'[m]) = Len(runs[m])
  <1>1. /\ missions[m] \in Row /\ runs[m] \in Seq(Run) /\ now \in Nat
        /\ RowInv(missions[m], runs[m])
    BY DEF TypeOK, BoardInv
  <1>2. \A at \in Moments : ~ (missions[m].lease_expires_at <= at)
    BY <1>1, MomentsType DEF Row
  <1>3. ~ RowPosted(m) /\ ~ RowGranted(m) /\ ~ RowSwept(m)
    BY <1>2 DEF RowPosted, RowGranted, RowSwept, Claimable, Exhausted
  <1>4. CASE RowKept(m)
    BY <1>4 DEF RowKept
  <1>5. CASE RowRenewed(m)
    BY <1>1, <1>5 DEF RowRenewed, Renewed, Row
  <1>6. CASE RowFinished(m) \/ RowReleased(m)
    <2>1. PICK report \in {"completed", "failed", "retried"} :
            Reported(runs[m], missions[m].claim_token, report, runs'[m])
      BY <1>6 DEF RowFinished, RowReleased
    <2>2. runs[m][Len(runs[m])].report = "none"
      BY <1>1 DEF RowInv, RunsFit
    <2>3. Len(runs'[m]) = Len(runs[m])
      BY <2>1 DEF Reported
    <2>4. runs'[m][Len(runs'[m])].report = report
      <3> DEFINE r == missions[m]
                 s == runs[m]
                 z == runs'[m]
      <3>1. r \in Row /\ s \in Seq(Run) /\ RowInv(r, s) /\ r.status = "claimed"
        BY <1>1
      <3>2. Reported(s, r.claim_token, report, z)
        BY <2>1
      <3> HIDE DEF r, s, z
      <3>3. z[Len(z)].report = report
        BY <3>1, <3>2, ReportedRuns, ZenonT(40)
      <3> QED
        BY <3>3 DEF z
    <2> QED
      BY <2>2, <2>3, <2>4
  <1>7. CASE RowCancelled(m)
    <2>1. CancelledRow(missions[m]).claimed_by = missions[m].claimed_by
      BY <1>1 DEF CancelledRow, Unleased, Row
    <2> QED
      BY <1>1, <1>7, <2>1, CancelledType DEF RowCancelled
  <1> QED
    BY <1>3, <1>4, <1>5, <1>6, <1>7, RowSteps DEF RowStep

Protects ==
  \A m \in Missions :
    missions[m].status = "claimed" /\ missions[m].lease_expires_at > now =>
      /\ runs'[m] = runs[m] =>
           /\ missions'[m].status \in {"claimed", "cancelled"}
           /\ missions'[m].claimed_by = missions[m].claimed_by
      /\ Len(runs'[m]) = Len(runs[m])

(* While a lease runs no step hands the mission to anybody else, and only  *)
(* its holder's report or the master's cancel takes it from the holder,    *)
(* however statements are delayed on row locks.                            *)
THEOREM LeaseHolds == Spec => LeaseProtectsHolder
  <1>1. TypeOK /\ BoardInv /\ [Next]_vars => [Protects]_vars
    BY LeaseStep DEF Protects
  <1> QED
    BY <1>1, BoardCorrect, PTL DEF Spec, LeaseProtectsHolder, Protects
----------------------------------------------------------------------------
\* The abstract board, action by action.

LEMMA OneStatus ==
  ASSUME NEW m \in Missions, Only(m), NEW s, missions'[m].status = s
  PROVE  Board!Become(m, s)
  BY DEF Only, Board!Become

LEMMA SameBudget ==
  ASSUME NEW m \in Missions, Only(m),
         missions'[m].max_attempts = missions[m].max_attempts
  PROVE  UNCHANGED [n \in Missions |-> missions[n].max_attempts]
  BY DEF Only

\* Only the row's own wait can begin or end.
LEMMA OneWait ==
  ASSUME NEW m \in Missions, Only(m)
  PROVE  /\ Board!StartWait(m)
         /\ missions'[m].status \in Terminal => Board!EndWait({m})
  <1>1. \A n \in Missions \ {m} : n \in Ripe' <=> n \in Ripe
    BY DEF Only, Ripe
  <1>2. Ripe \subseteq Missions /\ Ripe' \subseteq Missions
    BY DEF Ripe
  <1>3. Ripe' \in {Ripe \ {m}, Ripe \cup {m}}
    <2>1. CASE m \in Ripe'
      BY <1>1, <1>2, <2>1
    <2>2. CASE m \notin Ripe'
      BY <1>1, <1>2, <2>2
    <2> QED
      BY <2>1, <2>2
  <1>4. missions'[m].status \in Terminal => m \notin Ripe'
    BY DEF Ripe, Terminal
  <1> QED
    BY <1>1, <1>2, <1>3, <1>4 DEF Board!StartWait, Board!EndWait

LEMMA SameRuns ==
  ASSUME TypeOK, TypeOK', NEW m \in Missions, Only(m), runs'[m] = runs[m]
  PROVE  runs' = runs
  BY DEF Only, TypeOK

\* A report on a claimed row's own token is one on its newest run.
LEMMA OneReport ==
  ASSUME TypeOK, TypeOK', BoardInv, NEW m \in Missions, Only(m),
         missions[m].status = "claimed", NEW report \in Reports,
         Reported(runs[m], missions[m].claim_token, report, runs'[m])
  PROVE  Board!Report(m, report)
  <1> DEFINE s == runs[m]
             e == [s[Len(s)] EXCEPT !.report = report]
             z == [s EXCEPT ![Len(s)] = e]
  <1>1. /\ s \in Seq(Run) /\ missions[m].claim_token = Len(s)
        /\ Len(s) \in 1 .. Len(s)
    <2>1. /\ s \in Seq(Run) /\ s # <<>> /\ missions[m].claim_token = Len(s)
      BY DEF TypeOK, BoardInv, RowInv, RunsFit
    <2> QED
      BY <2>1, EmptySeq, LenProperties
  <1>2. e \in Run
    <2>1. s[Len(s)] \in Run
      BY <1>1, ElementOfSeq
    <2> QED
      BY <2>1 DEF Run, Reports
  <1>3. /\ z \in Seq(Run) /\ Len(z) = Len(s)
        /\ \A k \in 1 .. Len(s) : z[k] = IF k = Len(s) THEN e ELSE s[k]
    BY <1>1, <1>2, ExceptSeq
  <1>4. runs'[m] \in Seq(Run) /\ Len(runs'[m]) = Len(s)
    BY DEF Reported
  <1>5. \A k \in 1 .. Len(z) : runs'[m][k] = z[k]
    BY <1>1, <1>3 DEF Reported
  <1>6. runs'[m] = z
    <2> HIDE DEF z, s
    <2> QED
      BY <1>3, <1>4, <1>5, SeqEqual
  <1>7. runs' = [runs EXCEPT ![m] = z]
    BY <1>6 DEF Only, TypeOK
  <1> QED
    BY <1>7 DEF Board!Report

LEMMA AbstractPost ==
  ASSUME TypeOK, TypeOK', NEW m \in Missions, Only(m), RowPosted(m)
  PROVE  Board!Next
  <1>1. PICK cap \in AttemptCaps :
          missions'[m].status = "open" /\ missions'[m].max_attempts = cap
    BY DEF RowPosted, PostedRow
  <1>2. [n \in Missions |-> missions[n].max_attempts]' =
          [[n \in Missions |-> missions[n].max_attempts] EXCEPT ![m] = cap]
    BY <1>1 DEF Only
  <1>3. Board!Become(m, "open")
    BY <1>1, OneStatus
  <1>4. Board!StartWait(m)
    BY OneWait
  <1>5. missions[m].status = "absent" /\ runs' = runs
    BY SameRuns DEF RowPosted
  <1>6. Board!Post(m, cap)
    BY <1>2, <1>3, <1>4, <1>5 DEF Board!Post
  <1> QED
    BY <1>6 DEF Board!Next

LEMMA AbstractStart ==
  ASSUME TypeOK, TypeOK', BoardInv, NEW m \in Missions, Only(m), RowGranted(m)
  PROVE  Board!Next
  <1>1. PICK at \in Moments : Claimable(missions[m], at)
    BY GrantedRow
  <1>2. PICK d \in Disciples : runs'[m] = Append(runs[m], [by |-> d, report |-> "none"])
    BY GrantedRow
  <1>3. /\ missions'[m].status = "claimed"
        /\ missions'[m].max_attempts = missions[m].max_attempts
    BY GrantedRow
  <1>4. missions[m].status \in Board!Pending /\ ~ Board!Spent(m)
    BY <1>1, BoardFacts DEF Claimable, Board!Pending, Board!Spent
  <1>5. m \in Ripe
    BY <1>1, MomentsType, BoardFacts DEF Claimable, Ripe, Row
  <1>6. runs' = [runs EXCEPT ![m] = Append(@, [by |-> d, report |-> "none"])]
    BY <1>2 DEF Only, TypeOK
  <1>7. Board!Become(m, "claimed")
    BY <1>3, OneStatus
  <1>8. Board!StartWait(m)
    BY OneWait
  <1>9. UNCHANGED [n \in Missions |-> missions[n].max_attempts]
    BY <1>3, SameBudget
  <1>10. Board!Start(m, d)
    BY <1>4, <1>5, <1>6, <1>7, <1>8, <1>9 DEF Board!Start
  <1> QED
    BY <1>10 DEF Board!Next

LEMMA AbstractRenew ==
  ASSUME TypeOK, TypeOK', NEW m \in Missions, Only(m), RowRenewed(m)
  PROVE  Board!Next
  <1>1. /\ missions'[m].status = missions[m].status
        /\ missions'[m].max_attempts = missions[m].max_attempts
    BY DEF RowRenewed, Renewed, TypeOK, Row
  <1>2. UNCHANGED [n \in Missions |-> missions[n].status]
    BY <1>1 DEF Only
  <1>3. Board!Renew(m)
    BY <1>1, <1>2, OneWait, SameBudget, SameRuns DEF RowRenewed, Board!Renew
  <1> QED
    BY <1>3 DEF Board!Next

LEMMA AbstractFinish ==
  ASSUME TypeOK, TypeOK', BoardInv, NEW m \in Missions, Only(m), RowFinished(m)
  PROVE  Board!Next
  <1>1. PICK outcome \in {"completed", "failed"}, error \in {{}, {"reported"}} :
          /\ missions'[m] = Noted(missions[m], outcome, error)
          /\ Reported(runs[m], missions[m].claim_token, outcome, runs'[m])
    BY DEF RowFinished
  <1>2. /\ missions'[m].status = outcome
        /\ missions'[m].max_attempts = missions[m].max_attempts
    <2>1. outcome \in Pending \cup Terminal /\ error \in SUBSET Notes
      BY DEF Terminal, Notes
    <2>2. missions[m] \in Row
      BY DEF TypeOK
    <2> QED
      BY <1>1, <2>1, <2>2, NotedType
  <1>3. Board!Report(m, outcome)
    BY <1>1, OneReport DEF RowFinished, Reports
  <1>4. Board!EndWait({m})
    BY <1>2, OneWait DEF Terminal
  <1>5. Board!Become(m, outcome)
    BY <1>2, OneStatus
  <1>6. UNCHANGED [n \in Missions |-> missions[n].max_attempts]
    BY <1>2, SameBudget
  <1>7. missions[m].status = "claimed"
    BY DEF RowFinished
  <1>8. Board!Finish(m, outcome)
    BY <1>3, <1>4, <1>5, <1>6, <1>7 DEF Board!Finish
  <1> QED
    BY <1>8 DEF Board!Next

LEMMA AbstractRetry ==
  ASSUME TypeOK, TypeOK', BoardInv, NEW m \in Missions, Only(m), RowReleased(m)
  PROVE  Board!Next
  <1>1. /\ missions'[m].status = "open"
        /\ missions'[m].max_attempts = missions[m].max_attempts
    <2>1. missions[m] \in Row
      BY DEF TypeOK
    <2> QED
      BY <2>1, ReleasedType DEF RowReleased
  <1>2. Board!Report(m, "retried")
    BY OneReport DEF RowReleased, Reports
  <1>3. ~ Board!Spent(m)
    BY BoardFacts DEF RowReleased, Board!Spent
  <1>4. Board!Become(m, "open")
    BY <1>1, OneStatus
  <1>5. Board!StartWait(m)
    BY OneWait
  <1>6. UNCHANGED [n \in Missions |-> missions[n].max_attempts]
    BY <1>1, SameBudget
  <1>7. missions[m].status = "claimed"
    BY DEF RowReleased
  <1>8. Board!Retry(m)
    BY <1>2, <1>3, <1>4, <1>5, <1>6, <1>7 DEF Board!Retry
  <1> QED
    BY <1>8 DEF Board!Next

LEMMA AbstractCancel ==
  ASSUME TypeOK, TypeOK', NEW m \in Missions, Only(m), RowCancelled(m)
  PROVE  Board!Next
  <1>1. /\ missions'[m].status = "cancelled"
        /\ missions'[m].max_attempts = missions[m].max_attempts
    BY CancelledType DEF RowCancelled, TypeOK
  <1>2. Board!EndWait({m})
    BY <1>1, OneWait DEF Terminal
  <1>3. missions[m].status \in Board!Pending
    BY DEF RowCancelled, Cancellable, Pending, Board!Pending
  <1>4. Board!Become(m, "cancelled")
    BY <1>1, OneStatus
  <1>5. UNCHANGED [n \in Missions |-> missions[n].max_attempts]
    BY <1>1, SameBudget
  <1>6. runs' = runs
    BY SameRuns DEF RowCancelled
  <1>7. Board!Cancel(m)
    BY <1>2, <1>3, <1>4, <1>5, <1>6 DEF Board!Cancel
  <1> QED
    BY <1>7 DEF Board!Next

LEMMA AbstractExhaust ==
  ASSUME TypeOK, BoardInv, NEW at \in Moments, NEW S \in SUBSET Missions, Sweep(at, S)
  PROVE  Board!Next
  <1>1. /\ \A m \in S : Exhausted(missions[m], at) /\ missions'[m] = SweptRow(missions[m])
        /\ \A m \in Missions \ S : missions'[m] = missions[m]
        /\ now' = now /\ runs' = runs /\ S # {}
    BY DEF Sweep
  <1>2. \A m \in S : /\ missions'[m].status = "failed"
                     /\ missions'[m].max_attempts = missions[m].max_attempts
    BY <1>1, SweptType DEF TypeOK
  <1>3. S \subseteq Board!Exhausted
    <2> SUFFICES ASSUME NEW m \in S
                 PROVE  m \in Board!Exhausted
      OBVIOUS
    <2>1. Board!Spent(m)
      BY <1>1, BoardFacts DEF Exhausted, Board!Spent
    <2>2. m \in Ripe
      BY <1>1, BoardFacts, MomentsType DEF Exhausted, Ripe, Row
    <2> QED
      BY <1>1, <2>1, <2>2 DEF Exhausted, Board!Exhausted
  <1>4. [m \in Missions |-> missions[m].status]' =
          [m \in Missions |-> IF m \in S THEN "failed"
                             ELSE [n \in Missions |-> missions[n].status][m]]
    BY <1>1, <1>2
  <1>5. UNCHANGED [m \in Missions |-> missions[m].max_attempts]
    BY <1>1, <1>2
  <1>6. Board!EndWait(S)
    BY <1>1, <1>2 DEF Ripe, Board!EndWait
  <1>7. Board!Exhaust(S)
    BY <1>1, <1>3, <1>4, <1>5, <1>6 DEF Board!Exhaust
  <1> QED
    BY <1>7 DEF Board!Next

LEMMA AbstractPass ==
  ASSUME TypeOK, missions' = missions, runs' = runs, now' \in {now, now + 1}
  PROVE  [Board!Next]_(Board!vars)
  <1>1. Ripe \subseteq Ripe'
    BY DEF Ripe, TypeOK, Row
  <1>2. Ripe' \ Ripe \subseteq
          {m \in Missions \ Ripe : [n \in Missions |-> missions[n].status][m] \in Board!Pending}
    BY DEF Ripe, Board!Pending
  <1>3. CASE Ripe' = Ripe
    BY <1>3 DEF Board!vars
  <1>4. CASE Ripe' # Ripe
    <2>1. Board!Pass(Ripe' \ Ripe)
      BY <1>1, <1>2, <1>4 DEF Board!Pass
    <2>2. Ripe' \ Ripe \in SUBSET Missions
      BY DEF Ripe
    <2> QED
      BY <2>1, <2>2 DEF Board!Next
  <1> QED
    BY <1>3, <1>4

LEMMA AbstractStep ==
  TypeOK /\ TypeOK' /\ BoardInv /\ [Next]_vars => [Board!Next]_(Board!vars)
  BY Steps, AbstractPost, AbstractStart, AbstractRenew, AbstractFinish,
     AbstractRetry, AbstractCancel, AbstractExhaust, AbstractPass

(* Every statement of core/sql.py is a step of the abstract board, or      *)
(* changes nothing it shows.  What Lifecycle promises of every mission     *)
(* therefore holds of the rows, tokens and leases that implement it.       *)
THEOREM ImplementsLifecycle == Spec => BoardSpec
  <1>1. Init => Board!Init
    BY DEF Init, AbsentRow, Ripe, Board!Init
  <1>2. TypeOK /\ BoardInv /\ [Next]_vars => TypeOK'
    BY TypeStep
  <1> QED
    BY <1>1, <1>2, AbstractStep, BoardCorrect, PTL DEF Spec, BoardSpec, Board!Spec
=============================================================================
