--------------------------- MODULE RunOnceProofs ---------------------------
(***************************************************************************)
(* Proofs about RunOnce, for any processes, retries and boards: workers    *)
(* and handlers over a wire that loses, delays and repeats change the      *)
(* board only by the steps of MissionHall, and what a process is told      *)
(* about its report is true.                                               *)
(*                                                                         *)
(* A process is told things about a past it cannot see, so the invariant   *)
(* ties each process and each copy of a request to the history of the      *)
(* board: a token a process has was given to its disciple (HasToken); a    *)
(* report that found its token not to hold is looked into with that token  *)
(* dead for good (RequestOK); an answer stays what the history says.       *)
(*                                                                         *)
(* That no two processes hold one token needs more than the code has: that *)
(* who claims by id shares its disciple with nobody (OneClaimant).         *)
(***************************************************************************)
EXTENDS RunOnce, BoardProofs

OnRun(c) == runs[c.mission][c.token].report

\* A process in state c was given its token.
HasToken(p, c) == c.mission \in Missions /\ c.token \in Given(c.mission, OwnerOf[p])

\* Reports of op, as they are recorded.
Accepted(op) ==
  CASE op = "complete"       -> {"completed"}
    [] op = "fail"           -> {"retried", "failed"}
    [] op = "fail-permanent" -> {"failed"}

\* The status that a reason says the mission has, for good.
EndOf == [answer \in {"cancelled", "already_failed", "already_completed"} |->
            CASE answer = "cancelled" -> "cancelled"
              [] answer = "already_failed" -> "failed"
              [] OTHER -> "completed"]

\* What a process in state c was told of its report is true.
ToldTruth(p, c) ==
  /\ c.answer = "ok" => OnRun(c) \in Accepted(c.op)
  /\ c.answer \in Reasons =>
       /\ ~ Holds(missions[c.mission], OwnerOf[p], c.token)
       /\ c.op = "complete" => OnRun(c) # "completed"
       /\ c.answer \in DOMAIN EndOf =>
            missions[c.mission].status = EndOf[c.answer]
       /\ c.answer = "reclaimed" => Len(runs[c.mission]) > c.token
       /\ c.answer = "lease_expired" =>
            OnRun(c) = "retried" \/ Len(runs[c.mission]) > c.token

ProcessOK(p, c) ==
  /\ c.pc # "over" => c.answer = "none"
  /\ c.pc = "ready" => c.token = NoToken
  /\ c.pc \in {"ready", "working"} => c.op \in ClaimOps
  /\ c.op \in ClaimOps => (c.op = "claim" <=> p \in ById)
  /\ c.pc = "calling" /\ c.op = "claim" => c.mission \in Missions
  /\ c.pc = "working" \/ c.op \in ReportOps => c.token # NoToken
  /\ c.token # NoToken => HasToken(p, c)
  /\ c.op \in ReportOps => ToldTruth(p, c)

\* The copy of a report is its sender's, who sends no other; c is the sender.
RequestOK(q, c) ==
  /\ q.op = "claim" => q.mission \in Missions
  /\ q.op = "claim-next" => q.stage # "inspect"
  /\ q.op \in ClaimOps => (q.op = "claim" <=> q.by \in ById)
  /\ q.op \in ReportOps =>
       /\ c.op = q.op /\ c.mission = q.mission /\ c.token = q.token
       /\ q.stage = "inspect" => ~ Holds(missions[q.mission], OwnerOf[q.by], q.token)

RunOnceInv ==
  /\ RunOnceTypeOK /\ BoardInv
  /\ \A p \in Procs : ProcessOK(p, procs[p])
  /\ \A q \in requests : RequestOK(q, procs[q.by])

----------------------------------------------------------------------------
\* What the board does leaves this true.

LEMMA TokenTypes ==
  ASSUME TypeOK, NEW p \in Procs, NEW c \in Proc, HasToken(p, c)
  PROVE  /\ c.mission \in Missions /\ OwnerOf[p] \in Disciples
         /\ runs[c.mission] \in Seq(Run) /\ Len(runs[c.mission]) \in Nat
         /\ c.token \in 1 .. Len(runs[c.mission])
         /\ runs[c.mission][c.token] \in Run
         /\ runs[c.mission][c.token].by = OwnerOf[p]
  <1>1. c.mission \in Missions /\ c.token \in Given(c.mission, OwnerOf[p])
    BY DEF HasToken
  <1>2. runs[c.mission] \in Seq(Run) /\ Len(runs[c.mission]) \in Nat
    BY <1>1, RowTypes, LenProperties
  <1>3. c.token \in 1 .. Len(runs[c.mission]) /\ runs[c.mission][c.token].by = OwnerOf[p]
    BY <1>1 DEF Given
  <1>4. runs[c.mission][c.token] \in Run
    BY <1>2, <1>3, ElementOfSeq
  <1> QED
    BY <1>1, <1>2, <1>3, <1>4, ProcsAssumption

LEMMA TokenStays ==
  ASSUME TypeOK, BoardInv, [Next]_vars, NEW p \in Procs, NEW c \in Proc, HasToken(p, c)
  PROVE  /\ HasToken(p, c)'
         /\ Len(runs[c.mission]) <= Len(runs'[c.mission])
         /\ OnRun(c) # "none" => OnRun(c)' = OnRun(c)
         /\ ~ Holds(missions[c.mission], OwnerOf[p], c.token) =>
              /\ ~ Holds(missions'[c.mission], OwnerOf[p], c.token)
              /\ OnRun(c)' = OnRun(c)
  <1>1. PICK m \in Missions : m = c.mission
    BY DEF HasToken
  <1>2. PICK t \in Given(m, OwnerOf[p]) : t = c.token
    BY <1>1 DEF HasToken
  <1>3. /\ t \in Given(m, OwnerOf[p])' /\ Len(runs[m]) <= Len(runs'[m])
        /\ runs[m][t].report # "none" => runs'[m][t] = runs[m][t]
        /\ ~ Holds(missions[m], OwnerOf[p], t) =>
             ~ Holds(missions'[m], OwnerOf[p], t) /\ runs'[m][t] = runs[m][t]
    BY HistoryStep
  <1> QED
    BY <1>1, <1>2, <1>3 DEF HasToken, Given, OnRun

LEMMA EndStays ==
  ASSUME TypeOK, [Next]_vars, NEW m \in Missions, NEW answer \in DOMAIN EndOf,
         missions[m].status = EndOf[answer]
  PROVE  missions'[m].status = EndOf[answer]
  <1>1. EndOf[answer] \in Terminal
    BY DEF EndOf, Terminal
  <1> QED
    BY <1>1, FinalStep

LEMMA ProcessStays ==
  ASSUME RunOnceInv, [Next]_vars, NEW p \in Procs, NEW c \in Proc, ProcessOK(p, c)
  PROVE  ProcessOK(p, c)'
  <1>1. TypeOK /\ BoardInv
    BY DEF RunOnceInv, RunOnceTypeOK
  <1>2. CASE c.token = NoToken
    BY <1>2 DEF ProcessOK
  <1>3. CASE c.token # NoToken
    <2>1. HasToken(p, c)
      BY <1>3 DEF ProcessOK
    <2>2. /\ HasToken(p, c)' /\ Len(runs[c.mission]) <= Len(runs'[c.mission])
          /\ OnRun(c) # "none" => OnRun(c)' = OnRun(c)
          /\ ~ Holds(missions[c.mission], OwnerOf[p], c.token) =>
               /\ ~ Holds(missions'[c.mission], OwnerOf[p], c.token)
               /\ OnRun(c)' = OnRun(c)
      BY <1>1, <2>1, TokenStays
    <2>3. c.token \in Nat /\ Len(runs[c.mission]) \in Nat
      BY <1>1, <2>1, TokenTypes
    <2>4. Len(runs'[c.mission]) \in Nat
      BY <1>1, <2>2, TypeStep, LenProperties DEF HasToken, TypeOK
    <2>5. ASSUME c.op \in ReportOps
          PROVE  ToldTruth(p, c)'
      <3>1. ToldTruth(p, c)
        BY <2>5 DEF ProcessOK
      <3>2. "none" \notin Accepted(c.op)
        BY <2>5 DEF ReportOps, Accepted
      <3>3. c.answer = "ok" => OnRun(c)' \in Accepted(c.op)
        BY <2>2, <3>1, <3>2 DEF ToldTruth
      <3>4. c.answer \in Reasons =>
              /\ ~ Holds(missions'[c.mission], OwnerOf[p], c.token)
              /\ c.op = "complete" => OnRun(c)' # "completed"
        BY <2>2, <3>1 DEF ToldTruth
      <3>5. c.answer \in Reasons =>
              /\ c.answer = "reclaimed" => Len(runs'[c.mission]) > c.token
              /\ c.answer = "lease_expired" =>
                   OnRun(c)' = "retried" \/ Len(runs'[c.mission]) > c.token
        BY <2>2, <2>3, <2>4, <3>1 DEF ToldTruth
      <3>6. c.answer \in Reasons /\ c.answer \in DOMAIN EndOf =>
              missions'[c.mission].status = EndOf[c.answer]
        BY <1>1, <2>1, <3>1, EndStays DEF ToldTruth, HasToken
      <3> QED
        BY <3>3, <3>4, <3>5, <3>6 DEF ToldTruth
    <2> QED
      BY <2>2, <2>5 DEF ProcessOK
  <1> QED
    BY <1>2, <1>3

LEMMA RequestStays ==
  ASSUME RunOnceInv, [Next]_vars, NEW q \in requests, NEW c \in Proc,
         ProcessOK(q.by, c), RequestOK(q, c)
  PROVE  RequestOK(q, c)'
  <1>1. TypeOK /\ BoardInv /\ q.by \in Procs
    BY DEF RunOnceInv, RunOnceTypeOK, Request
  <1>2. ASSUME q.op \in ReportOps, q.stage = "inspect"
        PROVE  ~ Holds(missions'[q.mission], OwnerOf[q.by], q.token)
    <2>1. /\ HasToken(q.by, c) /\ c.mission = q.mission /\ c.token = q.token
          /\ ~ Holds(missions[q.mission], OwnerOf[q.by], q.token)
      BY <1>2 DEF ProcessOK, RequestOK
    <2> QED
      BY <1>1, <2>1, TokenStays
  <1> QED
    BY <1>2 DEF RequestOK

----------------------------------------------------------------------------
\* Steps, seen from the processes and the wire.

\* A process that has reported keeps what it reported.
Keeps(c, d) ==
  c.op \in ReportOps => d.op = c.op /\ d.mission = c.mission /\ d.token = c.token

LEMMA OneStep ==
  ASSUME RunOnceInv, [Next]_vars,
         procs' \in [Procs -> Proc], requests' \subseteq Request,
         \A p \in Procs : procs'[p] # procs[p] =>
           ProcessOK(p, procs[p])' /\ Keeps(procs[p], procs'[p]),
         \A q \in requests' : q \notin requests => RequestOK(q, procs[q.by])'
  PROVE  RunOnceInv'
  <1>1. TypeOK' /\ BoardInv'
    BY TypeStep, BoardStep DEF RunOnceInv, RunOnceTypeOK
  <1>2. ASSUME NEW p \in Procs
        PROVE  ProcessOK(p, procs[p])'
    <2>1. CASE procs'[p] # procs[p]
      BY <2>1
    <2>2. CASE procs'[p] = procs[p]
      <3>1. PICK c \in Proc : c = procs[p]
        BY DEF RunOnceInv, RunOnceTypeOK
      <3>2. ProcessOK(p, c)
        BY <3>1 DEF RunOnceInv
      <3>3. ProcessOK(p, c)'
        BY <3>2, ProcessStays
      <3>4. procs'[p] = c
        BY <2>2, <3>1
      <3> QED
        BY <3>3, <3>4
    <2> QED
      BY <2>1, <2>2
  <1>3. ASSUME NEW q \in requests', q \in requests
        PROVE  RequestOK(q, procs[q.by])'
    <2>1. q.by \in Procs
      BY <1>3 DEF RunOnceInv, RunOnceTypeOK, Request
    <2>2. PICK c \in Proc : c = procs[q.by]
      BY <2>1 DEF RunOnceInv, RunOnceTypeOK
    <2>3. ProcessOK(q.by, c) /\ RequestOK(q, c)
      BY <1>3, <2>1, <2>2 DEF RunOnceInv
    <2>4. RequestOK(q, c)'
      BY <1>3, <2>3, RequestStays
    <2>5. PICK d \in Proc : d = procs'[q.by]
      BY <2>1
    <2>6. Keeps(c, d)
      BY <2>1, <2>2, <2>5 DEF Keeps
    <2>7. RequestOK(q, d)'
      BY <2>3, <2>4, <2>6 DEF RequestOK, Keeps
    <2> QED
      BY <2>5, <2>7
  <1> QED
    BY <1>1, <1>2, <1>3 DEF RunOnceInv, RunOnceTypeOK

LEMMA Become ==
  ASSUME RunOnceInv, [Next]_vars, NEW p \in Procs, NEW c \in Proc,
         procs' = [procs EXCEPT ![p] = c], ProcessOK(p, c)', Keeps(procs[p], c),
         requests' \subseteq Request,
         \A q \in requests' : q \notin requests => RequestOK(q, procs[q.by])'
  PROVE  RunOnceInv'
  <1>1. procs \in [Procs -> Proc]
    BY DEF RunOnceInv, RunOnceTypeOK
  <1>2. procs' \in [Procs -> Proc] /\ procs'[p] = c
    BY <1>1
  <1>3. ASSUME NEW o \in Procs, procs'[o] # procs[o]
        PROVE  ProcessOK(o, procs[o])' /\ Keeps(procs[o], procs'[o])
    <2>1. o = p
      BY <1>1, <1>3
    <2> QED
      BY <1>2, <2>1
  <1> QED
    BY <1>2, <1>3, OneStep

\* The client sends.
LEMMA SendStep ==
  ASSUME RunOnceInv, NEW p \in Procs, NEW c \in Proc, c.pc = "calling",
         ProcessOK(p, c), Keeps(procs[p], c), Send(p, c)
  PROVE  RunOnceInv' /\ UNCHANGED vars
  <1>1. /\ procs' = [procs EXCEPT ![p] = c] /\ UNCHANGED vars
        /\ requests' = requests \cup {Message(p, c)}
    BY DEF Send
  <1>2. ProcessOK(p, c)'
    BY <1>1, ProcessStays
  <1>3. PICK q : q = Message(p, c)
    OBVIOUS
  <1>4. /\ q \in Request /\ q.by = p /\ q.op = c.op /\ q.mission = c.mission
        /\ q.token = c.token /\ q.stage # "inspect"
    BY <1>3 DEF Message, Request, Proc, Stages
  <1>5. RequestOK(q, c)'
    BY <1>4 DEF RequestOK, ProcessOK
  <1>6. procs'[p] = c /\ requests \subseteq Request
    BY <1>1 DEF RunOnceInv, RunOnceTypeOK
  <1>7. \A o \in requests' : o \notin requests => RequestOK(o, procs[o.by])'
    BY <1>1, <1>3, <1>4, <1>5, <1>6
  <1>8. requests' \subseteq Request
    BY <1>1, <1>3, <1>4, <1>6
  <1> QED
    BY <1>1, <1>2, <1>7, <1>8, Become

LEMMA AskStep ==
  ASSUME RunOnceInv, NEW p \in Procs, NEW m \in Missions \cup {NULL}, Ask(p, m)
  PROVE  RunOnceInv' /\ UNCHANGED vars
  <1>1. PICK b \in Proc : b = procs[p]
    BY DEF RunOnceInv, RunOnceTypeOK
  <1>2. ProcessOK(p, b) /\ b.pc = "ready"
    BY <1>1 DEF RunOnceInv, Ask
  <1>3. PICK c : c = [b EXCEPT !.pc = "calling", !.mission = m]
    OBVIOUS
  <1>4. /\ c \in Proc /\ c.pc = "calling" /\ c.mission = m /\ c.op = b.op
        /\ c.token = b.token /\ c.answer = b.answer
    BY <1>3 DEF Proc
  <1>5. p \in ById => m \in Missions
    BY DEF Ask
  <1>6. b.token = NoToken /\ b.answer = "none" /\ b.op \in ClaimOps
    BY <1>2 DEF ProcessOK
  <1>7. b.op \notin ReportOps
    BY <1>6 DEF ClaimOps, ReportOps
  <1>8. ProcessOK(p, c)
    BY <1>2, <1>4, <1>5, <1>6, <1>7 DEF ProcessOK
  <1>9. Send(p, c) /\ Keeps(procs[p], c)
    BY <1>1, <1>3, <1>7 DEF Ask, Keeps
  <1> QED
    BY <1>4, <1>8, <1>9, SendStep

LEMMA ReportStep ==
  ASSUME RunOnceInv, NEW p \in Procs, NEW op \in ReportOps, Report(p, op)
  PROVE  RunOnceInv' /\ UNCHANGED vars
  <1>1. PICK b \in Proc : b = procs[p]
    BY DEF RunOnceInv, RunOnceTypeOK
  <1>2. ProcessOK(p, b) /\ b.pc = "working"
    BY <1>1 DEF RunOnceInv, Report
  <1>3. PICK c : c = [b EXCEPT !.pc = "calling", !.op = op, !.try = 1]
    OBVIOUS
  <1>4. /\ c \in Proc /\ c.pc = "calling" /\ c.mission = b.mission /\ c.op = op
        /\ c.token = b.token /\ c.answer = b.answer
    BY <1>3 DEF Proc
  <1>5. b.token # NoToken /\ b.answer = "none" /\ b.op \notin ReportOps /\ HasToken(p, b)
    BY <1>2 DEF ProcessOK, ClaimOps, ReportOps
  <1>6. HasToken(p, c) /\ ToldTruth(p, c)
    BY <1>4, <1>5 DEF HasToken, ToldTruth, Reasons
  <1>7. op \notin ClaimOps /\ op # "claim"
    BY DEF ClaimOps, ReportOps
  <1>8. ProcessOK(p, c)
    BY <1>4, <1>5, <1>6, <1>7 DEF ProcessOK
  <1>9. Send(p, c) /\ Keeps(procs[p], c)
    BY <1>1, <1>3, <1>5 DEF Report, Keeps
  <1> QED
    BY <1>4, <1>8, <1>9, SendStep

\* Neither try nor pc matters to what is kept, but for the end.
LEMMA SameCall ==
  ASSUME NEW p \in Procs, NEW b \in Proc, NEW c \in Proc, ProcessOK(p, b),
         c.op = b.op, c.mission = b.mission, c.token = b.token, c.answer = b.answer,
         c.pc \in {b.pc, "over"}
  PROVE  ProcessOK(p, c) /\ Keeps(b, c)
  BY DEF ProcessOK, Keeps, HasToken, ToldTruth, OnRun

LEMMA RetryStep ==
  ASSUME RunOnceInv, NEW p \in Procs, Retry(p)
  PROVE  RunOnceInv' /\ UNCHANGED vars
  <1>1. PICK b \in Proc : b = procs[p]
    BY DEF RunOnceInv, RunOnceTypeOK
  <1>2. ProcessOK(p, b) /\ b.pc = "calling"
    BY <1>1 DEF RunOnceInv, Retry
  <1>3. PICK c : c = [b EXCEPT !.try = @ + 1]
    OBVIOUS
  <1>4. /\ c \in Proc /\ c.pc = "calling" /\ c.mission = b.mission /\ c.op = b.op
        /\ c.token = b.token /\ c.answer = b.answer
    BY <1>2, <1>3 DEF Proc
  <1>5. ProcessOK(p, c) /\ Keeps(b, c)
    BY <1>2, <1>4, SameCall
  <1>6. Send(p, c)
    BY <1>1, <1>3 DEF Retry
  <1> QED
    BY <1>1, <1>4, <1>5, <1>6, SendStep

LEMMA EndStep ==
  ASSUME RunOnceInv, NEW p \in Procs, GiveUp(p) \/ Crash(p)
  PROVE  RunOnceInv' /\ UNCHANGED vars
  <1>1. PICK b \in Proc : b = procs[p]
    BY DEF RunOnceInv, RunOnceTypeOK
  <1>2. ProcessOK(p, b) /\ requests \subseteq Request /\ procs \in [Procs -> Proc]
    BY <1>1 DEF RunOnceInv, RunOnceTypeOK
  <1>3. PICK c : c = IF Crash(p) THEN [b EXCEPT !.pc = "over"]
                     ELSE [b EXCEPT !.pc = "over", !.answer = "unavailable"]
    OBVIOUS
  <1>4. /\ c \in Proc /\ c.pc = "over" /\ c.mission = b.mission /\ c.op = b.op
        /\ c.token = b.token /\ c.answer \in {b.answer, "unavailable"}
    BY <1>3 DEF Proc, Answers
  <1>5. ProcessOK(p, c) /\ Keeps(b, c)
    <2>1. CASE c.answer = b.answer
      BY <1>2, <1>4, <2>1, SameCall
    <2>2. CASE c.answer = "unavailable"
      BY <1>2, <1>4, <2>2 DEF ProcessOK, Keeps, HasToken, ToldTruth, Reasons
    <2> QED
      BY <1>4, <2>1, <2>2
  <1>6. UNCHANGED vars /\ UNCHANGED requests /\ procs' = [procs EXCEPT ![p] = c]
    BY <1>1, <1>2, <1>3 DEF GiveUp, Crash
  <1>7. ProcessOK(p, c)'
    BY <1>4, <1>5, <1>6, ProcessStays
  <1> QED
    BY <1>1, <1>2, <1>4, <1>5, <1>6, <1>7, Become

----------------------------------------------------------------------------
\* The server's steps.

\* The token on a claimed row is the newest run's, its holder's, and unreported.
LEMMA Holder ==
  ASSUME NEW r \in Row, NEW s \in Seq(Run), RowInv(r, s), r.status = "claimed"
  PROVE  /\ r.claim_token = Len(s) /\ r.claim_token \in 1 .. Len(s)
         /\ s[r.claim_token].by = r.claimed_by /\ s[r.claim_token].report = "none"
  <1>1. Len(s) \in Nat /\ s # <<>>
    BY LenProperties DEF RowInv, RunsFit
  <1>2. Len(s) # 0
    BY <1>1, EmptySeq
  <1> QED
    BY <1>1, <1>2 DEF RowInv, RunsFit

\* Why a token does not hold.
LEMMA WhyNot ==
  ASSUME NEW r \in Row, NEW s \in Seq(Run), RowInv(r, s), NEW t \in 1 .. Len(s),
         ~ Holds(r, s[t].by, t)
  PROVE  /\ s[t].report = "completed" =>
              r.status = "completed" /\ r.claim_token = t /\ r.claimed_by = s[t].by
         /\ r.status = "claimed" => Len(s) > t
         /\ r.status = "completed" /\ r.claim_token = t => s[t].report = "completed"
         /\ r.status \in {"absent", "open"} => s[t].report = "retried" \/ Len(s) > t
  <1>1. Len(s) \in Nat /\ s # <<>>
    BY LenProperties, EmptySeq
  <1>2. t = Len(s) \/ t \in 1 .. Len(s) - 1
    BY <1>1
  <1>3. s[t].report = "completed" => t = Len(s)
    BY <1>2 DEF RowInv, RunsFit
  <1>4. s[Len(s)].report = "completed" => r.status = "completed"
    BY <1>1 DEF RowInv, RunsFit, Row, Pending, Terminal
  <1>5. r.status = "claimed" => Len(s) > t
    BY <1>1, <1>2 DEF RowInv, RunsFit, Holds, HeldBy
  <1>6. r.status \in {"absent", "open"} => s[t].report = "retried" \/ Len(s) > t
    BY <1>1, <1>2 DEF RowInv, RunsFit
  <1> QED
    BY <1>1, <1>3, <1>4, <1>5, <1>6 DEF RowInv, RunsFit

LEMMA AnswerStep ==
  ASSUME RunOnceInv, [Next]_vars, NEW q \in requests, NEW c, Answer(q, c),
         Awaited(q) => /\ c \in Proc /\ ProcessOK(q.by, c)' /\ Keeps(procs[q.by], c)
  PROVE  RunOnceInv'
  <1>1. /\ requests \subseteq Request /\ q.by \in Procs /\ procs \in [Procs -> Proc]
        /\ requests' = requests \ {q}
    BY DEF RunOnceInv, RunOnceTypeOK, Request, Answer
  <1>2. requests' \subseteq Request /\ \A o \in requests' : o \in requests
    BY <1>1
  <1>3. CASE Awaited(q) /\ procs' = [procs EXCEPT ![q.by] = c]
    BY <1>1, <1>2, <1>3, Become
  <1>4. CASE UNCHANGED procs
    BY <1>1, <1>2, <1>4, OneStep
  <1> QED
    BY <1>3, <1>4 DEF Answer

LEMMA GoStep ==
  ASSUME RunOnceInv, [Next]_vars, NEW q \in requests, NEW stage \in {"update", "inspect"},
         GoTo(q, stage),
         stage = "inspect" =>
           /\ q.op # "claim-next"
           /\ q.op \in ReportOps => ~ Holds(missions'[q.mission], OwnerOf[q.by], q.token)
  PROVE  RunOnceInv'
  <1>1. /\ requests \subseteq Request /\ q \in Request /\ q.by \in Procs
        /\ procs \in [Procs -> Proc]
    BY DEF RunOnceInv, RunOnceTypeOK, Request
  <1>2. PICK z : z = [q EXCEPT !.stage = stage]
    OBVIOUS
  <1>3. /\ z \in Request /\ z.by = q.by /\ z.op = q.op /\ z.mission = q.mission
        /\ z.token = q.token /\ z.stage = stage
    BY <1>1, <1>2 DEF Request, Stages
  <1>4. requests' = (requests \ {q}) \cup {z} /\ procs' = procs
    BY <1>2 DEF GoTo
  <1>5. RequestOK(z, procs[z.by])'
    <2>1. PICK c \in Proc : c = procs[q.by]
      BY <1>1
    <2>2. RequestOK(q, c)
      BY <2>1 DEF RunOnceInv
    <2>3. RequestOK(z, c)'
      BY <1>3, <2>2 DEF RequestOK
    <2> QED
      BY <1>3, <1>4, <2>1, <2>3
  <1>6. requests' \subseteq Request
    BY <1>1, <1>3, <1>4
  <1> QED
    BY <1>1, <1>4, <1>5, <1>6, OneStep

LEMMA SweepServed ==
  ASSUME RunOnceInv, NEW q \in requests, ServeSweep(q)
  PROVE  RunOnceInv' /\ [Next]_vars
  <1>1. [Next]_vars
    BY DEF ServeSweep, Next
  <1> QED
    BY <1>1, GoStep DEF ServeSweep

\* Who sent the copy, and what the row it names looks like.
LEMMA Sender ==
  ASSUME RunOnceInv, NEW q \in requests
  PROVE  /\ TypeOK /\ BoardInv /\ q \in Request /\ q.by \in Procs
         /\ OwnerOf[q.by] \in Disciples
         /\ procs[q.by] \in Proc /\ ProcessOK(q.by, procs[q.by])
         /\ RequestOK(q, procs[q.by])
         /\ q.op \in ReportOps => HasToken(q.by, procs[q.by])
  <1>1. /\ TypeOK /\ BoardInv /\ q \in Request /\ q.by \in Procs
        /\ procs[q.by] \in Proc /\ ProcessOK(q.by, procs[q.by])
        /\ RequestOK(q, procs[q.by])
    BY DEF RunOnceInv, RunOnceTypeOK, Request
  <1> QED
    BY <1>1, ProcsAssumption DEF RequestOK, ProcessOK

\* Given a claim.
LEMMA ClaimAnswered ==
  ASSUME RunOnceInv, [Next]_vars, NEW q \in requests, q.op \in ClaimOps, NEW m \in Missions,
         missions'[m].status = "claimed", missions'[m].claimed_by = OwnerOf[q.by],
         Answer(q, GivenClaim(q, m, missions'[m].claim_token))
  PROVE  RunOnceInv'
  <1>1. PICK b \in Proc : b = procs[q.by]
    BY Sender
  <1>2. PICK r \in Row : r = missions'[m]
    BY TypeStep DEF RunOnceInv, RunOnceTypeOK, TypeOK
  <1>3. PICK s \in Seq(Run) : s = runs'[m]
    BY TypeStep DEF RunOnceInv, RunOnceTypeOK, TypeOK
  <1>4. RowInv(r, s)
    BY <1>2, <1>3, BoardStep DEF RunOnceInv, RunOnceTypeOK, BoardInv
  <1>5. r.claim_token \in 1 .. Len(s) /\ s[r.claim_token].by = OwnerOf[q.by]
    BY <1>2, <1>4, Holder
  <1>6. r.claim_token \in Nat /\ r.claim_token # NoToken
    BY <1>3, <1>5, LenProperties DEF NoToken
  <1>7. PICK c : c = [b EXCEPT !.pc = "working", !.mission = m, !.token = r.claim_token]
    OBVIOUS
  <1>8. /\ c \in Proc /\ c.pc = "working" /\ c.mission = m /\ c.token = r.claim_token
        /\ c.op = b.op /\ c.answer = b.answer
    BY <1>6, <1>7 DEF Proc
  <1>9. HasToken(q.by, c)'
    BY <1>2, <1>3, <1>5, <1>8 DEF HasToken, Given
  <1>10. ASSUME Awaited(q)
         PROVE  ProcessOK(q.by, c)' /\ Keeps(b, c)
    <2>1. b.pc = "calling" /\ b.op = q.op
      BY <1>1, <1>10 DEF Awaited
    <2>2. ProcessOK(q.by, b)
      BY <1>1, Sender
    <2>3. b.answer = "none" /\ b.op \notin ReportOps
      BY <2>1, <2>2 DEF ProcessOK, ClaimOps, ReportOps
    <2> QED
      BY <1>6, <1>8, <1>9, <2>1, <2>2, <2>3 DEF ProcessOK, Keeps
  <1>11. Answer(q, c)
    BY <1>1, <1>2, <1>7 DEF GivenClaim
  <1> QED
    BY <1>1, <1>8, <1>10, <1>11, AnswerStep

LEMMA ClaimServed ==
  ASSUME RunOnceInv, NEW q \in requests, ServeClaimNext(q) \/ ServeClaim(q)
  PROVE  RunOnceInv' /\ [Next]_vars
  <1>1. /\ TypeOK /\ OwnerOf[q.by] \in Disciples /\ RequestOK(q, procs[q.by])
    BY Sender
  <1>2. ASSUME NEW m \in Missions, NEW asked \in Asked, NEW at \in Moments,
               \/ ClaimNext(m, OwnerOf[q.by], asked, at)
               \/ Claim(m, OwnerOf[q.by], asked, at),
               q.op \in ClaimOps,
               Answer(q, GivenClaim(q, m, missions'[m].claim_token))
        PROVE  RunOnceInv' /\ [Next]_vars
    <2>1. [Next]_vars
      BY <1>1, <1>2 DEF Next, ClaimStep
    <2>2. missions[m] \in Row /\ at \in Nat /\ FreshToken(m) \in Nat
      BY <1>1, RowTypes, MomentsType, LenProperties DEF FreshToken
    <2>3. missions'[m].status = "claimed" /\ missions'[m].claimed_by = OwnerOf[q.by]
      <3>1. CASE ClaimHeld(m, OwnerOf[q.by], asked, at)
        BY <1>1, <2>2, <3>1 DEF ClaimHeld, HeldBy, Renewed, Row, TypeOK
      <3>2. CASE Grant(m, OwnerOf[q.by], asked, at)
        <4>1. missions'[m] = Granted(missions[m], OwnerOf[q.by], FreshToken(m), asked, at)
          BY <1>1, <3>2 DEF Grant, TypeOK
        <4> QED
          BY <1>1, <2>2, <4>1, GrantedType
      <3> QED
        BY <1>2, <3>1, <3>2 DEF Claim, ClaimNext
    <2> QED
      BY <1>2, <2>1, <2>3, ClaimAnswered
  <1>3. CASE ServeClaimNext(q)
    BY <1>2, <1>3 DEF ServeClaimNext, ClaimOps
  <1>4. CASE ServeClaim(q)
    <2>1. q.op = "claim" /\ q.mission \in Missions /\ q.op \in ClaimOps /\ q.op \notin ReportOps
      BY <1>1, <1>4 DEF ServeClaim, RequestOK, ClaimOps, ReportOps
    <2>2. CASE \E asked \in Asked, at \in Moments :
                 /\ Claim(q.mission, OwnerOf[q.by], asked, at)
                 /\ Answer(q, GivenClaim(q, q.mission, missions'[q.mission].claim_token))
      BY <1>2, <2>1, <2>2
    <2>3. CASE UNCHANGED vars /\ GoTo(q, "inspect")
      BY <2>1, <2>3, GoStep
    <2> QED
      BY <1>4, <2>2, <2>3 DEF ServeClaim
  <1> QED
    BY <1>3, <1>4

\* Told something that ends the run.
LEMMA ToldStep ==
  ASSUME RunOnceInv, [Next]_vars, NEW q \in requests, NEW answer \in Answers,
         Answer(q, Told(q, answer)),
         NEW b \in Proc, b = procs[q.by], NEW c, c = [b EXCEPT !.pc = "over", !.answer = answer],
         Awaited(q) /\ q.op \in ReportOps => ToldTruth(q.by, c)'
  PROVE  RunOnceInv'
  <1>1. /\ c \in Proc /\ c.pc = "over" /\ c.mission = b.mission /\ c.token = b.token
        /\ c.op = b.op /\ c.answer = answer
    BY DEF Proc
  <1>2. q.by \in Procs /\ ProcessOK(q.by, b)
    BY Sender
  <1>3. ProcessOK(q.by, b)'
    BY <1>2, ProcessStays
  <1>4. ASSUME Awaited(q)
        PROVE  ProcessOK(q.by, c)' /\ Keeps(b, c)
    <2>1. b.op = q.op
      BY <1>4 DEF Awaited
    <2>2. HasToken(q.by, b)' => HasToken(q.by, c)'
      BY <1>1 DEF HasToken, Given
    <2> QED
      BY <1>1, <1>3, <1>4, <2>1, <2>2 DEF ProcessOK, Keeps
  <1>5. Answer(q, c)
    BY DEF Told
  <1> QED
    BY <1>1, <1>4, <1>5, AnswerStep

LEMMA NothingServed ==
  ASSUME RunOnceInv, NEW q \in requests, ServeNothing(q)
  PROVE  RunOnceInv' /\ [Next]_vars
  <1>1. UNCHANGED vars /\ Answer(q, Told(q, "idle")) /\ q.op = "claim-next"
    BY DEF ServeNothing
  <1>2. PICK b \in Proc : b = procs[q.by]
    BY Sender
  <1>3. "idle" \in Answers /\ q.op \notin ReportOps
    BY <1>1 DEF Answers, ReportOps
  <1> QED
    BY <1>1, <1>2, <1>3, ToldStep

LEMMA InspectServed ==
  ASSUME RunOnceInv, NEW q \in requests, ServeInspect(q)
  PROVE  RunOnceInv' /\ [Next]_vars
  <1>1. /\ UNCHANGED vars /\ Answer(q, Told(q, Verdict(q))) /\ q.stage = "inspect"
    BY DEF ServeInspect
  <1>2. PICK b \in Proc : b = procs[q.by]
    BY Sender
  <1>3. /\ TypeOK /\ BoardInv /\ q \in Request /\ RequestOK(q, b)
        /\ q.op \in ReportOps => HasToken(q.by, b)
    BY <1>2, Sender
  <1>4. q.op \in {"claim"} \cup ReportOps
    BY <1>1, <1>3 DEF Request, RequestOK, ClaimOps
  <1>5. ~ IsReplay(missions[q.mission], q) /\ q.op # "claim" =>
          Verdict(q) = HolderConflict(missions[q.mission])
    BY <1>4 DEF Verdict
  <1>6. IsReplay(missions[q.mission], q) => Verdict(q) = "ok"
    BY DEF Verdict, IsReplay
  <1>7. q.op = "claim" => Verdict(q) = "not_claimable"
    BY DEF Verdict
  <1>8. HolderConflict(missions[q.mission]) \in Reasons
    BY DEF HolderConflict, Reasons
  <1>9. PICK answer \in Answers : answer = Verdict(q)
    BY <1>5, <1>6, <1>7, <1>8 DEF Answers
  <1>10. PICK c : c = [b EXCEPT !.pc = "over", !.answer = answer]
    OBVIOUS
  <1>11. ASSUME q.op \in ReportOps
         PROVE  ToldTruth(q.by, c)'
    <2>1. /\ c.op = q.op /\ c.mission = q.mission /\ c.token = q.token /\ c.answer = answer
          /\ HasToken(q.by, b) /\ b.mission = q.mission /\ b.token = q.token
          /\ ~ Holds(missions[q.mission], OwnerOf[q.by], q.token)
      BY <1>1, <1>3, <1>10, <1>11 DEF RequestOK, Proc
    <2>2. PICK m \in Missions : m = q.mission
      BY <2>1 DEF HasToken
    <2>3. PICK r \in Row : r = missions[m]
      BY <1>3, RowTypes
    <2>4. PICK s \in Seq(Run) : s = runs[m]
      BY <1>3, RowTypes
    <2>5. PICK t \in 1 .. Len(s) : t = q.token
      BY <2>1, <2>2, <2>4 DEF HasToken, Given
    <2>6. RowInv(r, s) /\ s[t].by = OwnerOf[q.by] /\ ~ Holds(r, s[t].by, t)
      BY <1>3, <2>1, <2>2, <2>3, <2>4, <2>5 DEF HasToken, Given, BoardInv
    <2>7. /\ s[t].report = "completed" =>
               r.status = "completed" /\ r.claim_token = t /\ r.claimed_by = s[t].by
          /\ r.status = "claimed" => Len(s) > t
          /\ r.status = "completed" /\ r.claim_token = t => s[t].report = "completed"
          /\ r.status \in {"absent", "open"} => s[t].report = "retried" \/ Len(s) > t
      BY <2>6, WhyNot
    <2>8. IsReplay(r, q) <=> q.op = "complete" /\ s[t].report = "completed"
      BY <2>5, <2>6, <2>7 DEF IsReplay
    <2>9. answer = "ok" => s[t].report \in Accepted(q.op)
      BY <1>5, <1>8, <1>9, <1>11, <2>2, <2>3, <2>8 DEF Reasons, Accepted, ReportOps
    <2>10. answer \in Reasons => ~ IsReplay(r, q) /\ answer = HolderConflict(r)
      BY <1>5, <1>6, <1>9, <1>11, <2>2, <2>3 DEF Reasons, ReportOps
    <2>11. /\ answer \in Reasons /\ answer = "reclaimed" => Len(s) > t
           /\ answer \in Reasons /\ answer = "lease_expired" =>
                s[t].report = "retried" \/ Len(s) > t
      BY <2>3, <2>7, <2>10 DEF HolderConflict, Row, Pending, Terminal
    <2>12. answer \in Reasons /\ answer \in DOMAIN EndOf => r.status = EndOf[answer]
      BY <2>10 DEF HolderConflict, EndOf
    <2>13. OnRun(c) = s[t].report /\ missions[c.mission] = r /\ Len(runs[c.mission]) = Len(s)
      BY <2>1, <2>2, <2>3, <2>4, <2>5 DEF OnRun
    <2>14. ~ Holds(missions[c.mission], OwnerOf[q.by], c.token)
      BY <2>1
    <2>15. answer \in Reasons /\ q.op = "complete" => s[t].report # "completed"
      BY <2>8, <2>10
    <2>16. ToldTruth(q.by, c)
      BY <2>1, <2>5, <2>9, <2>11, <2>12, <2>13, <2>14, <2>15 DEF ToldTruth
    <2> QED
      BY <1>1, <2>16 DEF ToldTruth, OnRun, vars
  <1> QED
    BY <1>1, <1>2, <1>9, <1>10, <1>11, ToldStep

\* A report that its token's row accepts.
LEMMA ReportTaken ==
  ASSUME RunOnceInv, NEW q \in requests, q.op \in ReportOps,
         NEW m \in Missions, m = q.mission, NEW d, d = OwnerOf[q.by], NEW t, t = q.token,
         \/ q.op = "complete" /\ Complete(m, d, t)
         \/ q.op = "fail" /\ \E after \in Backoffs, at \in Moments : FailRetry(m, d, t, after, at)
         \/ q.op # "complete" /\ FailTerminal(m, d, t, q.op = "fail")
  PROVE  /\ [Next]_vars
         /\ \E report \in Accepted(q.op) :
              /\ report # "none" /\ runs'[m][t].report = report
              /\ Len(runs'[m]) = Len(runs[m])
              /\ \A k \in 1 .. Len(runs[m]) \ {t} : runs'[m][k] = runs[m][k]
              /\ \A n \in Missions \ {m} : runs'[n] = runs[n]
  <1>1. TypeOK /\ BoardInv /\ d \in Disciples
    BY Sender
  <1>2. Holds(missions[m], d, t)
    BY DEF Complete, FailRetry, FailTerminal
  <1>3. t \in Given(m, d) /\ t \in 1 .. Len(runs[m]) /\ runs[m][t] \in Run
    BY <1>1, <1>2, TokenGiven, GivenType, RowTypes, ElementOfSeq
  <1>4. HolderStep(m, d, t) => Next
    BY <1>1, <1>3 DEF Next
  <1>5. [Next]_vars
    BY <1>4 DEF HolderStep
  <1>6. ASSUME NEW report \in {"completed", "retried", "failed"}, Record(m, t, report)
        PROVE  /\ report # "none" /\ runs'[m][t].report = report
               /\ Len(runs'[m]) = Len(runs[m])
               /\ \A k \in 1 .. Len(runs[m]) \ {t} : runs'[m][k] = runs[m][k]
               /\ \A n \in Missions \ {m} : runs'[n] = runs[n]
    <2>1. /\ Reported(runs[m], t, report, runs'[m])
          /\ \A n \in Missions \ {m} : runs'[n] = runs[n]
      BY <1>1, <1>3, <1>6, RecordType DEF Reports
    <2>2. runs'[m][t] = [runs[m][t] EXCEPT !.report = report]
      BY <1>3, <2>1 DEF Reported
    <2> QED
      BY <1>3, <2>1, <2>2 DEF Reported, Run
  <1>7. CASE q.op = "complete" /\ Complete(m, d, t)
    BY <1>5, <1>6, <1>7 DEF Complete, Accepted
  <1>8. CASE q.op = "fail" /\ \E after \in Backoffs, at \in Moments : FailRetry(m, d, t, after, at)
    BY <1>5, <1>6, <1>8 DEF FailRetry, Accepted
  <1>9. CASE q.op # "complete" /\ FailTerminal(m, d, t, q.op = "fail")
    <2>1. q.op \in {"fail", "fail-permanent"} /\ Record(m, t, "failed")
      BY <1>9 DEF ReportOps, FailTerminal
    <2> QED
      BY <1>5, <1>6, <2>1 DEF Accepted
  <1> QED
    BY <1>7, <1>8, <1>9

LEMMA ReportServed ==
  ASSUME RunOnceInv, NEW q \in requests, ServeReport(q)
  PROVE  RunOnceInv' /\ [Next]_vars
  <1>1. PICK b \in Proc : b = procs[q.by]
    BY Sender
  <1>2. /\ q.op \in ReportOps /\ RequestOK(q, b) /\ HasToken(q.by, b) /\ TypeOK /\ BoardInv
    BY <1>1, Sender DEF ServeReport
  <1>3. PICK m \in Missions : m = q.mission
    BY <1>2 DEF RequestOK, HasToken
  <1> DEFINE d == OwnerOf[q.by]
             t == q.token
  <1>4. CASE /\ \/ q.op = "complete" /\ Complete(m, d, t)
                \/ q.op = "fail" /\ \E after \in Backoffs, at \in Moments :
                                      FailRetry(m, d, t, after, at)
                \/ q.op # "complete" /\ FailTerminal(m, d, t, q.op = "fail")
             /\ Answer(q, Told(q, "ok"))
    <2>1. [Next]_vars /\ runs'[m][t].report \in Accepted(q.op)
      BY <1>2, <1>3, <1>4, ReportTaken
    <2>2. PICK c : c = [b EXCEPT !.pc = "over", !.answer = "ok"]
      OBVIOUS
    <2>3. c.op = q.op /\ c.mission = m /\ c.token = t /\ c.answer = "ok"
      BY <1>2, <1>3, <2>2 DEF RequestOK, Proc
    <2>4. ToldTruth(q.by, c)'
      BY <2>1, <2>3 DEF ToldTruth, OnRun, Reasons
    <2>5. "ok" \in Answers
      BY DEF Answers
    <2> QED
      BY <1>1, <1>4, <2>1, <2>2, <2>4, <2>5, ToldStep
  <1>5. CASE ~ Holds(missions[m], d, t) /\ UNCHANGED vars /\ GoTo(q, "inspect")
    <2>1. ~ Holds(missions'[q.mission], OwnerOf[q.by], q.token) /\ q.op # "claim-next"
      BY <1>2, <1>3, <1>5 DEF vars, ReportOps
    <2> QED
      BY <1>5, <2>1, GoStep
  <1> QED
    BY <1>3, <1>4, <1>5 DEF ServeReport

LEMMA RunOnceStep ==
  RunOnceInv /\ [RunOnceNext]_runOnceVars => RunOnceInv' /\ [Next]_vars
  <1> SUFFICES ASSUME RunOnceInv, [RunOnceNext]_runOnceVars
               PROVE  RunOnceInv' /\ [Next]_vars
    OBVIOUS
  <1>1. /\ requests \subseteq Request /\ procs \in [Procs -> Proc]
    BY DEF RunOnceInv, RunOnceTypeOK
  <1>2. ASSUME Environment
        PROVE  RunOnceInv' /\ [Next]_vars
    <2>1. Next /\ UNCHANGED <<procs, requests>>
      BY <1>2 DEF Environment, Next
    <2> QED
      BY <1>1, <2>1, OneStep
  <1>3. CASE UNCHANGED runOnceVars
    <2>1. UNCHANGED vars /\ UNCHANGED <<procs, requests>>
      BY <1>3 DEF runOnceVars, vars
    <2> QED
      BY <1>1, <2>1, OneStep
  <1>4. ASSUME NEW q \in requests, Serve(q)
        PROVE  RunOnceInv' /\ [Next]_vars
    BY <1>4, SweepServed, ClaimServed, NothingServed, ReportServed, InspectServed DEF Serve
  <1> QED
    BY <1>2, <1>3, <1>4, AskStep, ReportStep, RetryStep, EndStep DEF RunOnceNext

LEMMA RunOnceStart == RunOnceInit => RunOnceInv
  <1> SUFFICES ASSUME RunOnceInit PROVE RunOnceInv
    OBVIOUS
  <1>1. TypeOK /\ BoardInv /\ requests = {}
    BY TypeInit, BoardInit DEF RunOnceInit
  <1>2. ASSUME NEW p \in Procs
        PROVE  procs[p] \in Proc /\ ProcessOK(p, procs[p])
    <2>1. PICK c : c = procs[p]
      OBVIOUS
    <2>2. c = [ pc |-> "ready", op |-> IF p \in ById THEN "claim" ELSE "claim-next",
                try |-> 1, mission |-> NULL, token |-> NoToken, answer |-> "none" ]
      BY <2>1 DEF RunOnceInit
    <2>3. c \in Proc
      BY <2>2 DEF Proc, ClaimOps, Answers, NoToken
    <2>4. ProcessOK(p, c)
      BY <2>2 DEF ProcessOK, ClaimOps, ReportOps
    <2> QED
      BY <2>1, <2>3, <2>4
  <1>3. procs \in [Procs -> Proc]
    <2>1. procs = [p \in Procs |-> procs[p]]
      BY DEF RunOnceInit
    <2> QED
      BY <1>2, <2>1
  <1> QED
    BY <1>1, <1>2, <1>3 DEF RunOnceInv, RunOnceTypeOK

(* The board, the processes and every copy of a request fit together: a    *)
(* token in a process or on the wire was given to its disciple, and a      *)
(* report under way or answered agrees with the history of its run.        *)
THEOREM RunOnceCorrect == RunOnceSpec => []RunOnceInv
  BY RunOnceStart, RunOnceStep, PTL DEF RunOnceSpec

(* Processes, and copies of their requests, keep their types however often *)
(* requests are lost, repeated or late and processes die.                  *)
THEOREM RunOnceTypes == RunOnceSpec => []RunOnceTypeOK
  <1>1. RunOnceInv => RunOnceTypeOK
    BY DEF RunOnceInv
  <1> QED
    BY <1>1, RunOnceCorrect, PTL

(* Whatever workers, handlers and the wire do, the board moves by the      *)
(* statements of MissionHall: all that is proved of it holds under them.   *)
THEOREM BoardUnderWorkers == RunOnceSpec => Spec
  <1>1. RunOnceInit => Init
    BY DEF RunOnceInit
  <1> QED
    BY <1>1, RunOnceCorrect, RunOnceStep, PTL DEF RunOnceSpec, Spec

(* A process told "ok" has its own run's report on record, for good,       *)
(* however often the request was repeated and whoever has run or finished  *)
(* the mission since.                                                      *)
THEOREM OkIsTrue == RunOnceSpec => []OkMeansRecorded
  <1>1. ASSUME RunOnceInv
        PROVE  OkMeansRecorded
    <2> SUFFICES ASSUME NEW p \in Procs, Reporting(p), procs[p].answer = "ok"
                 PROVE  OnRecord(p) \in Recorded(p)
      BY DEF OkMeansRecorded
    <2>1. ToldTruth(p, procs[p])
      BY <1>1 DEF RunOnceInv, ProcessOK, Reporting
    <2> QED
      BY <2>1 DEF ToldTruth, OnRun, Accepted, OnRecord, Recorded
  <1> QED
    BY <1>1, RunOnceCorrect, PTL

----------------------------------------------------------------------------
\* One token, one process.

(* A process that claims by id shares its disciple with no other process:  *)
(* POST /missions/{id}/claim hands the token of a mission the disciple     *)
(* holds to whoever asks with the disciple's key.                          *)
OneClaimant == \A p \in ById, q \in Procs : OwnerOf[p] = OwnerOf[q] => p = q

\* What a process in state c may find on record for its own run.
Mine(c) == IF c.op \in ReportOps THEN Accepted(c.op) ELSE {}

OwnReport(c) == c.token # NoToken => OnRun(c) \in {"none"} \cup Mine(c)

TokenInv ==
  /\ OneProcessPerToken
  /\ \A p \in Procs : OwnReport(procs[p])

\* From c to d a process neither gains nor loses a token, nor takes a report back.
SameToken(c, d) ==
  /\ d.token = c.token
  /\ c.token # NoToken => d.mission = c.mission
  /\ Mine(c) \subseteq Mine(d)

\* A step that gives no token away.
LEMMA TokensStay ==
  ASSUME RunOnceInv, TokenInv,
         \A p \in Procs : SameToken(procs[p], procs'[p]),
         \A p \in Procs : procs[p].token # NoToken =>
           runs'[procs[p].mission][procs[p].token].report
             \in {OnRun(procs[p])} \cup Mine(procs'[p])
  PROVE  TokenInv'
  <1>1. OneProcessPerToken'
    BY DEF TokenInv, OneProcessPerToken, SameToken
  <1>2. ASSUME NEW p \in Procs
        PROVE  OwnReport(procs[p])'
    <2>1. SameToken(procs[p], procs'[p]) /\ OwnReport(procs[p])
      BY DEF TokenInv
    <2> QED
      BY <2>1 DEF OwnReport, OnRun, SameToken
  <1> QED
    BY <1>1, <1>2 DEF TokenInv

\* A step that leaves the history alone.
LEMMA HistoryQuiet ==
  ASSUME RunOnceInv, TokenInv, UNCHANGED runs,
         \A p \in Procs : SameToken(procs[p], procs'[p])
  PROVE  TokenInv'
  <1>1. \A p \in Procs : runs'[procs[p].mission][procs[p].token].report
                           \in {OnRun(procs[p])} \cup Mine(procs'[p])
    BY DEF OnRun
  <1> QED
    BY <1>1, TokensStay

LEMMA ClientQuiet ==
  ASSUME RunOnceInv, NEW p \in Procs,
         \/ \E m \in Missions \cup {NULL} : Ask(p, m)
         \/ \E op \in ReportOps : Report(p, op)
         \/ Retry(p) \/ GiveUp(p) \/ Crash(p)
  PROVE  UNCHANGED runs /\ \A o \in Procs : SameToken(procs[o], procs'[o])
  <1>1. PICK b \in Proc : b = procs[p]
    BY DEF RunOnceInv, RunOnceTypeOK
  <1>2. ProcessOK(p, b) /\ procs \in [Procs -> Proc]
    BY <1>1 DEF RunOnceInv, RunOnceTypeOK
  <1>3. \A o \in Procs : SameToken(procs[o], procs[o])
    BY DEF SameToken
  <1>4. ASSUME NEW c, procs' = [procs EXCEPT ![p] = c], UNCHANGED vars, SameToken(b, c)
        PROVE  UNCHANGED runs /\ \A o \in Procs : SameToken(procs[o], procs'[o])
    BY <1>1, <1>2, <1>3, <1>4 DEF vars
  <1>5. CASE \E m \in Missions \cup {NULL} : Ask(p, m)
    <2>1. PICK m \in Missions \cup {NULL} : Ask(p, m)
      BY <1>5
    <2>2. PICK c : c = [b EXCEPT !.pc = "calling", !.mission = m]
      OBVIOUS
    <2>3. b.token = NoToken /\ c.token = b.token /\ c.op = b.op
      BY <1>1, <1>2, <2>1, <2>2 DEF Ask, ProcessOK, Proc
    <2> QED
      BY <1>1, <1>4, <2>1, <2>2, <2>3 DEF Ask, Send, SameToken, Mine
  <1>6. CASE \E op \in ReportOps : Report(p, op)
    <2>1. PICK op \in ReportOps : Report(p, op)
      BY <1>6
    <2>2. PICK c : c = [b EXCEPT !.pc = "calling", !.op = op, !.try = 1]
      OBVIOUS
    <2>3. b.op \notin ReportOps /\ c.token = b.token /\ c.mission = b.mission
      BY <1>1, <1>2, <2>1, <2>2 DEF Report, ProcessOK, Proc, ClaimOps, ReportOps
    <2> QED
      BY <1>1, <1>4, <2>1, <2>2, <2>3 DEF Report, Send, SameToken, Mine
  <1>7. CASE Retry(p)
    <2>1. PICK c : c = [b EXCEPT !.try = @ + 1]
      OBVIOUS
    <2>2. c.op = b.op /\ c.token = b.token /\ c.mission = b.mission
      BY <2>1 DEF Proc
    <2> QED
      BY <1>1, <1>4, <1>7, <2>1, <2>2 DEF Retry, Send, SameToken, Mine
  <1>8. CASE GiveUp(p)
    <2>1. PICK c : c = [b EXCEPT !.pc = "over", !.answer = "unavailable"]
      OBVIOUS
    <2>2. c.op = b.op /\ c.token = b.token /\ c.mission = b.mission
      BY <2>1 DEF Proc
    <2>3. procs' = [procs EXCEPT ![p] = c]
      BY <1>1, <1>2, <1>8, <2>1 DEF GiveUp
    <2> QED
      BY <1>4, <1>8, <2>2, <2>3 DEF GiveUp, SameToken, Mine
  <1>9. CASE Crash(p)
    <2>1. PICK c : c = [b EXCEPT !.pc = "over"]
      OBVIOUS
    <2>2. c.op = b.op /\ c.token = b.token /\ c.mission = b.mission
      BY <2>1 DEF Proc
    <2>3. procs' = [procs EXCEPT ![p] = c]
      BY <1>1, <1>2, <1>9, <2>1 DEF Crash
    <2> QED
      BY <1>4, <1>9, <2>2, <2>3 DEF Crash, SameToken, Mine
  <1> QED
    BY <1>5, <1>6, <1>7, <1>8, <1>9

\* A process that is told something keeps the token it has.
LEMMA ToldQuiet ==
  ASSUME RunOnceInv, NEW q \in requests, NEW answer, Answer(q, Told(q, answer))
  PROVE  \A o \in Procs : SameToken(procs[o], procs'[o])
  <1>1. PICK b \in Proc : b = procs[q.by]
    BY Sender
  <1>2. procs \in [Procs -> Proc]
    BY DEF RunOnceInv, RunOnceTypeOK
  <1>3. PICK c : c = [b EXCEPT !.pc = "over", !.answer = answer]
    OBVIOUS
  <1>4. c.op = b.op /\ c.token = b.token /\ c.mission = b.mission
    BY <1>3 DEF Proc
  <1>5. procs' = [procs EXCEPT ![q.by] = c] \/ UNCHANGED procs
    BY <1>1, <1>3 DEF Answer, Told
  <1> QED
    BY <1>1, <1>2, <1>4, <1>5 DEF SameToken, Mine

\* A claim that succeeds: the token it hands out is on no other process.
LEMMA TokenHanded ==
  ASSUME RunOnceInv, TokenInv, NEW q \in requests, q.op \in ClaimOps, NEW m \in Missions,
         NEW t, t = missions'[m].claim_token, t # NoToken, runs'[m][t].report = "none",
         Answer(q, GivenClaim(q, m, t)),
         \A p \in Procs \ {q.by} :
           HasToken(p, procs[p]) /\ procs[p].mission = m => procs[p].token # t,
         \A p \in Procs : HasToken(p, procs[p]) =>
           runs'[procs[p].mission][procs[p].token].report = OnRun(procs[p])
  PROVE  TokenInv'
  <1>1. PICK b \in Proc : b = procs[q.by]
    BY Sender
  <1>2. procs \in [Procs -> Proc] /\ q.by \in Procs
    BY Sender DEF RunOnceInv, RunOnceTypeOK
  <1>3. \A p \in Procs : procs[p].token # NoToken => HasToken(p, procs[p])
    BY DEF RunOnceInv, ProcessOK
  <1>4. CASE UNCHANGED procs
    BY <1>3, <1>4, TokensStay DEF SameToken
  <1>5. CASE Awaited(q) /\ procs' = [procs EXCEPT ![q.by] = GivenClaim(q, m, t)]
    <2>1. PICK c : c = [b EXCEPT !.pc = "working", !.mission = m, !.token = t]
      OBVIOUS
    <2>2. c.op = q.op /\ c.mission = m /\ c.token = t
      BY <1>1, <1>5, <2>1 DEF Proc, Awaited
    <2>3. /\ procs'[q.by] = c
          /\ \A p \in Procs \ {q.by} : procs'[p] = procs[p]
      BY <1>1, <1>2, <1>5, <2>1 DEF GivenClaim
    <2>4. ASSUME NEW p \in Procs
          PROVE  OwnReport(procs[p])'
      <3>1. CASE p = q.by
        BY <2>2, <2>3, <3>1 DEF OwnReport, OnRun
      <3>2. CASE p # q.by
        <4>1. PICK e : e = procs[p]
          OBVIOUS
        <4>2. OwnReport(e) /\ (e.token # NoToken => OnRun(e)' = OnRun(e))
          BY <1>3, <4>1 DEF TokenInv, OnRun
        <4> QED
          BY <2>3, <3>2, <4>1, <4>2 DEF OwnReport
      <3> QED
        BY <3>1, <3>2
    <2>5. OneProcessPerToken'
      <3> SUFFICES ASSUME NEW p \in Procs, NEW o \in Procs, p # o, procs'[p].token # NoToken,
                          procs'[p].mission = procs'[o].mission
                   PROVE  procs'[p].token # procs'[o].token
        BY DEF OneProcessPerToken
      <3>1. CASE p = q.by
        <4>1. procs'[o] = procs[o] /\ o \in Procs \ {q.by}
          BY <2>3, <3>1
        <4> QED
          BY <1>3, <2>2, <2>3, <3>1, <4>1
      <3>2. CASE o = q.by
        <4>1. procs'[p] = procs[p] /\ p \in Procs \ {q.by}
          BY <2>3, <3>2
        <4> QED
          BY <1>3, <2>2, <2>3, <3>2, <4>1
      <3>3. CASE p # q.by /\ o # q.by
        BY <2>3, <3>3 DEF TokenInv, OneProcessPerToken
      <3> QED
        BY <3>1, <3>2, <3>3
    <2> QED
      BY <2>4, <2>5 DEF TokenInv
  <1> QED
    BY <1>4, <1>5 DEF Answer

\* A run that has been given a token keeps its report when another is claimed.
LEMMA ClaimTokens ==
  ASSUME RunOnceInv, TokenInv, OneClaimant, NEW q \in requests, NEW m \in Missions,
         NEW asked \in Asked, NEW at \in Moments,
         \/ q.op = "claim-next" /\ ClaimNext(m, OwnerOf[q.by], asked, at)
         \/ q.op = "claim" /\ Claim(m, OwnerOf[q.by], asked, at),
         Answer(q, GivenClaim(q, m, missions'[m].claim_token))
  PROVE  TokenInv'
  <1>1. /\ TypeOK /\ BoardInv /\ q.by \in Procs /\ OwnerOf[q.by] \in Disciples
        /\ RequestOK(q, procs[q.by]) /\ procs \in [Procs -> Proc]
    BY Sender DEF RunOnceInv, RunOnceTypeOK
  <1>2. PICK d \in Disciples : d = OwnerOf[q.by]
    BY <1>1
  <1>3. [Next]_vars
    BY <1>2 DEF Next, ClaimStep
  <1>4. PICK z \in Row : z = missions'[m]
    BY <1>1, <1>3, TypeStep DEF TypeOK
  <1>5. PICK y \in Seq(Run) : y = runs'[m]
    BY <1>1, <1>3, TypeStep DEF TypeOK
  <1>6. RowInv(z, y)
    BY <1>1, <1>3, <1>4, <1>5, BoardStep DEF BoardInv
  <1>7. PICK r \in Row : r = missions[m]
    BY <1>1, RowTypes
  <1>8. PICK s \in Seq(Run) : s = runs[m]
    BY <1>1, RowTypes
  <1>9. Len(s) \in Nat /\ RowInv(r, s)
    BY <1>1, <1>7, <1>8, LenProperties DEF BoardInv
  <1>10. PICK t \in Nat : t = z.claim_token
    BY DEF Row
  <1>11. q.op \in ClaimOps
    BY DEF ClaimOps
  <1>12. ASSUME z.status = "claimed",
                \A p \in Procs \ {q.by} :
                  HasToken(p, procs[p]) /\ procs[p].mission = m => procs[p].token # t,
                \A p \in Procs : HasToken(p, procs[p]) =>
                  runs'[procs[p].mission][procs[p].token].report = OnRun(procs[p])
         PROVE  TokenInv'
    <2>1. t \in 1 .. Len(y) /\ y[t].report = "none"
      BY <1>6, <1>10, <1>12, Holder
    <2>2. t # NoToken /\ runs'[m][t].report = "none" /\ t = missions'[m].claim_token
      BY <1>4, <1>5, <1>10, <2>1, LenProperties DEF NoToken
    <2> QED
      BY <1>11, <1>12, <2>2, TokenHanded
  <1>13. CASE Grant(m, d, asked, at)
    <2>1. FreshToken(m) \in Nat /\ FreshToken(m) = Len(s) + 1 /\ at \in Nat
      BY <1>1, <1>8, <1>9, MomentsType DEF FreshToken
    <2>2. z = Granted(r, d, FreshToken(m), asked, at)
      BY <1>1, <1>4, <1>7, <1>13 DEF Grant, TypeOK
    <2>3. z.status = "claimed" /\ t = Len(s) + 1
      <3>1. PICK f \in Nat : f = FreshToken(m)
        BY <2>1
      <3>2. /\ Granted(r, d, f, asked, at).status = "claimed"
            /\ Granted(r, d, f, asked, at).claim_token = f
        <4>1. at \in Nat /\ f \in Nat /\ r \in Row /\ d \in Disciples
          BY <1>2, <1>7, <2>1, <3>1
        <4> QED
          BY <4>1, GrantedType
      <3>3. f = Len(s) + 1
        BY <2>1, <3>1
      <3>4. z = Granted(r, d, f, asked, at)
        BY <2>2, <3>1
      <3> QED
        BY <1>10, <3>2, <3>3, <3>4
    <2>4. ASSUME NEW p \in Procs, HasToken(p, procs[p])
          PROVE  /\ procs[p].mission = m => procs[p].token # t
                 /\ runs'[procs[p].mission][procs[p].token].report = OnRun(procs[p])
      <3>1. PICK c \in Proc : c = procs[p]
        BY <1>1
      <3>2. /\ c.mission \in Missions /\ c.token \in 1 .. Len(runs[c.mission])
        BY <1>1, <2>4, <3>1, TokenTypes
      <3>3. /\ runs'[m] = Append(s, [by |-> d, report |-> "none"])
            /\ \A n \in Missions \ {m} : runs'[n] = runs[n]
        BY <1>1, <1>8, <1>13, BeginType DEF Grant
      <3>4. CASE c.mission = m
        <4>1. c.token \in 1 .. Len(s)
          BY <1>8, <3>2, <3>4
        <4>2. runs'[m][c.token] = s[c.token]
          <5>1. [by |-> d, report |-> "none"] \in Run
            BY DEF Run
          <5> QED
            BY <3>3, <4>1, <5>1, AppendProperties
        <4> QED
          BY <1>8, <1>9, <2>3, <3>1, <3>4, <4>1, <4>2 DEF OnRun
      <3>5. CASE c.mission # m
        BY <3>1, <3>2, <3>3, <3>5 DEF OnRun
      <3> QED
        BY <3>4, <3>5
    <2> QED
      BY <1>12, <2>3, <2>4
  <1>14. CASE q.op = "claim" /\ ClaimHeld(m, d, asked, at)
    <2>1. r.status = "claimed" /\ r.claimed_by = d
      BY <1>7, <1>14 DEF ClaimHeld, HeldBy
    <2>2. z = Renewed(r, asked, at) /\ runs' = runs
      BY <1>1, <1>4, <1>7, <1>14 DEF ClaimHeld, TypeOK
    <2>3. z.status = "claimed" /\ t = r.claim_token
      BY <1>10, <2>1, <2>2 DEF Renewed, Row
    <2>4. s[t].by = d
      BY <1>9, <2>1, <2>3, Holder
    <2>5. ASSUME NEW p \in Procs \ {q.by}, HasToken(p, procs[p]), procs[p].mission = m,
                 procs[p].token = t
          PROVE  FALSE
      <3>1. OwnerOf[p] = d
        BY <1>8, <2>4, <2>5 DEF HasToken, Given
      <3>2. q.by \in ById
        BY <1>1, <1>11, <1>14 DEF RequestOK
      <3> QED
        BY <1>2, <2>5, <3>1, <3>2 DEF OneClaimant
    <2> QED
      BY <1>12, <2>2, <2>3, <2>5 DEF OnRun
  <1> QED
    BY <1>2, <1>13, <1>14 DEF Claim, ClaimNext

\* A report that is taken is its process's own.
LEMMA ReportTokens ==
  ASSUME RunOnceInv, TokenInv, NEW q \in requests, q.op \in ReportOps,
         NEW m \in Missions, m = q.mission, NEW t, t = q.token,
         \E report \in Accepted(q.op) :
           /\ runs'[m][t].report = report
           /\ \A k \in 1 .. Len(runs[m]) \ {t} : runs'[m][k] = runs[m][k]
           /\ \A n \in Missions \ {m} : runs'[n] = runs[n],
         \A o \in Procs : SameToken(procs[o], procs'[o])
  PROVE  TokenInv'
  <1>1. /\ TypeOK /\ q.by \in Procs /\ procs \in [Procs -> Proc]
        /\ RequestOK(q, procs[q.by])
    BY Sender DEF RunOnceInv, RunOnceTypeOK
  <1>2. PICK report \in Accepted(q.op) :
           /\ runs'[m][t].report = report
           /\ \A k \in 1 .. Len(runs[m]) \ {t} : runs'[m][k] = runs[m][k]
           /\ \A n \in Missions \ {m} : runs'[n] = runs[n]
    OBVIOUS
  <1>3. PICK b \in Proc : b = procs[q.by]
    BY <1>1
  <1>4. b.mission = m /\ b.token = t /\ b.op = q.op
    BY <1>1, <1>3 DEF RequestOK
  <1>5. ASSUME NEW p \in Procs, procs[p].token # NoToken
        PROVE  runs'[procs[p].mission][procs[p].token].report
                 \in {OnRun(procs[p])} \cup Mine(procs'[p])
    <2>1. PICK c \in Proc : c = procs[p]
      BY <1>1
    <2>2. /\ c.mission \in Missions /\ c.token \in 1 .. Len(runs[c.mission])
      BY <1>1, <1>5, <2>1, TokenTypes DEF RunOnceInv, ProcessOK
    <2>3. CASE p = q.by
      <3>1. report \in Mine(c)
        BY <1>2, <1>3, <1>4, <2>1, <2>3 DEF Mine
      <3>2. Mine(c) \subseteq Mine(procs'[p])
        BY <2>1 DEF SameToken
      <3> QED
        BY <1>2, <1>3, <1>4, <2>1, <2>3, <3>1, <3>2
    <2>4. CASE p # q.by
      <3>1. ~ (c.mission = m /\ c.token = t)
        BY <1>1, <1>3, <1>4, <1>5, <2>1, <2>4 DEF TokenInv, OneProcessPerToken
      <3>2. runs'[c.mission][c.token] = runs[c.mission][c.token]
        BY <1>2, <2>2, <3>1
      <3> QED
        BY <2>1, <3>2 DEF OnRun
    <2> QED
      BY <2>3, <2>4
  <1> QED
    BY <1>5, TokensStay

LEMMA TokenStep ==
  ASSUME OneClaimant
  PROVE  RunOnceInv /\ TokenInv /\ [RunOnceNext]_runOnceVars => TokenInv'
  <1> SUFFICES ASSUME RunOnceInv, TokenInv, [RunOnceNext]_runOnceVars
               PROVE  TokenInv'
    OBVIOUS
  <1>1. \A o \in Procs : SameToken(procs[o], procs[o])
    BY DEF SameToken
  <1>2. ASSUME UNCHANGED runs, UNCHANGED procs
        PROVE  TokenInv'
    BY <1>1, <1>2, HistoryQuiet
  <1>3. CASE Environment
    BY <1>2, <1>3 DEF Environment, MissionStep, Post, Cancel, Tick
  <1>4. CASE UNCHANGED runOnceVars
    BY <1>2, <1>4 DEF runOnceVars
  <1>5. ASSUME NEW q \in requests, Serve(q)
        PROVE  TokenInv'
    <2>1. q.op \in ReportOps => q.mission \in Missions
      BY Sender DEF RequestOK, HasToken
    <2>2. q.op = "claim" => q.mission \in Missions
      BY Sender DEF RequestOK
    <2>3. CASE ServeSweep(q)
      BY <1>2, <2>3 DEF ServeSweep, Sweep, GoTo, vars
    <2>4. CASE ServeNothing(q)
      BY <2>4, ToldQuiet, HistoryQuiet DEF ServeNothing, vars
    <2>5. CASE ServeInspect(q)
      BY <2>5, ToldQuiet, HistoryQuiet DEF ServeInspect, vars
    <2>6. CASE ServeClaimNext(q)
      BY <2>6, ClaimTokens DEF ServeClaimNext
    <2>7. CASE ServeClaim(q)
      <3>1. CASE UNCHANGED vars /\ GoTo(q, "inspect")
        BY <1>2, <3>1 DEF GoTo, vars
      <3>2. CASE \E asked \in Asked, at \in Moments :
                   /\ Claim(q.mission, OwnerOf[q.by], asked, at)
                   /\ Answer(q, GivenClaim(q, q.mission, missions'[q.mission].claim_token))
        BY <2>2, <2>7, <3>2, ClaimTokens DEF ServeClaim
      <3> QED
        BY <2>7, <3>1, <3>2 DEF ServeClaim
    <2>8. CASE ServeReport(q)
      <3>1. PICK m \in Missions : m = q.mission
        BY <2>1, <2>8 DEF ServeReport
      <3> DEFINE d == OwnerOf[q.by]
                 t == q.token
      <3>2. CASE UNCHANGED vars /\ GoTo(q, "inspect")
        BY <1>2, <3>2 DEF GoTo, vars
      <3>3. CASE /\ \/ q.op = "complete" /\ Complete(m, d, t)
                    \/ q.op = "fail" /\ \E after \in Backoffs, at \in Moments :
                                          FailRetry(m, d, t, after, at)
                    \/ q.op # "complete" /\ FailTerminal(m, d, t, q.op = "fail")
                 /\ Answer(q, Told(q, "ok"))
        <4>1. q.op \in ReportOps
          BY <2>8 DEF ServeReport
        <4>2. \E report \in Accepted(q.op) :
                /\ runs'[m][t].report = report
                /\ \A k \in 1 .. Len(runs[m]) \ {t} : runs'[m][k] = runs[m][k]
                /\ \A n \in Missions \ {m} : runs'[n] = runs[n]
          BY <3>1, <3>3, <4>1, ReportTaken
        <4>3. \A o \in Procs : SameToken(procs[o], procs'[o])
          BY <3>3, ToldQuiet
        <4> QED
          BY <3>1, <4>1, <4>2, <4>3, ReportTokens
      <3> QED
        BY <2>8, <3>1, <3>2, <3>3 DEF ServeReport
    <2> QED
      BY <1>5, <2>3, <2>4, <2>5, <2>6, <2>7, <2>8 DEF Serve
  <1>6. ASSUME NEW p \in Procs,
               \/ \E m \in Missions \cup {NULL} : Ask(p, m)
               \/ \E op \in ReportOps : Report(p, op)
               \/ Retry(p) \/ GiveUp(p) \/ Crash(p)
        PROVE  TokenInv'
    BY <1>6, ClientQuiet, HistoryQuiet
  <1> QED
    BY <1>3, <1>4, <1>5, <1>6 DEF RunOnceNext

LEMMA TokenStart == RunOnceInit => TokenInv
  BY DEF RunOnceInit, TokenInv, OneProcessPerToken, OwnReport

LEMMA TokensCorrect ==
  ASSUME OneClaimant
  PROVE  RunOnceSpec => [](RunOnceInv /\ TokenInv)
  <1>1. RunOnceInv /\ TokenInv /\ [RunOnceNext]_runOnceVars => RunOnceInv' /\ TokenInv'
    BY RunOnceStep, TokenStep
  <1> QED
    BY <1>1, RunOnceStart, TokenStart, PTL DEF RunOnceSpec

(* No two processes ever work under the same token, though requests are    *)
(* repeated, answers come late and claims are made again; as long as who   *)
(* claims by id shares its disciple with no other process.                 *)
THEOREM OneProcess ==
  ASSUME OneClaimant
  PROVE  RunOnceSpec => []OneProcessPerToken
  <1>1. TokenInv => OneProcessPerToken
    BY DEF TokenInv
  <1> QED
    BY <1>1, TokensCorrect, PTL

\* A run whose report is terminal is the newest.
LEMMA LastWord ==
  ASSUME NEW r \in Row, NEW s \in Seq(Run), RowInv(r, s), NEW t \in 1 .. Len(s),
         Len(s) > t
  PROVE  s[t].report \in {"none", "retried"}
  <1>1. Len(s) \in Nat
    BY LenProperties
  <1>2. t \in 1 .. Len(s) - 1
    BY <1>1
  <1> QED
    BY <1>2 DEF RowInv, RunsFit

(* A process that is refused its report is told the truth, whichever the   *)
(* reason: a complete that is refused is not on record; the mission is     *)
(* cancelled, completed by another claim, failed, or taken over, as it is  *)
(* said to be; but for the repeat of a fail that put the mission back.     *)
THEOREM Refusals ==
  ASSUME OneClaimant
  PROVE  RunOnceSpec => []RefusalsAreTrue
  <1>1. ASSUME RunOnceInv, TokenInv, NEW p \in Procs, Reporting(p),
               procs[p].answer \in Reasons
        PROVE  LET m      == procs[p].mission
                   reason == procs[p].answer
               IN  /\ procs[p].op = "complete" => OnRecord(p) = "none"
                   /\ reason = "cancelled" => missions[m].status = "cancelled"
                   /\ reason = "already_failed" => missions[m].status = "failed"
                   /\ reason = "already_completed" => CompletedByAnother(p)
                   /\ reason \in {"reclaimed", "lease_expired"} =>
                        Superseded(p) \/ RepeatsRetry(p)
                   /\ reason = "reclaimed" => Len(runs[m]) > procs[p].token
    <2>1. PICK c \in Proc : c = procs[p]
      BY <1>1 DEF RunOnceInv, RunOnceTypeOK
    <2>2. /\ ToldTruth(p, c) /\ OwnReport(c) /\ HasToken(p, c) /\ c.token # NoToken
          /\ c.op \in ReportOps /\ TypeOK /\ BoardInv
      BY <1>1, <2>1 DEF RunOnceInv, RunOnceTypeOK, ProcessOK, TokenInv, Reporting
    <2>3. PICK m \in Missions : m = c.mission
      BY <2>2 DEF HasToken
    <2>4. PICK s \in Seq(Run) : s = runs[m]
      BY <2>2, RowTypes
    <2>5. PICK t \in 1 .. Len(s) : t = c.token
      BY <2>2, <2>3, <2>4 DEF HasToken, Given
    <2>6. PICK r \in Row : r = missions[m]
      BY <2>2, RowTypes
    <2>7. RowInv(r, s) /\ Len(s) \in Nat
      BY <2>2, <2>4, <2>6, LenProperties DEF BoardInv
    <2>8. /\ s[t].report \in {"none"} \cup Accepted(c.op)
          /\ OnRun(c) = s[t].report /\ OnRecord(p) = s[t].report
      BY <2>1, <2>2, <2>3, <2>4, <2>5 DEF OwnReport, Mine, OnRun, OnRecord
    <2>9. c.answer \in Reasons
      BY <1>1, <2>1
    <2>10. c.op = "complete" => s[t].report = "none"
      BY <2>2, <2>8, <2>9 DEF ToldTruth, Accepted
    <2>11. s[t].report # "completed"
      BY <2>2, <2>8, <2>10 DEF Accepted, ReportOps
    <2>12. s[t].report = "retried" => c.op = "fail"
      BY <2>2, <2>8 DEF Accepted, ReportOps
    <2>13. /\ c.answer = "cancelled" => r.status = "cancelled"
           /\ c.answer = "already_failed" => r.status = "failed"
           /\ c.answer = "already_completed" => r.status = "completed"
      BY <2>2, <2>3, <2>6, <2>9 DEF ToldTruth, EndOf
    <2>14. /\ c.answer = "reclaimed" => Len(s) > t
           /\ c.answer = "lease_expired" => s[t].report = "retried" \/ Len(s) > t
      BY <2>2, <2>3, <2>4, <2>5, <2>8, <2>9 DEF ToldTruth
    <2>15. c.answer = "already_completed" =>
             \E k \in 1 .. Len(s) : k # t /\ s[k].report = "completed"
      <3>1. r.status = "completed" => Len(s) \in 1 .. Len(s) /\ s[Len(s)].report = "completed"
        BY <2>7, EmptySeq DEF RowInv, RunsFit
      <3> QED
        BY <2>11, <2>13, <3>1
    <2>16. Len(s) > t => s[t].report \in {"none", "retried"}
      BY <2>7, LastWord
    <2>17. c.answer \in {"reclaimed", "lease_expired"} =>
             \/ s[t].report = "none" /\ Len(s) > t
             \/ c.op = "fail" /\ s[t].report = "retried"
      BY <2>12, <2>14, <2>16
    <2> QED
      BY <2>1, <2>3, <2>4, <2>5, <2>6, <2>8, <2>10, <2>13, <2>14, <2>15, <2>17
         DEF CompletedByAnother, Superseded, RepeatsRetry
  <1>2. RunOnceInv /\ TokenInv => RefusalsAreTrue
    BY <1>1 DEF RefusalsAreTrue
  <1> QED
    BY <1>2, TokensCorrect, PTL

=============================================================================
