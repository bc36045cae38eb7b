-------------------------- MODULE LifecycleProofs --------------------------
(***************************************************************************)
(* Proofs about the abstract board, for any missions, disciples and        *)
(* budgets.  BoardProofs shows that MissionHall implements it, so what is  *)
(* proved here holds of the rows of the missions table too.                *)
(*                                                                         *)
(* That a mission ends for a reason its runs show is inductive once the    *)
(* newest run of a claimed mission is known to be unreported, and no       *)
(* mission to have more runs than its budget.                              *)
(*                                                                         *)
(* Settling adds a variable and guards, so it implements Lifecycle, and    *)
(* both theorems hold of it too.                                           *)
(***************************************************************************)
EXTENDS Settling, TLAPS, SequenceTheorems

Reports == {"none", "retried", "completed", "failed"}

\* The status and budget of a mission agree with its runs.
Fits(st, b, s) ==
  /\ Len(s) <= b
  /\ st = "absent" => s = <<>>
  /\ st = "open" => Len(s) < b
  /\ st \in {"claimed", "completed", "failed"} => s # <<>>
  /\ st = "claimed" => s[Len(s)].report = "none"
  /\ st = "completed" => s[Len(s)].report = "completed"
  /\ st = "failed" => \/ s[Len(s)].report = "failed"
                      \/ s[Len(s)].report = "none" /\ Len(s) = b

FitsInv == \A m \in Missions : Fits(status[m], budget[m], runs[m])

Inv == TypeOK /\ FitsInv

LEMMA Facts ==
  ASSUME Inv, NEW m \in Missions
  PROVE  /\ runs[m] \in Seq(Run) /\ Len(runs[m]) \in Nat /\ budget[m] \in Nat
         /\ status[m] \in {"absent"} \cup Pending \cup Terminal
         /\ Fits(status[m], budget[m], runs[m])
         /\ runs[m] # <<>> => Len(runs[m]) \in 1 .. Len(runs[m])
  <1>1. /\ runs[m] \in Seq(Run) /\ budget[m] \in Nat
        /\ status[m] \in {"absent"} \cup Pending \cup Terminal
        /\ Fits(status[m], budget[m], runs[m])
    <2>1. \A b \in Budgets \cup {0} : b \in Nat
      BY BudgetsAssumption
    <2>2. budget[m] \in Budgets \cup {0} /\ Fits(status[m], budget[m], runs[m])
      BY DEF Inv, TypeOK, FitsInv
    <2>3. runs[m] \in Seq(Run) /\ status[m] \in {"absent"} \cup Pending \cup Terminal
      BY DEF Inv, TypeOK
    <2> QED
      BY <2>1, <2>2, <2>3
  <1> QED
    BY <1>1, LenProperties, EmptySeq

\* Where one mission moves and the rest stays, only that one is to be looked at.
LEMMA OneMission ==
  ASSUME Inv, NEW m \in Missions,
         NEW st \in {"absent"} \cup Pending \cup Terminal,
         NEW b \in Budgets \cup {0}, NEW s \in Seq(Run),
         Fits(st, b, s),
         status' = [status EXCEPT ![m] = st],
         budget' = [budget EXCEPT ![m] = b],
         runs' = [runs EXCEPT ![m] = s],
         ripe' \subseteq ripe \cup {m},
         m \in ripe' => st \in Pending
  PROVE  Inv'
  <1>1. TypeOK'
    BY DEF Inv, TypeOK
  <1>2. FitsInv'
    BY DEF Inv, TypeOK, FitsInv
  <1> QED
    BY <1>1, <1>2 DEF Inv

\* A report on the newest run.
LEMMA ReportType ==
  ASSUME NEW s \in Seq(Run), s # <<>>, NEW report \in Reports
  PROVE  LET z == [s EXCEPT ![Len(s)].report = report]
         IN  z \in Seq(Run) /\ Len(z) = Len(s) /\ z # <<>> /\ z[Len(z)].report = report
  <1> DEFINE e == [s[Len(s)] EXCEPT !.report = report]
             z == [s EXCEPT ![Len(s)] = e]
  <1>1. Len(s) \in 1 .. Len(s)
    BY EmptySeq, LenProperties
  <1>2. s[Len(s)] \in Run
    BY <1>1, ElementOfSeq
  <1>3. e \in Run /\ e.report = report
    BY <1>2 DEF Run, Reports
  <1> HIDE DEF e
  <1>4. z \in Seq(Run) /\ Len(z) = Len(s) /\ z[Len(s)] = e
    BY <1>1, <1>3, ExceptSeq
  <1>5. z # <<>>
    BY <1>1, <1>4, EmptySeq
  <1> QED
    BY <1>3, <1>4, <1>5 DEF e

LEMMA LifecycleInit == Init => Inv
  <1>1. Len(<<>>) = 0 /\ <<>> \in Seq(Run)
    BY EmptySeq
  <1> QED
    BY <1>1 DEF Init, Inv, TypeOK, FitsInv, Fits, Pending

LEMMA KeepPost ==
  ASSUME Inv, NEW m \in Missions, NEW b \in Budgets, Post(m, b)
  PROVE  Inv'
  <1>1. runs[m] = <<>> /\ Len(runs[m]) = 0 /\ runs[m] \in Seq(Run)
    BY Facts, EmptySeq DEF Post, Fits
  <1>2. Fits("open", b, runs[m])
    BY <1>1, BudgetsAssumption DEF Fits
  <1>3. /\ status' = [status EXCEPT ![m] = "open"]
        /\ budget' = [budget EXCEPT ![m] = b]
        /\ runs' = [runs EXCEPT ![m] = runs[m]]
        /\ ripe' \subseteq ripe \cup {m}
    BY DEF Post, Become, StartWait, Inv, TypeOK
  <1> QED
    BY <1>1, <1>2, <1>3, OneMission DEF Pending

LEMMA KeepStart ==
  ASSUME Inv, NEW m \in Missions, NEW d \in Disciples, Start(m, d)
  PROVE  Inv'
  <1> DEFINE e == [by |-> d, report |-> "none"]
             s == Append(runs[m], e)
  <1>1. e \in Run
    BY DEF Run
  <1>2. /\ runs[m] \in Seq(Run) /\ Len(runs[m]) \in Nat /\ budget[m] \in Nat
        /\ Len(runs[m]) < budget[m] /\ budget[m] \in Budgets \cup {0}
    BY Facts DEF Start, Spent, Inv, TypeOK
  <1>3. /\ s \in Seq(Run) /\ s # <<>> /\ Len(s) = Len(runs[m]) + 1 /\ s[Len(s)] = e
    BY <1>1, <1>2, AppendProperties
  <1>4. Fits("claimed", budget[m], s)
    <2> HIDE DEF s
    <2> QED
      BY <1>2, <1>3 DEF Fits
  <1>5. /\ status' = [status EXCEPT ![m] = "claimed"]
        /\ budget' = [budget EXCEPT ![m] = budget[m]]
        /\ runs' = [runs EXCEPT ![m] = s]
        /\ ripe' \subseteq ripe \cup {m}
    BY DEF Start, Become, StartWait, Inv, TypeOK
  <1> HIDE DEF s
  <1> QED
    BY <1>2, <1>3, <1>4, <1>5, OneMission DEF Pending

\* A claimed mission that is reported on.
LEMMA KeepReport ==
  ASSUME Inv, NEW m \in Missions, status[m] = "claimed",
         NEW st \in Pending \cup Terminal, NEW report \in Reports,
         Become(m, st), Report(m, report), UNCHANGED budget,
         ripe' \subseteq ripe \cup {m}, m \in ripe' => st \in Pending,
         \/ st = "open" /\ report = "retried" /\ ~ Spent(m)
         \/ st = report /\ report \in {"completed", "failed"}
  PROVE  Inv'
  <1> DEFINE s == [runs[m] EXCEPT ![Len(runs[m])].report = report]
  <1>1. /\ runs[m] \in Seq(Run) /\ runs[m] # <<>> /\ Len(runs[m]) <= budget[m]
        /\ Len(runs[m]) \in Nat /\ budget[m] \in Nat /\ budget[m] \in Budgets \cup {0}
    BY Facts DEF Fits, Inv, TypeOK
  <1>2. /\ s \in Seq(Run) /\ Len(s) = Len(runs[m]) /\ s # <<>>
        /\ s[Len(s)].report = report
    BY <1>1, ReportType
  <1>3. /\ status' = [status EXCEPT ![m] = st]
        /\ budget' = [budget EXCEPT ![m] = budget[m]]
        /\ runs' = [runs EXCEPT ![m] = s]
    BY DEF Become, Report, Inv, TypeOK
  <1> HIDE DEF s
  <1>4. Fits(st, budget[m], s)
    BY <1>1, <1>2 DEF Fits, Spent
  <1> QED
    BY <1>1, <1>2, <1>3, <1>4, OneMission

LEMMA KeepCancel ==
  ASSUME Inv, NEW m \in Missions, Cancel(m)
  PROVE  Inv'
  <1>1. /\ runs[m] \in Seq(Run) /\ budget[m] \in Budgets \cup {0}
        /\ Fits("cancelled", budget[m], runs[m])
    BY Facts DEF Fits, Inv, TypeOK
  <1>2. /\ status' = [status EXCEPT ![m] = "cancelled"]
        /\ budget' = [budget EXCEPT ![m] = budget[m]]
        /\ runs' = [runs EXCEPT ![m] = runs[m]]
        /\ ripe' \subseteq ripe \cup {m} /\ m \notin ripe'
    BY DEF Cancel, Become, EndWait, Inv, TypeOK
  <1> QED
    BY <1>1, <1>2, OneMission DEF Terminal

LEMMA KeepExhaust ==
  ASSUME Inv, NEW S \in SUBSET Missions, Exhaust(S)
  PROVE  Inv'
  <1>1. TypeOK'
    BY DEF Exhaust, EndWait, Inv, TypeOK, Terminal
  <1>2. ASSUME NEW m \in S
        PROVE  Fits("failed", budget[m], runs[m])
    BY <1>2, Facts DEF Exhaust, Exhausted, Spent, Fits
  <1>3. FitsInv'
    BY <1>2 DEF Exhaust, Inv, TypeOK, FitsInv
  <1> QED
    BY <1>1, <1>3 DEF Inv

LEMMA KeepWaits ==
  ASSUME Inv, UNCHANGED <<status, budget, runs>>,
         ripe' \subseteq {m \in Missions : status[m] \in Pending}
  PROVE  Inv'
  BY DEF Inv, TypeOK, FitsInv

LEMMA LifecycleStep == Inv /\ [Next]_vars => Inv'
  <1> SUFFICES ASSUME Inv, [Next]_vars
               PROVE  Inv'
    OBVIOUS
  <1>1. ASSUME NEW m \in Missions, Renew(m)
        PROVE  Inv'
    <2>1. ripe' \subseteq {n \in Missions : status[n] \in Pending}
      BY <1>1 DEF Renew, StartWait, Pending, Inv, TypeOK
    <2> QED
      BY <1>1, <2>1, KeepWaits DEF Renew
  <1>2. ASSUME NEW m \in Missions, NEW o \in {"completed", "failed"}, Finish(m, o)
        PROVE  Inv'
    <2>1. o \in Pending \cup Terminal /\ o \in Reports
      BY DEF Terminal, Reports
    <2>2. ripe' \subseteq ripe \cup {m} /\ m \notin ripe'
      BY <1>2 DEF Finish, EndWait
    <2> QED
      BY <1>2, <2>1, <2>2, KeepReport DEF Finish
  <1>3. ASSUME NEW m \in Missions, Retry(m)
        PROVE  Inv'
    <2>1. "open" \in Pending /\ "retried" \in Reports
      BY DEF Pending, Reports
    <2>2. ripe' \subseteq ripe \cup {m}
      BY <1>3 DEF Retry, StartWait
    <2> QED
      BY <1>3, <2>1, <2>2, KeepReport DEF Retry
  <1>4. ASSUME NEW S \in SUBSET Missions, Pass(S)
        PROVE  Inv'
    BY <1>4, KeepWaits DEF Pass, Inv, TypeOK
  <1>5. CASE UNCHANGED vars
    BY <1>5, KeepWaits DEF vars, Inv, TypeOK
  <1> QED
    BY <1>1, <1>2, <1>3, <1>4, <1>5, KeepPost, KeepStart, KeepCancel, KeepExhaust
       DEF Next

(* Statuses, budgets and runs keep their types, and only a mission that is *)
(* on the board waits for anything.                                        *)
THEOREM TypeCorrect == Spec => []TypeOK
  <1>1. Inv => TypeOK
    BY DEF Inv
  <1> QED
    BY <1>1, LifecycleInit, LifecycleStep, PTL DEF Spec

(* A mission leaves the board only for a reason its runs show, for any     *)
(* budgets and any number of missions and workers.                         *)
THEOREM Reasons == Spec => []EndsForAReason
  <1>1. Inv => EndsForAReason
    <2> SUFFICES ASSUME Inv, NEW m \in Missions
                 PROVE  /\ status[m] = "completed" => LastReport(m) = "completed"
                        /\ status[m] = "failed" =>
                             \/ LastReport(m) = "failed"
                             \/ LastReport(m) = "none" /\ Len(runs[m]) = budget[m]
                        /\ status[m] = "open" => ~ Spent(m)
      BY DEF EndsForAReason
    <2> QED
      BY Facts DEF Fits, LastReport, Spent
  <1> QED
    BY <1>1, LifecycleInit, LifecycleStep, PTL DEF Spec

(* Settling, with its heartbeats and its clock, is a Lifecycle: it keeps   *)
(* some steps of the abstract board from happening and adds none.          *)
THEOREM SettlingIsLifecycle == SettleSpec => Spec
  <1>1. SettleInit => Init
    BY DEF SettleInit
  <1>2. [SettleNext]_settleVars => [Next]_vars
    <2>1. SettleNext => Next \/ UNCHANGED vars
      BY DEF SettleNext, Next, KeepAlive, Lapse, Age
    <2>2. UNCHANGED settleVars => UNCHANGED vars
      BY DEF settleVars
    <2> QED
      BY <2>1, <2>2
  <1> QED
    BY <1>1, <1>2, PTL DEF SettleSpec, Spec

(* What is fresh is a mission, whatever is renewed, ended or delayed, and  *)
(* the abstract board below keeps its types.                               *)
THEOREM SettleTypes == SettleSpec => []SettleTypeOK
  <1> DEFINE FreshOK == fresh \subseteq Missions
  <1>1. SettleInit => FreshOK
    BY DEF SettleInit
  <1>2. FreshOK /\ [SettleNext]_settleVars => FreshOK'
    BY DEF SettleNext, settleVars, KeepAlive, Refresh, Lapse, Age
  <1>3. SettleSpec => []FreshOK
    BY <1>1, <1>2, PTL DEF SettleSpec
  <1>4. TypeOK /\ FreshOK => SettleTypeOK
    BY DEF SettleTypeOK
  <1> QED
    BY <1>3, <1>4, SettlingIsLifecycle, TypeCorrect, PTL

(* The reasons hold under heartbeats and time as well.                     *)
THEOREM SettleReasons == SettleSpec => []EndsForAReason
  BY SettlingIsLifecycle, Reasons, PTL
=============================================================================
