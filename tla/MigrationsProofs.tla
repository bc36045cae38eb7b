-------------------------- MODULE MigrationsProofs --------------------------
(***************************************************************************)
(* Proofs about Migrations for any instances, releases and sessions.       *)
(*                                                                         *)
(* That the schema is some release's needs no lock: what an instance       *)
(* believes to be applied is applied, and it takes its files in order.     *)
(* That nobody fails to boot needs the lock, hence direct connections:     *)
(* whoever is past TakeLock holds it in a session of its own, so there is  *)
(* one such instance, and what it read is still all there is.              *)
(***************************************************************************)
EXTENDS Migrations, TLAPS, FiniteSetTheorems, WellFoundedInduction

LEMMA SmallestFile ==
  ASSUME NEW n \in Nat, NEW S, S \subseteq 1 .. n, S # {}
  PROVE  \E v \in S : \A w \in S : v <= w
  <1> DEFINE Upto(v) == {w \in S : w <= v}
             R == StrictSubsetOrdering(1 .. n)
             T == {Upto(v) : v \in S}
  <1>1. IsFiniteSet(1 .. n)
    BY FS_Interval
  <1>2. ASSUME NEW v \in S
        PROVE  Upto(v) \in FiniteSubsetsOf(1 .. n)
    <2>1. Upto(v) \in SUBSET (1 .. n)
      OBVIOUS
    <2> QED
      BY <1>1, <2>1, FS_Subset DEF FiniteSubsetsOf
  <1>3. IsWellFoundedOn(R, FiniteSubsetsOf(1 .. n))
    BY FS_StrictSubsetOrderingWellFounded
  <1> HIDE DEF R
  <1>4. PICK x \in T : \A y \in T : ~ (<<y, x>> \in R)
    <2>1. T \subseteq FiniteSubsetsOf(1 .. n) /\ T # {}
      BY <1>2
    <2> HIDE DEF T
    <2> QED
      BY <1>3, <2>1, WFMin
  <1>5. PICK least \in S : x = Upto(least)
    BY <1>4
  <1>6. ASSUME NEW w \in S, w < least
        PROVE  FALSE
    <2>1. Upto(w) \subseteq Upto(least) /\ Upto(w) # Upto(least)
      <3>1. w \in Int /\ least \in Int /\ \A v \in S : v \in Int
        OBVIOUS
      <3>2. \A v \in S : v <= w => v <= least
        BY <1>6, <3>1
      <3>3. least \in Upto(least) /\ least \notin Upto(w)
        BY <1>6, <3>1
      <3> QED
        BY <3>2, <3>3
    <2>2. Upto(w) \in SUBSET (1 .. n) /\ Upto(least) \in SUBSET (1 .. n)
      OBVIOUS
    <2>3. <<Upto(w), x>> \in R
      BY <1>5, <2>1, <2>2 DEF R, StrictSubsetOrdering
    <2> QED
      BY <1>4, <2>3
  <1>7. \A v \in S : v \in Int
    OBVIOUS
  <1> QED
    BY <1>6, <1>7

LEMMA NextIsSmallest ==
  ASSUME NEW i \in Instances, Pending(i) # {}
  PROVE  NextFile(i) \in Pending(i) /\ \A w \in Pending(i) : NextFile(i) <= w
  <1>1. FilesOf[i] \in Nat /\ Pending(i) \subseteq 1 .. FilesOf[i]
    BY ReleasesAssumption DEF Pending
  <1>2. \E v \in Pending(i) : \A w \in Pending(i) : v <= w
    BY <1>1, SmallestFile
  <1> QED
    BY <1>2 DEF NextFile

LEMMA PendingFiles ==
  ASSUME NEW i \in Instances
  PROVE  Pending(i) \subseteq Files
  BY DEF Pending, Files

----------------------------------------------------------------------------
\* With or without a pooler.

\* What instance i has read, and will apply next, fits the table.
Believes(i) ==
  /\ done[i] \subseteq applied
  /\ pc[i] = "commit" => Pending(i) # {}
  /\ pc[i] = "unlock" => Pending(i) = {}
  /\ pc[i] \in {"waiting", "commit"} => conn[i] # NULL
  /\ pc[i] = "serving" => 1 .. FilesOf[i] \subseteq applied

Prefix == \A v \in applied : 1 .. v \subseteq applied

SchemaInv == TypeOK /\ Prefix /\ \A i \in Instances : Believes(i)

LEMMA SchemaInit == Init => SchemaInv
  BY DEF Init, SchemaInv, TypeOK, PCs, Prefix, Believes

\* A step of i that changes no file leaves the others as they were.
LEMMA SameFiles ==
  ASSUME SchemaInv, TypeOK', NEW i \in Instances, applied' = applied,
         \A j \in Instances \ {i} : pc'[j] = pc[j] /\ done'[j] = done[j] /\ conn'[j] = conn[j],
         Believes(i)'
  PROVE  SchemaInv'
  <1>1. ASSUME NEW j \in Instances PROVE Believes(j)'
    <2>1. CASE j = i
      BY <2>1
    <2>2. CASE j # i
      BY <2>2 DEF SchemaInv, Believes, Pending
    <2> QED
      BY <2>1, <2>2
  <1> QED
    BY <1>1 DEF SchemaInv, Prefix

LEMMA TypeStep == SchemaInv /\ [Next]_vars => TypeOK'
  <1> SUFFICES ASSUME SchemaInv, [Next]_vars PROVE TypeOK'
    OBVIOUS
  <1> USE DEF SchemaInv, TypeOK, PCs
  <1>1. CASE UNCHANGED vars
    BY <1>1 DEF vars
  <1>2. ASSUME NEW i \in Instances, Boot(i) PROVE TypeOK'
    BY <1>2 DEF Boot, GoTo
  <1>3. ASSUME NEW i \in Instances, AskLock(i) PROVE TypeOK'
    BY <1>3 DEF AskLock, SessionFor, Idle, Keep, GoTo
  <1>4. ASSUME NEW i \in Instances, TakeLock(i) PROVE TypeOK'
    <2>1. conn[i] \in Sessions
      BY <1>4 DEF TakeLock, Believes
    <2> QED
      BY <1>4, <2>1 DEF TakeLock, Leave, Keep, GoTo
  <1>5. ASSUME NEW i \in Instances, Read(i) PROVE TypeOK'
    BY <1>5 DEF Read, SessionFor, Idle, Leave, Keep, GoTo
  <1>6. ASSUME NEW i \in Instances, Execute(i) PROVE TypeOK'
    BY <1>6 DEF Execute, SessionFor, Idle, Leave, Keep, GoTo
  <1>7. ASSUME NEW i \in Instances, Commit(i) PROVE TypeOK'
    <2>1. NextFile(i) \in Files
      BY <1>7, NextIsSmallest, PendingFiles DEF Commit, Believes
    <2> QED
      BY <1>7, <2>1 DEF Commit, Leave, Keep, GoTo, Believes
  <1>8. ASSUME NEW i \in Instances, UpToDate(i) PROVE TypeOK'
    BY <1>8 DEF UpToDate, GoTo
  <1>9. ASSUME NEW i \in Instances, Unlock(i) PROVE TypeOK'
    <2>1. PICK s \in SessionFor(i) : held' = [held EXCEPT ![s] = 0]
      BY <1>9 DEF Unlock
    <2>2. held' \in [Sessions -> Nat]
      BY <2>1
    <2>3. pc' \in [Instances -> PCs]
      BY <1>9 DEF Unlock, GoTo
    <2> QED
      BY <1>9, <2>2, <2>3 DEF Unlock, Keep
  <1>10. ASSUME NEW i \in Instances, Die(i) PROVE TypeOK'
    BY <1>10 DEF Die, Keep, GoTo
  <1> QED
    BY <1>1, <1>2, <1>3, <1>4, <1>5, <1>6, <1>7, <1>8, <1>9, <1>10 DEF Next, Step

LEMMA SchemaStep == SchemaInv /\ [Next]_vars => SchemaInv'
  <1> SUFFICES ASSUME SchemaInv, [Next]_vars PROVE SchemaInv'
    OBVIOUS
  <1>0. TypeOK /\ TypeOK' /\ (\A i \in Instances : Believes(i))
    BY TypeStep DEF SchemaInv
  <1>1. CASE UNCHANGED vars
    BY <1>1 DEF vars, SchemaInv, TypeOK, Prefix, Believes, Pending
  <1>2. ASSUME NEW i \in Instances, Boot(i) PROVE SchemaInv'
    <2>1. Believes(i)'
      BY <1>0, <1>2 DEF Boot, GoTo, Believes, TypeOK
    <2> QED
      BY <1>0, <1>2, <2>1, SameFiles DEF Boot, GoTo, TypeOK
  <1>3. ASSUME NEW i \in Instances, AskLock(i) PROVE SchemaInv'
    <2>1. Believes(i)'
      BY <1>0, <1>3, SessionsAssumption
         DEF AskLock, SessionFor, Idle, Keep, GoTo, Believes, TypeOK
    <2> QED
      BY <1>0, <1>3, <2>1, SameFiles DEF AskLock, Keep, GoTo, TypeOK
  <1>4. ASSUME NEW i \in Instances, TakeLock(i) PROVE SchemaInv'
    <2>1. Believes(i)'
      BY <1>0, <1>4 DEF TakeLock, GoTo, Believes, TypeOK
    <2> QED
      BY <1>0, <1>4, <2>1, SameFiles DEF TakeLock, Leave, Keep, GoTo, TypeOK
  <1>5. ASSUME NEW i \in Instances, Read(i) PROVE SchemaInv'
    <2>1. Believes(i)'
      BY <1>0, <1>5 DEF Read, GoTo, Believes, TypeOK
    <2> QED
      BY <1>0, <1>5, <2>1, SameFiles DEF Read, Leave, Keep, GoTo, TypeOK
  <1>6. ASSUME NEW i \in Instances, Execute(i) PROVE SchemaInv'
    <2>1. done' = done /\ applied' = applied /\ Pending(i)' # {}
      BY <1>6 DEF Execute, Pending
    <2>2. PICK s \in SessionFor(i) :
            IF NextFile(i) \in applied
            THEN GoTo(i, "raise") /\ Leave(i, s)
            ELSE GoTo(i, "commit") /\ Keep(i, s)
      BY <1>6 DEF Execute
    <2>3. s # NULL
      BY SessionsAssumption, <2>2 DEF SessionFor, Idle
    <2>4. pc'[i] = "commit" => conn'[i] # NULL
      BY <1>0, <2>2, <2>3 DEF GoTo, Keep, TypeOK
    <2>5. Believes(i)'
      BY <1>0, <2>1, <2>2, <2>4 DEF GoTo, Believes, TypeOK
    <2> QED
      BY <1>0, <2>1, <2>2, <2>5, SameFiles DEF Leave, Keep, GoTo, TypeOK
  <1>7. ASSUME NEW i \in Instances, Commit(i) PROVE SchemaInv'
    <2> DEFINE v == NextFile(i)
    <2>1. v \in Pending(i) /\ \A w \in Pending(i) : v <= w
      BY <1>0, <1>7, NextIsSmallest DEF Commit, Believes
    <2>2. v \in 1 .. FilesOf[i] /\ FilesOf[i] \in Nat
      BY <2>1, ReleasesAssumption DEF Pending
    <2>3. applied' = applied \cup {v} /\ done' = [done EXCEPT ![i] = @ \cup {v}]
      BY <1>7 DEF Commit
    <2> HIDE DEF v
    <2>4. \A w \in 1 .. v : w \in applied'
      <3> SUFFICES ASSUME NEW w \in 1 .. v, w # v PROVE w \in applied
        BY <2>3
      <3>1. w \notin Pending(i) /\ w \in 1 .. FilesOf[i]
        BY <2>1, <2>2
      <3> QED
        BY <1>0, <3>1 DEF Pending, Believes
    <2>5. Prefix'
      BY <2>3, <2>4 DEF Prefix, SchemaInv
    <2>6. ASSUME NEW j \in Instances PROVE Believes(j)'
      <3>1. CASE j = i
        BY <1>0, <1>7, <2>3, <3>1 DEF Commit, GoTo, Believes, TypeOK
      <3>2. CASE j # i
        BY <1>0, <1>7, <2>3, <3>2
           DEF Commit, Leave, Keep, GoTo, Believes, Pending, TypeOK
      <3> QED
        BY <3>1, <3>2
    <2> QED
      BY <1>0, <2>5, <2>6 DEF SchemaInv
  <1>8. ASSUME NEW i \in Instances, UpToDate(i) PROVE SchemaInv'
    <2>1. Believes(i)'
      BY <1>0, <1>8 DEF UpToDate, GoTo, Believes, Pending, TypeOK
    <2> QED
      BY <1>0, <1>8, <2>1, SameFiles DEF UpToDate, GoTo, TypeOK
  <1>9. ASSUME NEW i \in Instances, Unlock(i) PROVE SchemaInv'
    <2>1. pc[i] = "unlock" => 1 .. FilesOf[i] \subseteq applied
      BY <1>0 DEF Believes, Pending
    <2>2. Believes(i)'
      BY <1>0, <1>9, <2>1 DEF Unlock, GoTo, Believes, TypeOK
    <2> QED
      BY <1>0, <1>9, <2>2, SameFiles DEF Unlock, Keep, GoTo, TypeOK
  <1>10. ASSUME NEW i \in Instances, Die(i) PROVE SchemaInv'
    <2>1. Believes(i)'
      BY <1>0, <1>10 DEF Die, GoTo, Believes, TypeOK
    <2> QED
      BY <1>0, <1>10, <2>1, SameFiles DEF Die, Keep, GoTo, TypeOK
  <1> QED
    BY <1>1, <1>2, <1>3, <1>4, <1>5, <1>6, <1>7, <1>8, <1>9, <1>10 DEF Next, Step

(* The table, the locks and what instances remember keep their types.      *)
THEOREM TypeCorrect == Spec => []TypeOK
  <1>1. SchemaInv => TypeOK
    BY DEF SchemaInv
  <1> QED
    BY <1>1, SchemaInit, SchemaStep, PTL DEF Spec

(* The schema is always some release's, and an instance serves only on one *)
(* that has all of its files: with a pooler or without, for any number of  *)
(* instances of any releases that boot and die as they like.               *)
THEOREM Release == Spec => []SchemaIsARelease
  <1>1. SchemaInv => SchemaIsARelease
    BY DEF SchemaInv, Prefix, Believes, SchemaIsARelease
  <1> QED
    BY <1>1, SchemaInit, SchemaStep, PTL DEF Spec

----------------------------------------------------------------------------
\* Connected directly.

Holding == {"read", "apply", "commit", "unlock"}

\* Instance i holds the lock, in its session, from the read to the unlock, and
\* as long as it applies files nobody else does.
HoldsLock(i) ==
  /\ pc[i] \notin {"raise", "failed"}
  /\ pc[i] \in {"down", "lock", "serving"} => conn[i] = NULL
  /\ pc[i] \in Holding => conn[i] # NULL /\ held[conn[i]] > 0
  /\ pc[i] \in {"apply", "commit"} => done[i] = applied

OwnSessions ==
  \A i, j \in Instances : conn[i] = conn[j] /\ conn[i] # NULL => i = j

HeldBySomeone ==
  \A s \in Sessions : held[s] > 0 => \E i \in Instances : conn[i] = s /\ pc[i] \in Holding

OneHolder == \A s, t \in Sessions : held[s] > 0 /\ held[t] > 0 => s = t

LockInv ==
  /\ \A i \in Instances : HoldsLock(i)
  /\ OwnSessions /\ HeldBySomeone /\ OneHolder

LEMMA LockInit == Init => LockInv
  BY DEF Init, LockInv, HoldsLock, OwnSessions, HeldBySomeone, OneHolder, Holding

LEMMA OneAtATime ==
  ASSUME SchemaInv, LockInv, NEW i \in Instances, NEW j \in Instances,
         pc[i] \in Holding, pc[j] \in Holding
  PROVE  i = j
  <1>1. conn[i] \in Sessions /\ conn[j] \in Sessions
    BY DEF SchemaInv, TypeOK, LockInv, HoldsLock
  <1>2. conn[i] = conn[j] /\ conn[i] # NULL
    BY <1>1 DEF LockInv, HoldsLock, OneHolder
  <1> QED
    BY <1>2 DEF LockInv, OwnSessions

LEMMA LockStep == ~ Pooled /\ SchemaInv /\ LockInv /\ [Next]_vars => LockInv'
  <1> SUFFICES ASSUME ~ Pooled, SchemaInv, LockInv, [Next]_vars PROVE LockInv'
    OBVIOUS
  <1>0. TypeOK /\ TypeOK' /\ NULL \notin Sessions /\ (\A i \in Instances : Believes(i))
    BY TypeStep, SessionsAssumption DEF SchemaInv
  <1>1. CASE UNCHANGED vars
    BY <1>1
       DEF vars, LockInv, HoldsLock, OwnSessions, HeldBySomeone, OneHolder
  <1>2. ASSUME NEW i \in Instances, Boot(i) PROVE LockInv'
    BY <1>0, <1>2
       DEF Boot, GoTo, LockInv, HoldsLock, OwnSessions, HeldBySomeone, OneHolder,
           Holding, TypeOK
  <1>3. ASSUME NEW i \in Instances, AskLock(i) PROVE LockInv'
    BY <1>0, <1>3
       DEF AskLock, SessionFor, Idle, Keep, GoTo, LockInv, HoldsLock, OwnSessions,
           HeldBySomeone, OneHolder, Holding, TypeOK
  <1>4. ASSUME NEW i \in Instances, TakeLock(i) PROVE LockInv'
    <2>1. /\ conn' = conn /\ pc' = [pc EXCEPT ![i] = "read"]
          /\ applied' = applied /\ done' = done
      BY <1>0, <1>4 DEF TakeLock, Leave, Keep, GoTo, TypeOK
    <2>2. /\ conn[i] \in Sessions
          /\ held'[conn[i]] > 0
          /\ \A s \in Sessions \ {conn[i]} : held'[s] = held[s] /\ held[s] = 0
      BY <1>0, <1>4 DEF TakeLock, MayLock, Believes, TypeOK
    <2>3. (\A j \in Instances : HoldsLock(j))'
      BY <1>0, <2>1, <2>2 DEF LockInv, HoldsLock, OwnSessions, Holding, TypeOK
    <2>4. OwnSessions' /\ HeldBySomeone' /\ OneHolder'
      BY <1>0, <2>1, <2>2
         DEF LockInv, OwnSessions, HeldBySomeone, OneHolder, Holding, TypeOK
    <2> QED
      BY <2>3, <2>4 DEF LockInv
  <1>5. ASSUME NEW i \in Instances, Read(i) PROVE LockInv'
    <2>1. conn' = conn
      BY <1>0, <1>5 DEF Read, SessionFor, Leave, Keep, LockInv, HoldsLock, Holding, TypeOK
    <2> QED
      BY <1>0, <1>5, <2>1
         DEF Read, GoTo, LockInv, HoldsLock, OwnSessions, HeldBySomeone, OneHolder,
             Holding, TypeOK
  <1>6. ASSUME NEW i \in Instances, Execute(i) PROVE LockInv'
    <2>1. NextFile(i) \notin applied
      BY <1>6, NextIsSmallest DEF Execute, LockInv, HoldsLock, Pending
    <2>2. conn' = conn
      BY <1>0, <1>6, <2>1
         DEF Execute, SessionFor, Keep, LockInv, HoldsLock, Holding, TypeOK
    <2>3. pc' = [pc EXCEPT ![i] = "commit"]
      BY <1>6, <2>1 DEF Execute, GoTo
    <2> QED
      BY <1>0, <1>6, <2>2, <2>3
         DEF Execute, LockInv, HoldsLock, OwnSessions, HeldBySomeone, OneHolder,
             Holding, TypeOK
  <1>7. ASSUME NEW i \in Instances, Commit(i) PROVE LockInv'
    <2>1. \A j \in Instances \ {i} : pc[j] \notin Holding
      BY <1>7, OneAtATime DEF Commit, Holding
    <2>2. /\ conn' = conn /\ held' = held
          /\ pc' = [pc EXCEPT ![i] = "apply"]
          /\ applied' = applied \cup {NextFile(i)}
          /\ done' = [done EXCEPT ![i] = @ \cup {NextFile(i)}]
      BY <1>0, <1>7 DEF Commit, Leave, Keep, GoTo, TypeOK
    <2>3. (\A j \in Instances : HoldsLock(j))'
      BY <1>0, <1>7, <2>1, <2>2 DEF Commit, LockInv, HoldsLock, Holding, TypeOK
    <2>4. OwnSessions' /\ HeldBySomeone' /\ OneHolder'
      BY <1>0, <1>7, <2>2
         DEF Commit, LockInv, OwnSessions, HeldBySomeone, OneHolder, Holding, TypeOK
    <2> QED
      BY <2>3, <2>4 DEF LockInv
  <1>8. ASSUME NEW i \in Instances, UpToDate(i) PROVE LockInv'
    BY <1>0, <1>8
       DEF UpToDate, GoTo, LockInv, HoldsLock, OwnSessions, HeldBySomeone, OneHolder,
           Holding, TypeOK
  <1>9. ASSUME NEW i \in Instances, Unlock(i) PROVE LockInv'
    <2>1. /\ pc[i] = "unlock" /\ conn[i] \in Sessions
          /\ held' = [held EXCEPT ![conn[i]] = 0]
          /\ conn' = [conn EXCEPT ![i] = NULL]
          /\ pc' = [pc EXCEPT ![i] = "serving"]
          /\ applied' = applied /\ done' = done
      BY <1>0, <1>9
         DEF Unlock, SessionFor, Keep, GoTo, LockInv, HoldsLock, Holding, TypeOK
    <2>2. \A j \in Instances \ {i} : pc[j] \notin Holding
      BY <2>1, OneAtATime DEF Holding
    <2> QED
      BY <1>0, <2>1, <2>2
         DEF LockInv, HoldsLock, OwnSessions, HeldBySomeone, OneHolder, Holding, TypeOK
  <1>10. ASSUME NEW i \in Instances, Die(i) PROVE LockInv'
    <2>1. /\ conn' = [conn EXCEPT ![i] = NULL]
          /\ pc' = [pc EXCEPT ![i] = "down"]
          /\ applied' = applied /\ done' = done
      BY <1>10 DEF Die, Keep, GoTo
    <2>2. \A s \in Sessions : held'[s] = IF s = conn[i] THEN 0 ELSE held[s]
      BY <1>0, <1>10 DEF Die, TypeOK
    <2>3. ASSUME NEW j \in Instances PROVE HoldsLock(j)'
      BY <1>0, <2>1, <2>2 DEF LockInv, HoldsLock, OwnSessions, Holding, TypeOK
    <2>4. OwnSessions' /\ OneHolder'
      BY <1>0, <2>1, <2>2 DEF LockInv, OwnSessions, OneHolder, TypeOK
    <2>5. HeldBySomeone'
      BY <1>0, <2>1, <2>2 DEF LockInv, HeldBySomeone, TypeOK
    <2> QED
      BY <2>3, <2>4, <2>5 DEF LockInv
  <1> QED
    BY <1>1, <1>2, <1>3, <1>4, <1>5, <1>6, <1>7, <1>8, <1>9, <1>10 DEF Next, Step

(* db.py: the advisory lock serializes the instances and the loser finds   *)
(* nothing left to do.  True whenever no pooler stands in between: nobody  *)
(* fails to boot because another instance migrated, at once or before.     *)
THEOREM Serialized == ~ Pooled => (Spec => []LoserFindsNothing)
  <1> SUFFICES ASSUME ~ Pooled PROVE Spec => []LoserFindsNothing
    OBVIOUS
  <1>1. SchemaInv /\ LockInv /\ [Next]_vars => (SchemaInv /\ LockInv)'
    BY SchemaStep, LockStep
  <1>2. LockInv => LoserFindsNothing
    BY DEF LockInv, HoldsLock, LoserFindsNothing
  <1> QED
    BY <1>1, <1>2, SchemaInit, LockInit, PTL DEF Spec
=============================================================================
