--------------------------- MODULE PostingProofs ---------------------------
(***************************************************************************)
(* Proofs about Posting, beside the walks and changes of Browse, for any   *)
(* calls, keys, tries and missions posted earlier.                         *)
(*                                                                         *)
(* What makes one answer per key inductive is what is not committed yet: a *)
(* row that is inserted shares its key with no other, committed or not; a  *)
(* request that hit a conflict has a committed row to find.                *)
(*                                                                         *)
(* What makes a walk whole is that its cursor is the last mission it was   *)
(* shown: a mission that was there all along was shown, or is past the     *)
(* cursor and on a page to come (Reaches).                                 *)
(***************************************************************************)
EXTENDS Browse, TLAPS, FiniteSetTheorems, FunctionTheorems, SequenceTheorems

Request ==
  [ call: Calls, try: Nat, stage: {"received", "inserted", "replay"},
    row: Missions \cup {NULL} ]

PostTypes ==
  /\ table \subseteq Missions
  /\ callers \in [Calls -> Caller]
  /\ requests \subseteq Request
  /\ now \in 0 .. MaxTime

Inserted(q) == q.stage = "inserted"

\* The request fits the key of its call, and the table.
Fits(q) ==
  /\ Inserted(q) => /\ q.row \in Missions
                    /\ q.row.key = KeyOf[q.call]
                    /\ \A r \in table : q.row.key # NULL => r.key # q.row.key
  /\ q.stage = "replay" => SameKey(KeyOf[q.call]) # {}

UniqueKeys == \A r, s \in table : r.key = s.key /\ r.key # NULL => r = s

UniqueInserts ==
  \A p, q \in requests :
    Inserted(p) /\ Inserted(q) /\ p.row.key = q.row.key /\ p.row.key # NULL => p = q

Answered(c) ==
  /\ callers[c].answer # "conflict"
  /\ callers[c].answer = "posted" /\ KeyOf[c] # NULL =>
       \E r \in table : r.key = KeyOf[c] /\ r.id = callers[c].mission

KeyInv ==
  /\ PostTypes /\ UniqueKeys /\ UniqueInserts
  /\ \A q \in requests : Fits(q)
  /\ \A c \in Calls : Answered(c)

LEMMA KeyInit == BrowseInit => KeyInv
  BY OldAssumption, NumbersAssumption
     DEF BrowseInit, PostInit, KeyInv, PostTypes, Caller, UniqueKeys, UniqueInserts,
         Fits, Answered

\* An answer that is true of the table, or is lost.
LEMMA AnswerKeeps ==
  ASSUME KeyInv, NEW q \in requests, NEW id \in Ids \cup {NULL},
         table' = table \/ \E r \in Missions : table' = table \cup {r},
         Answer(q, "posted", id),
         KeyOf[q.call] # NULL => \E r \in table' : r.key = KeyOf[q.call] /\ r.id = id
  PROVE  /\ requests' = requests \ {q}
         /\ callers' \in [Calls -> Caller]
         /\ (\A c \in Calls : Answered(c))'
  <1>1. requests' = requests \ {q} /\ q \in Request
    BY DEF Answer, KeyInv, PostTypes
  <1>2. q.call \in Calls /\ callers \in [Calls -> Caller]
    BY <1>1 DEF Request, KeyInv, PostTypes
  <1>3. ASSUME NEW c \in Calls, callers'[c] = callers[c] PROVE Answered(c)'
    BY <1>3 DEF KeyInv, Answered
  <1>4. CASE UNCHANGED callers
    BY <1>1, <1>2, <1>3, <1>4
  <1>5. CASE callers' = [callers EXCEPT ![q.call] =
                           [@ EXCEPT !.pc = "over", !.answer = "posted", !.mission = id]]
    <2> DEFINE new == [callers[q.call] EXCEPT !.pc = "over", !.answer = "posted",
                                              !.mission = id]
    <2>1. /\ callers'[q.call] \in Caller
          /\ callers'[q.call].answer = "posted"
          /\ callers'[q.call].mission = id
      <3>1. callers[q.call] \in Caller
        BY <1>2
      <3>2. new \in Caller /\ new.answer = "posted" /\ new.mission = id
        BY <3>1 DEF Caller
      <3>3. callers'[q.call] = new
        BY <1>2, <1>5
      <3> QED
        BY <3>2, <3>3
    <2>2. Answered(q.call)'
      BY <2>1 DEF Answered
    <2>3. \A c \in Calls : c # q.call => callers'[c] = callers[c]
      BY <1>2, <1>5
    <2>4. callers' \in [Calls -> Caller]
      BY <1>2, <1>5, <2>1
    <2> QED
      BY <1>1, <1>3, <2>2, <2>3, <2>4
  <1> QED
    BY <1>4, <1>5 DEF Answer

\* Steps that leave table and requests alone, but for requests that go away.
LEMMA FewerRequests ==
  ASSUME KeyInv, requests' \subseteq requests, table' = table
  PROVE  UniqueKeys' /\ UniqueInserts' /\ (\A q \in requests : Fits(q))'
  BY DEF KeyInv, UniqueKeys, UniqueInserts, Fits, SameKey

LEMMA SendKeeps ==
  ASSUME KeyInv, NEW c \in Calls, Send(c)
  PROVE  KeyInv'
  <1> DEFINE new == [callers[c] EXCEPT !.pc = "calling", !.try = @ + 1]
             q == [call |-> c, try |-> callers[c].try + 1, stage |-> "received", row |-> NULL]
  <1>1. callers \in [Calls -> Caller] /\ callers[c] \in Caller
    BY DEF KeyInv, PostTypes
  <1>2. /\ new \in Caller /\ new.answer = callers[c].answer
        /\ new.mission = callers[c].mission
    <2>1. callers[c].try + 1 \in Nat
      BY <1>1 DEF Caller
    <2>2. new = [callers[c] EXCEPT !.pc = "calling", !.try = callers[c].try + 1]
      BY <1>1 DEF Caller
    <2> QED
      BY <1>1, <2>1, <2>2 DEF Caller
  <1>3. callers' = [callers EXCEPT ![c] = new]
    BY <1>1 DEF Send
  <1>4. q \in Request /\ q.stage = "received"
    <2>1. callers[c].try + 1 \in Nat
      BY <1>1 DEF Caller
    <2> QED
      BY <2>1 DEF Request
  <1>5. requests' = requests \cup {q} /\ table' = table /\ now' = now
    BY DEF Send
  <1> HIDE DEF new, q
  <1>6. PostTypes'
    BY <1>1, <1>2, <1>3, <1>4, <1>5 DEF KeyInv, PostTypes
  <1>7. UniqueKeys' /\ UniqueInserts' /\ (\A p \in requests : Fits(p))'
    BY <1>4, <1>5 DEF KeyInv, UniqueKeys, UniqueInserts, Fits, SameKey, Inserted
  <1>8. (\A d \in Calls : Answered(d))'
    BY <1>1, <1>2, <1>3, <1>5 DEF KeyInv, Answered
  <1> QED
    BY <1>6, <1>7, <1>8 DEF KeyInv

LEMMA GiveUpKeeps ==
  ASSUME KeyInv, NEW c \in Calls, GiveUp(c)
  PROVE  KeyInv'
  <1> DEFINE new == [callers[c] EXCEPT !.pc = "over", !.answer = "unavailable"]
  <1>1. callers \in [Calls -> Caller] /\ callers[c] \in Caller
    BY DEF KeyInv, PostTypes
  <1>2. new \in Caller /\ new.answer = "unavailable"
    BY <1>1 DEF Caller
  <1>3. callers' = [callers EXCEPT ![c] = new]
    BY <1>1 DEF GiveUp
  <1> HIDE DEF new
  <1>4. PostTypes'
    BY <1>1, <1>2, <1>3 DEF GiveUp, KeyInv, PostTypes
  <1>5. UniqueKeys' /\ UniqueInserts' /\ (\A q \in requests : Fits(q))'
    BY FewerRequests DEF GiveUp
  <1>6. (\A d \in Calls : Answered(d))'
    BY <1>1, <1>2, <1>3 DEF GiveUp, KeyInv, Answered
  <1> QED
    BY <1>4, <1>5, <1>6 DEF KeyInv

LEMMA InsertKeeps ==
  ASSUME KeyInv, NEW q \in requests, Insert(q)
  PROVE  KeyInv'
  <1>1. q \in Request /\ q.call \in Calls
    BY DEF KeyInv, PostTypes, Request
  <1>2. PICK id \in Ids \ UsedIds :
          Become(q, [q EXCEPT !.stage = "inserted", !.row =
            [ id |-> id, key |-> KeyOf[q.call], created |-> now, by |-> Poster[q.call],
              status |-> "open", holder |-> NULL ]])
    BY DEF Insert
  <1> DEFINE row == [ id |-> id, key |-> KeyOf[q.call], created |-> now,
                      by |-> Poster[q.call], status |-> "open", holder |-> NULL ]
             new == [q EXCEPT !.stage = "inserted", !.row = row]
  <1>3. row \in Missions /\ row.key = KeyOf[q.call]
    BY <1>1, CallsAssumption DEF Missions, KeyInv, PostTypes
  <1>4. requests' = (requests \ {q}) \cup {new}
    BY <1>2 DEF Become
  <1> HIDE DEF row
  <1>5. new \in Request /\ new.stage = "inserted" /\ new.call = q.call /\ new.row = row
    BY <1>1, <1>3 DEF Request
  <1> HIDE DEF new
  <1>6. UNCHANGED <<table, callers, now>>
    BY DEF Insert
  <1>7. row.key # NULL =>
          /\ \A r \in table : r.key # row.key
          /\ \A p \in requests : Inserted(p) => p.row.key # row.key
    BY <1>3 DEF Insert, KeyIsFree, Inserting, Inserted
  <1>8. PostTypes'
    BY <1>4, <1>5, <1>6 DEF KeyInv, PostTypes
  <1>9. UniqueKeys' /\ (\A c \in Calls : Answered(c))'
    BY <1>6 DEF KeyInv, UniqueKeys, Answered
  <1>10. UniqueInserts'
    BY <1>4, <1>5, <1>7 DEF KeyInv, UniqueInserts, Inserted
  <1>11. (\A p \in requests : Fits(p))'
    BY <1>3, <1>4, <1>5, <1>6, <1>7 DEF KeyInv, Fits, SameKey, Inserted
  <1> QED
    BY <1>8, <1>9, <1>10, <1>11 DEF KeyInv

LEMMA CommitKeeps ==
  ASSUME KeyInv, NEW q \in requests, CommitInsert(q)
  PROVE  KeyInv'
  <1>1. /\ Inserted(q) /\ q.row \in Missions /\ q.row.key = KeyOf[q.call]
        /\ \A r \in table : q.row.key # NULL => r.key # q.row.key
    BY DEF CommitInsert, Inserted, KeyInv, Fits
  <1>2. table' = table \cup {q.row} /\ Answer(q, "posted", q.row.id) /\ now' = now
    BY DEF CommitInsert
  <1>3. q.row.id \in Ids
    BY <1>1 DEF Missions
  <1>4. /\ requests' = requests \ {q}
        /\ callers' \in [Calls -> Caller]
        /\ (\A c \in Calls : Answered(c))'
    BY <1>1, <1>2, <1>3, AnswerKeeps
  <1>5. PostTypes' /\ UniqueKeys' /\ UniqueInserts'
    BY <1>1, <1>2, <1>4 DEF KeyInv, PostTypes, UniqueKeys, UniqueInserts
  <1>6. (\A p \in requests : Fits(p))'
    <2> SUFFICES ASSUME NEW p \in requests, p # q PROVE Fits(p)'
      BY <1>4
    <2>1. Inserted(p) /\ p.row.key # NULL => q.row.key # p.row.key
      BY <1>1 DEF KeyInv, UniqueInserts
    <2> QED
      BY <1>2, <2>1 DEF KeyInv, Fits, SameKey
  <1> QED
    BY <1>4, <1>5, <1>6 DEF KeyInv

LEMMA ConflictKeeps ==
  ASSUME KeyInv, NEW q \in requests, Conflict(q)
  PROVE  KeyInv'
  <1> DEFINE new == [q EXCEPT !.stage = "replay"]
  <1>1. q \in Request /\ SameKey(KeyOf[q.call]) # {}
    BY DEF Conflict, KeyInv, PostTypes
  <1>2. new \in Request /\ new.stage = "replay" /\ new.call = q.call
    BY <1>1 DEF Request
  <1>3. requests' = (requests \ {q}) \cup {new} /\ UNCHANGED <<table, callers, now>>
    BY DEF Conflict, Become
  <1> HIDE DEF new
  <1> QED
    BY <1>1, <1>2, <1>3
       DEF KeyInv, PostTypes, UniqueKeys, UniqueInserts, Fits, Answered, SameKey, Inserted

LEMMA ReplayKeeps ==
  ASSUME KeyInv, NEW q \in requests, Replay(q)
  PROVE  KeyInv'
  <1>1. SameKey(KeyOf[q.call]) # {} /\ table' = table /\ now' = now
    BY DEF Replay, KeyInv, Fits
  <1>2. PICK r \in SameKey(KeyOf[q.call]) : Answer(q, "posted", r.id)
    BY <1>1 DEF Replay
  <1>3. r \in table /\ r.key = KeyOf[q.call] /\ r.id \in Ids
    BY <1>2 DEF SameKey, KeyInv, PostTypes, Missions
  <1>4. /\ requests' = requests \ {q}
        /\ callers' \in [Calls -> Caller]
        /\ (\A c \in Calls : Answered(c))'
    BY <1>1, <1>2, <1>3, AnswerKeeps
  <1>5. UniqueKeys' /\ UniqueInserts' /\ (\A p \in requests : Fits(p))'
    BY <1>1, <1>4, FewerRequests
  <1> QED
    BY <1>1, <1>4, <1>5 DEF KeyInv, PostTypes

LEMMA ChangeKeeps ==
  ASSUME KeyInv, Change
  PROVE  KeyInv'
  <1>1. PICK r \in table : \E s \in Step(r) : table' = (table \ {r}) \cup {s}
    BY DEF Change
  <1>2. PICK s \in Step(r) : table' = (table \ {r}) \cup {s}
    BY <1>1
  <1>3. UNCHANGED <<callers, requests, now>>
    BY DEF Change
  <1>4. r \in Missions /\ Disciples \subseteq Accounts
    BY DEF KeyInv, PostTypes, Disciples
  <1>5. s \in Missions /\ s.id = r.id /\ s.key = r.key
    BY <1>2, <1>4, ZenonT(40) DEF Step, Missions
  <1>6. PostTypes' /\ UniqueKeys' /\ UniqueInserts'
    BY <1>2, <1>3, <1>5 DEF KeyInv, PostTypes, UniqueKeys, UniqueInserts
  <1>7. (\A q \in requests : Fits(q))'
    BY <1>2, <1>3, <1>5 DEF KeyInv, Fits, SameKey
  <1>8. (\A c \in Calls : Answered(c))'
    BY <1>2, <1>3, <1>5 DEF KeyInv, Answered
  <1> QED
    BY <1>6, <1>7, <1>8 DEF KeyInv

LEMMA KeyStep == KeyInv /\ [BrowseNext]_browseVars => KeyInv'
  <1> SUFFICES ASSUME KeyInv, [BrowseNext]_browseVars PROVE KeyInv'
    OBVIOUS
  <1>1. CASE UNCHANGED postVars
    BY <1>1
       DEF postVars, KeyInv, PostTypes, UniqueKeys, UniqueInserts, Fits, Answered, SameKey
  <1>2. ASSUME NEW c \in Calls, Call(c) \/ Retry(c) \/ GiveUp(c) PROVE KeyInv'
    BY <1>2, SendKeeps, GiveUpKeeps DEF Call, Retry
  <1>3. ASSUME NEW q \in requests, Lose(q) PROVE KeyInv'
    BY <1>3, FewerRequests DEF Lose, KeyInv, PostTypes, Answered
  <1>4. ASSUME NEW q \in requests, Serve(q) PROVE KeyInv'
    BY <1>3, <1>4, InsertKeeps, CommitKeeps, ConflictKeeps, ReplayKeeps DEF Serve
  <1>5. CASE Tick
    BY <1>5, FewerRequests, NumbersAssumption DEF Tick, KeyInv, PostTypes, Answered
  <1>6. CASE UNCHANGED postVars \/ Begin \/ \E asked \in Limits : Page(asked)
    BY <1>1, <1>6 DEF Begin, Page
  <1> QED
    BY <1>1, <1>2, <1>4, <1>5, <1>6, ChangeKeeps DEF BrowseNext, PostNext, browseVars

(* Whoever posts under one key, from however many clients, with whatever   *)
(* retries, lost answers and servers that die, is told of the one mission  *)
(* on the board with that key, while missions go on changing hands.        *)
THEOREM OneMissionPerKey == BrowseSpec => []OneAnswerPerKey
  <1>1. KeyInv => OneAnswerPerKey
    <2> SUFFICES ASSUME KeyInv, NEW c \in Calls, KeyOf[c] # NULL,
                        callers[c].answer = "posted"
                 PROVE  {r.id : r \in SameKey(KeyOf[c])} = {callers[c].mission}
      BY DEF OneAnswerPerKey, KeyInv, Answered
    <2>1. PICK r \in table : r.key = KeyOf[c] /\ r.id = callers[c].mission
      BY DEF KeyInv, Answered
    <2>2. SameKey(KeyOf[c]) = {r}
      BY <2>1 DEF KeyInv, UniqueKeys, SameKey
    <2> QED
      BY <2>1, <2>2
  <1> QED
    BY <1>1, KeyInit, KeyStep, PTL DEF BrowseSpec

----------------------------------------------------------------------------
\* ORDER BY created_at DESC, id DESC.

Distinct(rows) == \A r, s \in rows : r.id = s.id => r = s

Ordered(rows, list) ==
  /\ list \in Seq(rows) /\ Len(list) \in Nat
  /\ \A i, j \in 1 .. Len(list) : i < j => Newer(list[i], list[j])
  /\ \A r \in rows : \E i \in 1 .. Len(list) : r = list[i]

\* What is compared of a row, and kept in a cursor.
Entry == [created : 0 .. MaxTime, id : Ids]

LEMMA NewerOrders ==
  /\ \A r \in Missions \cup Entry : r.created \in Int /\ r.id \in Int
  /\ \A r \in Missions \cup Entry : ~ Newer(r, r)
  /\ \A r, s, u \in Missions \cup Entry : Newer(r, s) /\ Newer(s, u) => Newer(r, u)
  /\ \A r, s \in Missions \cup Entry : r.id # s.id => Newer(r, s) \/ Newer(s, r)
  <1>1. \A r \in Missions \cup Entry : r.created \in Int /\ r.id \in Int
    <2>1. 0 .. MaxTime \subseteq Int /\ Ids \subseteq Int
      BY NumbersAssumption
    <2>2. ASSUME NEW r \in Missions PROVE r.created \in Int /\ r.id \in Int
      BY <2>1 DEF Missions
    <2>3. ASSUME NEW r \in Entry PROVE r.created \in Int /\ r.id \in Int
      BY <2>1 DEF Entry
    <2> QED
      BY <2>2, <2>3
  <1> QED
    BY <1>1 DEF Newer

\* The number of rows above one is its place.
LEMMA ListedOrders ==
  ASSUME NEW rows, rows \subseteq Missions, IsFiniteSet(rows), Distinct(rows)
  PROVE  Ordered(rows, Listed(rows)) /\ Len(Listed(rows)) = Cardinality(rows)
  <1> DEFINE Above(r) == {s \in rows : Newer(s, r)}
             rank == [r \in rows |-> Cardinality(Above(r))]
  <1>1. PICK n : n = Cardinality(rows)
    OBVIOUS
  <1>2. n \in Nat /\ rows \in SUBSET rows
    BY <1>1, FS_CardinalityType
  <1>3. /\ \A r \in rows : ~ Newer(r, r)
        /\ \A r, s, u \in rows : Newer(r, s) /\ Newer(s, u) => Newer(r, u)
        /\ \A r, s \in rows : r # s => Newer(r, s) \/ Newer(s, r)
    BY NewerOrders DEF Distinct
  <1>4. ASSUME NEW r \in rows
        PROVE  /\ Above(r) \in SUBSET rows /\ r \notin Above(r)
               /\ IsFiniteSet(Above(r))
               /\ rank[r] = Cardinality(Above(r)) /\ rank[r] \in Nat
    <2>1. Above(r) \in SUBSET rows /\ r \notin Above(r)
      BY <1>3
    <2>2. IsFiniteSet(Above(r))
      BY <2>1, FS_Subset
    <2> QED
      BY <2>1, <2>2, FS_CardinalityType
  <1>5. ASSUME NEW r \in rows
        PROVE  rank[r] \in 0 .. n - 1
    <2>1. Cardinality(Above(r)) <= n /\ Cardinality(Above(r)) # n
      BY <1>1, <1>4, FS_Subset
    <2> QED
      BY <1>2, <1>4, <2>1
  <1>6. ASSUME NEW r \in rows, NEW s \in rows, Newer(r, s)
        PROVE  rank[r] < rank[s]
    <2>1. Above(r) \in SUBSET Above(s) /\ r \in Above(s)
      BY <1>3, <1>6
    <2>2. Cardinality(Above(r)) <= Cardinality(Above(s))
          /\ Cardinality(Above(r)) # Cardinality(Above(s))
      BY <1>4, <2>1, FS_Subset
    <2> QED
      BY <1>4, <2>2
  <1>7. \A r, s \in rows : rank[r] = rank[s] => r = s
    <2> SUFFICES ASSUME NEW r \in rows, NEW s \in rows, r # s
                 PROVE  rank[r] # rank[s]
      OBVIOUS
    <2>1. rank[r] \in Nat /\ rank[s] \in Nat
      BY <1>4
    <2> HIDE DEF rank
    <2> QED
      BY <1>3, <1>6, <2>1
  <1>8. \A i \in 1 .. n : \E r \in rows : rank[r] = i - 1
    <2>1. IsFiniteSet(0 .. n - 1) /\ Cardinality(0 .. n - 1) = n
      BY <1>2, FS_Interval
    <2>2. rank \in Injection(rows, 0 .. n - 1)
      BY <1>5, <1>7, Fun_IsInj
    <2>3. rank \in Surjection(rows, 0 .. n - 1)
      BY <1>1, <2>1, <2>2, FS_Injection
    <2> HIDE DEF rank
    <2>4. \A k \in 0 .. n - 1 : \E r \in rows : rank[r] = k
      BY <2>3, Fun_SurjectionProperties
    <2>5. \A i \in 1 .. n : i - 1 \in 0 .. n - 1
      BY <1>2
    <2> QED
      BY <2>4, <2>5
  <1> DEFINE list == Listed(rows)
  <1>9. ASSUME NEW i \in 1 .. n
        PROVE  list[i] \in rows /\ rank[list[i]] = i - 1
    <2>1. \E r \in rows : Cardinality(Above(r)) = i - 1
      BY <1>8
    <2>2. list[i] = CHOOSE r \in rows : Cardinality(Above(r)) = i - 1
      BY <1>1 DEF Listed
    <2> HIDE DEF list
    <2>3. list[i] \in rows /\ Cardinality(Above(list[i])) = i - 1
      BY <2>1, <2>2
    <2> QED
      BY <2>3
  <1>10. list = [i \in 1 .. n |-> list[i]]
    BY <1>1, SMTT(30) DEF Listed
  <1> HIDE DEF list
  <1>11. list \in Seq(rows) /\ Len(list) = n
    <2>1. list \in [1 .. n -> rows]
      BY <1>9, <1>10
    <2> QED
      BY <1>2, <2>1, SeqDef, LenProperties
  <1>12. ASSUME NEW i \in 1 .. n, NEW j \in 1 .. n, i < j
         PROVE  Newer(list[i], list[j])
    <2>1. /\ list[i] \in rows /\ rank[list[i]] = i - 1
          /\ list[j] \in rows /\ rank[list[j]] = j - 1
      BY <1>9
    <2> HIDE DEF rank
    <2>2. list[i] # list[j] /\ ~ (rank[list[j]] < rank[list[i]])
      BY <1>2, <1>12, <2>1
    <2> QED
      BY <1>3, <1>6, <2>1, <2>2
  <1>13. ASSUME NEW r \in rows
         PROVE  \E i \in 1 .. n : r = list[i]
    <2>1. PICK i \in 1 .. n : rank[r] = i - 1
      <3>1. rank[r] \in 0 .. n - 1
        BY <1>5
      <3>2. PICK k \in 0 .. n - 1 : k = rank[r]
        BY <3>1
      <3>3. k + 1 \in 1 .. n /\ (k + 1) - 1 = k
        BY <1>2
      <3> QED
        BY <3>2, <3>3
    <2>2. list[i] \in rows /\ rank[list[i]] = rank[r]
      BY <1>9, <2>1
    <2> HIDE DEF rank
    <2> QED
      BY <1>7, <2>2
  <1> QED
    BY <1>1, <1>2, <1>11, <1>12, <1>13 DEF Ordered, list

----------------------------------------------------------------------------
\* Ids: no row, committed or not, has another's.

IdInv ==
  /\ IsFiniteSet(table) /\ IsFiniteSet(requests)
  /\ Distinct(table)
  /\ \A q \in requests : Inserted(q) => \A r \in table : r.id # q.row.id
  /\ \A p, q \in requests : Inserted(p) /\ Inserted(q) /\ p.row.id = q.row.id => p = q

\* A step of requests that puts no new row in place, and of table none.
LEMMA NoNewRow ==
  ASSUME IdInv, table' = table, IsFiniteSet(requests'),
         \A q \in requests' : q \in requests \/ ~ Inserted(q)
  PROVE  IdInv'
  BY DEF IdInv, Inserted, Distinct

LEMMA InsertIds ==
  ASSUME KeyInv, IdInv, NEW q \in requests, Insert(q)
  PROVE  IdInv'
  <1>1. q \in Request
    BY DEF KeyInv, PostTypes
  <1>2. PICK id \in Ids \ UsedIds :
          Become(q, [q EXCEPT !.stage = "inserted", !.row =
            [ id |-> id, key |-> KeyOf[q.call], created |-> now, by |-> Poster[q.call],
              status |-> "open", holder |-> NULL ]])
    BY DEF Insert
  <1>3. PICK new : new = [q EXCEPT !.stage = "inserted", !.row =
            [ id |-> id, key |-> KeyOf[q.call], created |-> now, by |-> Poster[q.call],
              status |-> "open", holder |-> NULL ]]
    OBVIOUS
  <1>4. Inserted(new) /\ new.row.id = id
    BY <1>1, <1>3 DEF Request, Inserted
  <1>5. requests' = (requests \ {q}) \cup {new} /\ table' = table
    BY <1>2, <1>3 DEF Become, Insert
  <1>6. IsFiniteSet(requests')
    BY <1>5, FS_RemoveElement, FS_AddElement DEF IdInv
  <1>7. /\ \A r \in table : r.id # id
        /\ \A p \in requests : Inserted(p) => p.row.id # id
    BY <1>2 DEF UsedIds, Inserting, Inserted
  <1> QED
    BY <1>4, <1>5, <1>6, <1>7 DEF IdInv, Distinct

LEMMA CommitIds ==
  ASSUME KeyInv, IdInv, NEW q \in requests, CommitInsert(q)
  PROVE  /\ IdInv' /\ table' = table \cup {q.row} /\ q.row \in Missions
         /\ \A r \in table : r.id # q.row.id
  <1>1. Inserted(q) /\ q.row \in Missions
    BY DEF CommitInsert, Inserted, KeyInv, Fits
  <1>2. table' = table \cup {q.row} /\ requests' = requests \ {q}
    BY DEF CommitInsert, Answer
  <1>3. IsFiniteSet(table') /\ IsFiniteSet(requests')
    BY <1>2, FS_RemoveElement, FS_AddElement DEF IdInv
  <1> QED
    BY <1>1, <1>2, <1>3 DEF IdInv, Distinct

LEMMA ChangeIds ==
  ASSUME KeyInv, IdInv, Change
  PROVE  /\ IdInv'
         /\ \A s \in table' : \E r \in table : s.id = r.id /\ s.created = r.created
  <1>1. PICK r \in table : \E s \in Step(r) : table' = (table \ {r}) \cup {s}
    BY DEF Change
  <1>2. PICK s \in Step(r) : table' = (table \ {r}) \cup {s}
    BY <1>1
  <1>3. requests' = requests /\ r \in Missions
    BY DEF Change, KeyInv, PostTypes
  <1>4. s.id = r.id /\ s.created = r.created
    BY <1>2, <1>3 DEF Step, Missions
  <1>5. IsFiniteSet(table')
    BY <1>2, FS_RemoveElement, FS_AddElement DEF IdInv
  <1> QED
    BY <1>2, <1>3, <1>4, <1>5 DEF IdInv, Distinct

LEMMA RequestsFinite ==
  ASSUME IdInv, NEW x, requests' \subseteq requests \cup {x}
  PROVE  IsFiniteSet(requests')
  <1>1. IsFiniteSet(requests \cup {x})
    BY FS_AddElement DEF IdInv
  <1> QED
    BY <1>1, FS_Subset

LEMMA IdStep == KeyInv /\ IdInv /\ [BrowseNext]_browseVars => IdInv'
  <1> SUFFICES ASSUME KeyInv, IdInv, [BrowseNext]_browseVars PROVE IdInv'
    OBVIOUS
  <1>1. CASE UNCHANGED postVars
    BY <1>1 DEF postVars, IdInv, Distinct
  <1>2. ASSUME NEW c \in Calls, Call(c) \/ Retry(c) PROVE IdInv'
    <2>1. PICK q : q = [ call |-> c, try |-> callers[c].try + 1, stage |-> "received",
                         row |-> NULL ]
      OBVIOUS
    <2>2. requests' = requests \cup {q} /\ table' = table /\ ~ Inserted(q)
      BY <1>2, <2>1 DEF Call, Retry, Send, Inserted
    <2> QED
      BY <2>2, NoNewRow, RequestsFinite
  <1>3. ASSUME NEW c \in Calls, GiveUp(c) PROVE IdInv'
    BY <1>3 DEF GiveUp, IdInv, Distinct
  <1>4. ASSUME NEW q \in requests, Conflict(q) PROVE IdInv'
    <2>1. PICK new : new = [q EXCEPT !.stage = "replay"]
      OBVIOUS
    <2>2. new.stage = "replay"
      BY <2>1 DEF KeyInv, PostTypes, Request
    <2>3. requests' = (requests \ {q}) \cup {new} /\ table' = table /\ ~ Inserted(new)
      BY <1>4, <2>1, <2>2 DEF Conflict, Become, Inserted
    <2> QED
      BY <2>3, NoNewRow, RequestsFinite
  <1>5. ASSUME NEW q \in requests, Replay(q) \/ Lose(q) PROVE IdInv'
    <2>1. requests' = requests \ {q} /\ table' = table
      BY <1>5 DEF Replay, Lose, Answer
    <2> QED
      BY <2>1, NoNewRow, RequestsFinite
  <1>6. CASE Tick
    BY <1>6 DEF Tick, IdInv, Distinct
  <1>7. ASSUME NEW q \in requests, Serve(q) PROVE IdInv'
    BY <1>4, <1>5, <1>7, InsertIds, CommitIds DEF Serve
  <1>8. CASE UNCHANGED postVars \/ Begin \/ \E asked \in Limits : Page(asked)
    BY <1>1, <1>8 DEF Begin, Page
  <1> QED
    BY <1>1, <1>2, <1>3, <1>6, <1>7, <1>8, ChangeIds DEF BrowseNext, PostNext, browseVars

LEMMA IdStart == BrowseInit => IdInv
  BY OldAssumption, FS_EmptySet DEF BrowseInit, PostInit, IdInv, Distinct

----------------------------------------------------------------------------
\* What a call was told, and the tries it has made.

Quiet(c) == c.pc # "over" => c.answer = "none" /\ c.mission = NULL

CallInv ==
  /\ \A c \in Calls : Quiet(callers[c])
  /\ \A c \in Calls : callers[c].answer = "posted" <=> callers[c].mission # NULL
  /\ \A q \in requests : q.try \in 1 .. callers[q.call].try

\* A caller becomes new, and no request is made that it does not count.
LEMMA CallerMoves ==
  ASSUME KeyInv, CallInv, NEW c \in Calls, NEW new \in Caller,
         callers' = [callers EXCEPT ![c] = new], Quiet(new),
         new.answer = "posted" <=> new.mission # NULL,
         callers[c].try <= new.try,
         \A q \in requests' : \/ \E p \in requests : q.call = p.call /\ q.try = p.try
                              \/ q.call = c /\ q.try \in 1 .. new.try
  PROVE  CallInv'
  <1>1. /\ callers \in [Calls -> Caller] /\ requests \subseteq Request
        /\ callers[c].try \in Nat /\ new.try \in Nat
    BY DEF KeyInv, PostTypes, Caller
  <1>2. ASSUME NEW q \in requests'
        PROVE  q.try \in 1 .. callers'[q.call].try
    <2>1. CASE q.call = c /\ q.try \in 1 .. new.try
      BY <1>1, <2>1
    <2>2. CASE \E p \in requests : q.call = p.call /\ q.try = p.try
      <3>1. PICK p \in requests : q.call = p.call /\ q.try = p.try
        BY <2>2
      <3>2. q.call \in Calls /\ q.try \in 1 .. callers[q.call].try
        BY <1>1, <3>1 DEF CallInv, Request
      <3>3. CASE q.call = c
        BY <1>1, <3>2, <3>3
      <3>4. CASE q.call # c
        BY <1>1, <3>2, <3>4
      <3> QED
        BY <3>3, <3>4
    <2> QED
      BY <2>1, <2>2
  <1> QED
    BY <1>1, <1>2 DEF CallInv

LEMMA CallersStay ==
  ASSUME CallInv, UNCHANGED callers,
         \A q \in requests' : \E p \in requests : q.call = p.call /\ q.try = p.try
  PROVE  CallInv'
  BY DEF CallInv

LEMMA AnswerCalls ==
  ASSUME KeyInv, CallInv, NEW q \in requests, NEW answer \in {"posted", "conflict"},
         NEW id \in Ids \cup {NULL}, answer = "posted" <=> id # NULL, Answer(q, answer, id)
  PROVE  CallInv'
  <1>1. /\ callers \in [Calls -> Caller] /\ q.call \in Calls
        /\ requests' = requests \ {q}
    BY DEF KeyInv, PostTypes, Request, Answer
  <1>2. PICK b \in Caller : b = callers[q.call]
    BY <1>1
  <1>3. PICK new : new = [b EXCEPT !.pc = "over", !.answer = answer, !.mission = id]
    OBVIOUS
  <1>4. /\ new \in Caller /\ new.pc = "over" /\ new.answer = answer /\ new.mission = id
        /\ new.try = b.try /\ b.try \in Nat
    BY <1>3 DEF Caller
  <1>5. CASE UNCHANGED callers
    BY <1>1, <1>5, CallersStay
  <1>6. CASE callers' = [callers EXCEPT ![q.call] = new]
    <2>1. \A p \in requests' : \E o \in requests : p.call = o.call /\ p.try = o.try
      BY <1>1
    <2>2. callers[q.call].try <= new.try
      BY <1>2, <1>4
    <2>3. Quiet(new) /\ (new.answer = "posted" <=> new.mission # NULL)
      BY <1>4 DEF Quiet
    <2> QED
      BY <1>1, <1>4, <1>6, <2>1, <2>2, <2>3, CallerMoves
  <1> QED
    BY <1>2, <1>3, <1>5, <1>6 DEF Answer

LEMMA CallStep == KeyInv /\ CallInv /\ [BrowseNext]_browseVars => CallInv'
  <1> SUFFICES ASSUME KeyInv, CallInv, [BrowseNext]_browseVars PROVE CallInv'
    OBVIOUS
  <1>1. /\ callers \in [Calls -> Caller] /\ requests \subseteq Request
        /\ \A r \in table : r.id \in Ids
    BY DEF KeyInv, PostTypes, Missions
  <1>2. CASE UNCHANGED postVars
    BY <1>2, CallersStay DEF postVars
  <1>3. ASSUME NEW c \in Calls, Call(c) \/ Retry(c) PROVE CallInv'
    <2>1. PICK b \in Caller : b = callers[c]
      BY <1>1
    <2>2. b.try \in Nat /\ b.pc # "over" /\ Quiet(b)
      BY <1>3, <2>1 DEF Call, Retry, Caller, CallInv
    <2>3. PICK new : new = [b EXCEPT !.pc = "calling", !.try = b.try + 1]
      OBVIOUS
    <2>4. /\ new \in Caller /\ new.answer = "none" /\ new.mission = NULL
          /\ new.try = b.try + 1
      <3>1. b.try + 1 \in Nat /\ b.answer = "none" /\ b.mission = NULL
        BY <2>2 DEF Quiet
      <3> QED
        BY <2>1, <2>3, <3>1 DEF Caller
    <2>5. PICK q : q = [ call |-> c, try |-> b.try + 1, stage |-> "received", row |-> NULL ]
      OBVIOUS
    <2>6. q.call = c /\ q.try \in 1 .. new.try
      BY <2>2, <2>4, <2>5
    <2>7. callers' = [callers EXCEPT ![c] = new] /\ requests' = requests \cup {q}
      BY <1>1, <1>3, <2>1, <2>3, <2>5 DEF Call, Retry, Send
    <2>8. \A o \in requests' : \/ \E p \in requests : o.call = p.call /\ o.try = p.try
                               \/ o.call = c /\ o.try \in 1 .. new.try
      BY <2>6, <2>7
    <2>9. callers[c].try <= new.try /\ Quiet(new)
      BY <2>1, <2>2, <2>4 DEF Quiet
    <2>10. new.answer = "posted" <=> new.mission # NULL
      BY <2>4
    <2> QED
      BY <2>4, <2>7, <2>8, <2>9, <2>10, CallerMoves
  <1>4. ASSUME NEW c \in Calls, GiveUp(c) PROVE CallInv'
    <2>1. PICK b \in Caller : b = callers[c]
      BY <1>1
    <2>2. b.try \in Nat /\ Quiet(b) /\ b.pc = "calling"
      BY <1>4, <2>1 DEF GiveUp, Caller, CallInv
    <2>3. PICK new : new = [b EXCEPT !.pc = "over", !.answer = "unavailable"]
      OBVIOUS
    <2>4. /\ new \in Caller /\ new.pc = "over" /\ new.answer = "unavailable"
          /\ new.mission = NULL /\ new.try = b.try
      BY <2>2, <2>3 DEF Caller, Quiet
    <2>5. callers' = [callers EXCEPT ![c] = new] /\ requests' = requests
      BY <1>1, <1>4, <2>1, <2>3 DEF GiveUp
    <2>6. \A o \in requests' : \E p \in requests : o.call = p.call /\ o.try = p.try
      BY <2>5
    <2>7. callers[c].try <= new.try /\ Quiet(new)
      BY <2>1, <2>2, <2>4 DEF Quiet
    <2>8. new.answer = "posted" <=> new.mission # NULL
      BY <2>4
    <2> QED
      BY <2>4, <2>5, <2>6, <2>7, <2>8, CallerMoves
  <1>5. ASSUME NEW q \in requests, NEW new, new.call = q.call, new.try = q.try,
               requests' = (requests \ {q}) \cup {new}, UNCHANGED callers
        PROVE  CallInv'
    BY <1>5, CallersStay
  <1>6. ASSUME NEW q \in requests, Insert(q) PROVE CallInv'
    <2>1. q \in Request
      BY <1>1
    <2>2. PICK row : Become(q, [q EXCEPT !.stage = "inserted", !.row = row])
      BY <1>6 DEF Insert
    <2>3. PICK new : new = [q EXCEPT !.stage = "inserted", !.row = row]
      OBVIOUS
    <2>4. new.call = q.call /\ new.try = q.try
      BY <2>1, <2>3 DEF Request
    <2> QED
      BY <1>5, <1>6, <2>2, <2>3, <2>4 DEF Become, Insert
  <1>7. ASSUME NEW q \in requests, Conflict(q) PROVE CallInv'
    <2>1. q \in Request
      BY <1>1
    <2>2. PICK new : new = [q EXCEPT !.stage = "replay"]
      OBVIOUS
    <2>3. new.call = q.call /\ new.try = q.try
      BY <2>1, <2>2 DEF Request
    <2> QED
      BY <1>5, <1>7, <2>2, <2>3 DEF Become, Conflict
  <1>8. ASSUME NEW q \in requests, CommitInsert(q) \/ Replay(q) PROVE CallInv'
    <2>1. CASE CommitInsert(q)
      <3>1. q.row.id \in Ids /\ q.row.id # NULL
        BY <2>1, CallsAssumption DEF CommitInsert, KeyInv, Fits, Inserted, Missions
      <3> QED
        BY <2>1, <3>1, AnswerCalls DEF CommitInsert
    <2>2. CASE Replay(q)
      <3>1. \A r \in SameKey(KeyOf[q.call]) : r.id \in Ids /\ r.id # NULL
        BY <1>1, CallsAssumption DEF SameKey
      <3> QED
        BY <2>2, <3>1, AnswerCalls DEF Replay
    <2> QED
      BY <1>8, <2>1, <2>2
  <1>9. ASSUME NEW q \in requests, Lose(q) PROVE CallInv'
    BY <1>9, CallersStay DEF Lose
  <1>10. CASE Tick \/ Change
    BY <1>10, CallersStay DEF Tick, Change
  <1>11. ASSUME NEW q \in requests, Serve(q) PROVE CallInv'
    BY <1>6, <1>7, <1>8, <1>9, <1>11 DEF Serve
  <1>12. CASE UNCHANGED postVars \/ Begin \/ \E asked \in Limits : Page(asked)
    BY <1>2, <1>12 DEF Begin, Page
  <1> QED
    BY <1>2, <1>3, <1>4, <1>10, <1>11, <1>12 DEF BrowseNext, PostNext, browseVars

LEMMA CallStart == BrowseInit => CallInv
  BY DEF BrowseInit, PostInit, CallInv, Quiet

----------------------------------------------------------------------------
\* The walk: what is above its cursor was shown, or is not steady.

Walk ==
  [ pc: {"ready", "walking", "over"}, reader: {Master} \cup {f.reader : f \in Filters},
    status: {NULL} \cup {f.status : f \in Filters},
    holder: {NULL} \cup {f.holder : f \in Filters},
    cursor: Entry \cup {NoCursor}, shown: Seq(Entry) ]

\* The cursor of a walk that goes on is the last mission shown.
AtItsEnd(w) ==
  w.cursor = IF w.shown = <<>> THEN NoCursor ELSE w.shown[Len(w.shown)]

Descends(s) == \A i, j \in 1 .. Len(s) : i < j => Newer(s[i], s[j])

Shows(s, r) == \E i \in 1 .. Len(s) : s[i] = Cursor(r)

\* A row is on a page of w, or will be on a later one.
Reaches(w, r) == Shows(w.shown, r) \/ (w.pc # "over" /\ Past(r, w.cursor))

WalkInv ==
  /\ walk \in Walk
  /\ walk.pc = "ready" => walk.shown = <<>> /\ steady = {}
  /\ walk.pc # "over" => AtItsEnd(walk)
  /\ Descends(walk.shown)
  /\ steady \subseteq {r.id : r \in Matching(walk, table)}
  /\ \A r \in table : r.id \in steady => Reaches(walk, r)

LEMMA CursorType ==
  ASSUME NEW r \in Missions
  PROVE  /\ Cursor(r) \in Entry /\ Cursor(r).id = r.id /\ Cursor(r).created = r.created
         /\ Cursor(r) # NoCursor
  BY CallsAssumption DEF Cursor, Entry, Missions, NoCursor

\* The order of rows is that of their entries.
LEMMA CursorOrder ==
  ASSUME NEW r \in Missions \cup Entry, NEW s \in Missions
  PROVE  /\ Newer(r, Cursor(s)) <=> Newer(r, s)
         /\ Newer(Cursor(s), r) <=> Newer(s, r)
  BY CursorType DEF Newer

\* The first m rows of a list, as they are shown.
Cursors(list, m) == [i \in 1 .. m |-> Cursor(list[i])]

\* The page of walk w that shows the first m of the rows left, in order, and
\* what was shown with it.
PageOf(w, rows, list, m, z) ==
  /\ w \in Walk /\ w.pc = "walking" /\ AtItsEnd(w) /\ Descends(w.shown)
  /\ rows \subseteq Missions /\ Ordered(rows, list)
  /\ \A r \in rows : Past(r, w.cursor)
  /\ m \in 0 .. Len(list)
  /\ z = w.shown \o Cursors(list, m)

LEMMA PageAdds ==
  ASSUME NEW w, NEW rows, NEW list, NEW m, NEW z, PageOf(w, rows, list, m, z)
  PROVE  /\ z \in Seq(Entry) /\ Descends(z)
         /\ \A r \in Missions : Shows(w.shown, r) => Shows(z, r)
         /\ \A i \in 1 .. m : Shows(z, list[i])
         /\ m # 0 => z # <<>> /\ z[Len(z)] = Cursor(list[m])
  <1> DEFINE s == w.shown
             n == Len(s)
             add == Cursors(list, m)
  <1>1. s \in Seq(Entry) /\ n \in Nat /\ m \in Nat /\ Len(list) \in Nat /\ m <= Len(list)
    BY LenProperties DEF Walk, Ordered, PageOf
  <1>2. \A i \in 1 .. m : list[i] \in rows /\ list[i] \in Missions
    BY <1>1, ElementOfSeq DEF Ordered, PageOf
  <1>3. add \in Seq(Entry) /\ Len(add) = m
    <2>1. add \in [1 .. m -> Entry]
      BY <1>2, CursorType DEF Cursors
    <2> QED
      BY <1>1, <2>1, SeqDef, LenProperties
  <1>4. \A i \in 1 .. m : add[i] = Cursor(list[i])
    BY DEF Cursors
  <1>13. z = s \o add
    BY DEF PageOf
  <1> HIDE DEF add
  <1>5. /\ z \in Seq(Entry) /\ Len(z) = n + m
        /\ \A i \in 1 .. n + m : z[i] = IF i <= n THEN s[i] ELSE add[i - n]
    BY <1>1, <1>3, <1>13, ConcatProperties
  <1> HIDE DEF n, s
  <1>6. /\ \A i \in 1 .. n : z[i] = s[i] /\ s[i] \in Entry
        /\ \A i \in 1 .. m : z[n + i] = Cursor(list[i])
    <2>1. ASSUME NEW i \in 1 .. n PROVE z[i] = s[i] /\ s[i] \in Entry
      <3>1. i \in 1 .. n + m /\ i <= n
        BY <1>1
      <3> QED
        BY <1>1, <1>5, <3>1, ElementOfSeq DEF n
    <2>2. ASSUME NEW i \in 1 .. m PROVE z[n + i] = Cursor(list[i])
      <3>1. n + i \in 1 .. n + m /\ ~ (n + i <= n) /\ (n + i) - n = i
        BY <1>1
      <3> QED
        BY <1>4, <1>5, <3>1
    <2> QED
      BY <2>1, <2>2
  <1>7. ASSUME NEW i \in 1 .. n, NEW k \in 1 .. m
        PROVE  Newer(s[i], Cursor(list[k]))
    <2>1. w.cursor = s[n] /\ s[n] \in Entry /\ n \in 1 .. n
      <3>1. n # 0 /\ s # <<>>
        BY <1>1, EmptySeq DEF n
      <3> QED
        BY <1>1, <1>6, <3>1 DEF AtItsEnd, PageOf, n, s
    <2>2. s[n] # NoCursor
      BY <2>1, CallsAssumption DEF Entry, NoCursor
    <2>3. Newer(s[n], list[k])
      BY <1>2, <2>1, <2>2 DEF Past, PageOf
    <2>4. i = n \/ Newer(s[i], s[n])
      <3>1. i = n \/ i < n
        BY <1>1
      <3> QED
        BY <2>1, <3>1 DEF Descends, PageOf, n, s
    <2>5. Newer(s[i], list[k])
      BY <1>2, <1>6, <2>1, <2>3, <2>4, NewerOrders
    <2> QED
      BY <1>2, <1>6, <2>5, CursorOrder
  <1>8. ASSUME NEW i \in 1 .. m, NEW k \in 1 .. m, i < k
        PROVE  Newer(Cursor(list[i]), Cursor(list[k]))
    <2>1. Newer(list[i], list[k])
      <3>1. i \in 1 .. Len(list) /\ k \in 1 .. Len(list)
        BY <1>1
      <3> QED
        BY <1>8, <3>1 DEF Ordered, PageOf
    <2>2. Newer(list[i], Cursor(list[k]))
      BY <1>2, <2>1, CursorOrder
    <2> QED
      BY <1>2, <2>2, CursorOrder, CursorType
  <1>9. Descends(z)
    <2> SUFFICES ASSUME NEW i \in 1 .. n + m, NEW j \in 1 .. n + m, i < j
                 PROVE  Newer(z[i], z[j])
      BY <1>5 DEF Descends
    <2>1. CASE j <= n
      <3>1. i \in 1 .. n /\ j \in 1 .. n
        BY <1>1, <2>1
      <3> QED
        BY <1>6, <3>1 DEF Descends, PageOf, n, s
    <2>2. CASE i <= n /\ ~ (j <= n)
      <3>1. i \in 1 .. n
        BY <1>1, <2>2
      <3>2. PICK k \in 1 .. m : j = n + k
        <4>1. j - n \in 1 .. m /\ j = n + (j - n)
          BY <1>1, <2>2
        <4> QED
          BY <4>1
      <3> QED
        BY <1>6, <1>7, <3>1, <3>2
    <2>3. CASE ~ (i <= n)
      <3>1. i - n \in 1 .. m /\ i = n + (i - n) /\ j - n \in 1 .. m /\ j = n + (j - n)
        BY <1>1, <2>3
      <3>2. PICK h \in 1 .. m : i = n + h
        BY <3>1
      <3>3. PICK k \in 1 .. m : j = n + k
        BY <3>1
      <3>4. h < k
        BY <1>1, <3>2, <3>3
      <3> QED
        BY <1>6, <1>8, <3>2, <3>3, <3>4
    <2> QED
      BY <2>1, <2>2, <2>3
  <1>10. ASSUME NEW r \in Missions, Shows(w.shown, r)
         PROVE  Shows(z, r)
    <2>1. PICK i \in 1 .. n : s[i] = Cursor(r)
      BY <1>10 DEF Shows, n, s
    <2>2. i \in 1 .. n + m
      BY <1>1
    <2> QED
      BY <1>5, <1>6, <2>1, <2>2 DEF Shows
  <1>11. ASSUME NEW i \in 1 .. m
         PROVE  Shows(z, list[i])
    <2>1. n + i \in 1 .. n + m
      BY <1>1
    <2> QED
      BY <1>5, <1>6, <2>1 DEF Shows
  <1>12. ASSUME m # 0
         PROVE  z # <<>> /\ z[Len(z)] = Cursor(list[m])
    <2>1. m \in 1 .. m /\ Len(z) # 0
      BY <1>1, <1>5, <1>12
    <2> QED
      BY <1>5, <1>6, <2>1, EmptySeq
  <1> QED
    BY <1>5, <1>9, <1>10, <1>11, <1>12
\* The rows a page is made from, in their order.
LEMMA PageRows ==
  ASSUME KeyInv, IdInv, NEW rows, rows \subseteq table
  PROVE  /\ rows \subseteq Missions
         /\ Ordered(rows, Listed(rows)) /\ Len(Listed(rows)) \in Nat
  <1>1. rows \subseteq Missions /\ IsFiniteSet(rows) /\ Distinct(rows)
    BY FS_Subset DEF KeyInv, PostTypes, IdInv, Distinct
  <1> QED
    BY <1>1, ListedOrders DEF Ordered

LEMMA FirstRows ==
  ASSUME NEW rows, NEW list \in Seq(rows), NEW m \in 0 .. Len(list),
         NEW page, page = SubSeq(list, 1, m)
  PROVE  DOMAIN page = 1 .. m /\ \A i \in 1 .. m : page[i] = list[i]
  <1>1. Len(list) \in Nat /\ m \in Nat
    BY LenProperties
  <1>2. page = [i \in 1 .. m |-> list[i]]
    <2>1. page = [i \in 1 .. (1 + m - 1) |-> list[i + 1 - 1]]
      BY SMT
    <2>2. 1 + m - 1 = m /\ \A i \in 1 .. m : i + 1 - 1 = i
      BY <1>1
    <2> QED
      BY <2>1, <2>2
  <1> QED
    BY <1>2

LEMMA PageKeeps ==
  ASSUME KeyInv, IdInv, WalkInv, NEW asked \in Limits, Page(asked)
  PROVE  WalkInv'
  <1>1. PICK limit : limit = IF asked < MaxPoll THEN asked ELSE MaxPoll
    OBVIOUS
  <1>2. limit \in Nat /\ limit >= 1
    BY <1>1, BrowseAssumption
  <1>3. PICK rows : rows = {r \in Matching(walk, table) : Past(r, walk.cursor)}
    OBVIOUS
  <1>4. PICK list : list = Listed(rows)
    OBVIOUS
  <1>5. PICK m : m = IF Len(list) > limit THEN limit ELSE Len(list)
    OBVIOUS
  <1>6. PICK page : page = SubSeq(list, 1, m)
    OBVIOUS
  <1>7. PICK add : add = [i \in DOMAIN page |-> Cursor(page[i])]
    OBVIOUS
  <1>8. PICK z : z = walk.shown \o add
    OBVIOUS
  <1>9. /\ walk.pc = "walking"
        /\ walk' = [walk EXCEPT
             !.pc = IF Len(list) > limit THEN "walking" ELSE "over",
             !.cursor = IF Len(list) > limit THEN Cursor(list[limit]) ELSE NoCursor,
             !.shown = z]
        /\ UNCHANGED <<table, steady>>
    BY <1>1, <1>3, <1>4, <1>5, <1>6, <1>7, <1>8 DEF Page, postVars
  <1>10. rows \subseteq table
    BY <1>3 DEF Matching
  <1>11. rows \subseteq Missions /\ Ordered(rows, list) /\ Len(list) \in Nat
    BY <1>4, <1>10, PageRows
  <1>12. m \in 0 .. Len(list)
    BY <1>2, <1>5, <1>11
  <1>13. add = Cursors(list, m)
    <2>1. DOMAIN page = 1 .. m /\ \A i \in 1 .. m : page[i] = list[i]
      BY <1>6, <1>11, <1>12, FirstRows DEF Ordered
    <2> QED
      BY <1>7, <2>1 DEF Cursors
  <1>14. walk \in Walk /\ AtItsEnd(walk) /\ Descends(walk.shown)
    BY <1>9 DEF WalkInv
  <1>15. \A r \in rows : Past(r, walk.cursor)
    BY <1>3
  <1>16. /\ z \in Seq(Entry) /\ Descends(z)
         /\ \A r \in Missions : Shows(walk.shown, r) => Shows(z, r)
         /\ \A i \in 1 .. m : Shows(z, list[i])
         /\ m # 0 => z # <<>> /\ z[Len(z)] = Cursor(list[m])
    <2>1. PICK w : w = walk
      OBVIOUS
    <2>2. PageOf(w, rows, list, m, z)
      BY <1>8, <1>9, <1>11, <1>12, <1>13, <1>14, <1>15, <2>1 DEF PageOf
    <2>3. /\ z \in Seq(Entry) /\ Descends(z)
          /\ \A r \in Missions : Shows(w.shown, r) => Shows(z, r)
          /\ \A i \in 1 .. m : Shows(z, list[i])
          /\ m # 0 => z # <<>> /\ z[Len(z)] = Cursor(list[m])
      BY <2>2, PageAdds
    <2> QED
      BY <2>1, <2>3
  <1>17. Len(list) > limit => m = limit /\ m # 0 /\ limit \in 1 .. Len(list)
    BY <1>2, <1>5, <1>11
  <1>18. Len(list) > limit => Cursor(list[limit]) \in Entry
    <2>1. \A i \in 1 .. Len(list) : list[i] \in Missions
      BY <1>11, ElementOfSeq DEF Ordered
    <2> QED
      BY <1>17, <2>1, CursorType
  <1>19. PICK cursor : cursor = IF Len(list) > limit THEN Cursor(list[limit]) ELSE NoCursor
    OBVIOUS
  <1>20. PICK pc : pc = IF Len(list) > limit THEN "walking" ELSE "over"
    OBVIOUS
  <1>21. /\ walk' \in Walk /\ walk'.pc = pc /\ walk'.cursor = cursor /\ walk'.shown = z
         /\ walk'.reader = walk.reader /\ walk'.status = walk.status
         /\ walk'.holder = walk.holder
    <2>1. cursor \in Entry \cup {NoCursor} /\ pc \in {"ready", "walking", "over"}
      BY <1>18, <1>19, <1>20
    <2>2. walk' = [walk EXCEPT !.pc = pc, !.cursor = cursor, !.shown = z]
      BY <1>9, <1>19, <1>20
    <2> HIDE DEF Entry, NoCursor
    <2> QED
      BY <1>14, <1>16, <2>1, <2>2 DEF Walk
  <1>22. walk'.pc # "over" => AtItsEnd(walk')
    BY <1>16, <1>17, <1>19, <1>20, <1>21 DEF AtItsEnd
  <1>23. Matching(walk', table') = Matching(walk, table)
    BY <1>9, <1>21 DEF Matching, Selects
  <1>24. ASSUME NEW r \in table, r.id \in steady
         PROVE  Reaches(walk', r)
    <2>1. r \in Missions
      BY DEF KeyInv, PostTypes
    <2>2. Reaches(walk, r)
      BY <1>24 DEF WalkInv
    <2>3. r \in Matching(walk, table)
      BY <1>24 DEF WalkInv, IdInv, Distinct, Matching
    <2>4. CASE Shows(walk.shown, r)
      BY <1>16, <1>21, <2>1, <2>4 DEF Reaches
    <2>5. CASE Past(r, walk.cursor)
      <3>1. PICK i \in 1 .. Len(list) : r = list[i]
        BY <1>3, <1>11, <2>3, <2>5 DEF Ordered
      <3>2. CASE i \in 1 .. m
        BY <1>16, <1>21, <3>1, <3>2 DEF Reaches
      <3>3. CASE i \notin 1 .. m
        <4>1. Len(list) > limit /\ limit < i
          BY <1>2, <1>5, <1>11, <3>3
        <4>2. Newer(list[limit], r) /\ list[limit] \in Missions
          BY <1>11, <1>17, <3>1, <4>1, ElementOfSeq DEF Ordered
        <4>3. Newer(Cursor(list[limit]), r)
          BY <2>1, <4>2, CursorOrder
        <4> QED
          BY <1>19, <1>20, <1>21, <4>1, <4>3 DEF Reaches, Past
      <3> QED
        BY <3>2, <3>3
    <2> QED
      BY <2>2, <2>4, <2>5 DEF Reaches
  <1> QED
    BY <1>9, <1>16, <1>20, <1>21, <1>22, <1>23, <1>24 DEF WalkInv
LEMMA BeginKeeps ==
  ASSUME KeyInv, IdInv, WalkInv, Begin
  PROVE  WalkInv'
  <1>1. PICK f \in Filters :
          walk' = [walk EXCEPT !.pc = "walking", !.reader = f.reader,
                               !.status = f.status, !.holder = f.holder]
    BY DEF Begin
  <1>2. /\ walk.shown = <<>> /\ walk \in Walk /\ walk.cursor = NoCursor
        /\ steady' = {r.id : r \in Matching(walk', table)} /\ table' = table
    BY DEF Begin, WalkInv, AtItsEnd, postVars
  <1>3. /\ walk' \in Walk /\ walk'.pc = "walking" /\ walk'.shown = walk.shown
        /\ walk'.cursor = walk.cursor
    BY <1>1, <1>2 DEF Walk
  <1>4. Descends(walk'.shown)
    BY <1>2, <1>3 DEF WalkInv
  <1> QED
    BY <1>2, <1>3, <1>4 DEF WalkInv, AtItsEnd, Reaches, Past

\* A mission that appears while the walk goes on was not there when it began.
LEMMA NewRowsKeep ==
  ASSUME IdInv, WalkInv, UNCHANGED <<walk, steady>>, NEW row, table' = table \cup {row},
         \A r \in table : r.id # row.id
  PROVE  WalkInv'
  BY DEF WalkInv, Matching, Reaches, Selects

LEMMA TableStays ==
  ASSUME WalkInv, UNCHANGED <<table, walk, steady>>
  PROVE  WalkInv'
  BY DEF WalkInv, Matching, Reaches, Selects, AtItsEnd, Descends, Shows

LEMMA ChangesKeep ==
  ASSUME KeyInv, IdInv, WalkInv, Change
  PROVE  WalkInv'
  <1>1. /\ \A s \in table' : \E r \in table : s.id = r.id /\ s.created = r.created
        /\ IdInv'
    BY ChangeIds
  <1>2. walk' = walk /\ steady' = steady \cap {r.id : r \in Matching(walk, table')}
    BY DEF Change
  <1>3. ASSUME NEW s \in table', s.id \in steady'
        PROVE  Reaches(walk, s)
    <2>1. PICK r \in table : s.id = r.id /\ s.created = r.created
      BY <1>1
    <2>2. Reaches(walk, r)
      BY <1>2, <1>3, <2>1 DEF WalkInv
    <2> QED
      BY <2>1, <2>2 DEF Reaches, Shows, Cursor, Past, Newer
  <1>4. steady' \subseteq {r.id : r \in Matching(walk', table')}
    BY <1>2
  <1>5. walk.pc = "ready" => steady' = {}
    BY <1>2 DEF WalkInv
  <1> QED
    BY <1>2, <1>3, <1>4, <1>5 DEF WalkInv, Reaches, Shows, AtItsEnd, Descends

LEMMA WalkStep == KeyInv /\ IdInv /\ WalkInv /\ [BrowseNext]_browseVars => WalkInv'
  <1> SUFFICES ASSUME KeyInv, IdInv, WalkInv, [BrowseNext]_browseVars PROVE WalkInv'
    OBVIOUS
  <1>1. CASE UNCHANGED browseVars
    BY <1>1, TableStays DEF browseVars, postVars
  <1>2. CASE PostNext /\ UNCHANGED <<walk, steady, changes>>
    <2>1. ASSUME NEW q \in requests, CommitInsert(q) PROVE WalkInv'
      BY <1>2, <2>1, CommitIds, NewRowsKeep
    <2>2. CASE UNCHANGED table
      BY <1>2, <2>2, TableStays
    <2> QED
      BY <1>2, <2>1, <2>2
         DEF PostNext, Call, Retry, Send, GiveUp, Serve, Insert, Conflict, Replay, Lose, Tick
  <1> QED
    BY <1>1, <1>2, BeginKeeps, PageKeeps, ChangesKeep DEF BrowseNext

LEMMA WalkStart == BrowseInit => WalkInv
  <1> SUFFICES ASSUME BrowseInit PROVE WalkInv
    OBVIOUS
  <1>1. walk.shown = <<>> /\ walk.cursor = NoCursor /\ steady = {}
    BY DEF BrowseInit
  <1>2. <<>> \in Seq(Entry) /\ Len(<<>>) = 0
    BY EmptySeq
  <1>3. walk \in Walk
    BY <1>2 DEF BrowseInit, Walk
  <1>4. Descends(walk.shown)
    BY <1>1, <1>2 DEF Descends
  <1> QED
    BY <1>1, <1>3, <1>4 DEF WalkInv, AtItsEnd

LEMMA BrowseInvariant == BrowseSpec => [](KeyInv /\ IdInv /\ CallInv /\ WalkInv)
  BY KeyInit, KeyStep, IdStart, IdStep, CallStart, CallStep, WalkStart, WalkStep, PTL
     DEF BrowseSpec

(* However missions are posted, appear late, and change hands between the  *)
(* pages, a walk that is over was shown every mission that was there when  *)
(* it began and matched its filters ever since.                            *)
THEOREM WholeWalk == BrowseSpec => []WalkIsComplete
  <1>1. KeyInv /\ WalkInv => WalkIsComplete
    <2> SUFFICES ASSUME KeyInv, WalkInv, walk.pc = "over", NEW id \in steady
                 PROVE  id \in {e.id : e \in Range(walk.shown)}
      BY DEF WalkIsComplete
    <2>1. PICK r \in table : r.id = id
      BY DEF WalkInv, Matching
    <2>2. r \in Missions /\ Shows(walk.shown, r)
      BY <2>1 DEF WalkInv, Reaches, KeyInv, PostTypes
    <2>3. PICK i \in 1 .. Len(walk.shown) : walk.shown[i] = Cursor(r)
      BY <2>2 DEF Shows
    <2>4. walk.shown[i].id = id /\ i \in DOMAIN walk.shown
      <3>1. walk.shown \in Seq(Entry)
        BY DEF WalkInv, Walk
      <3> QED
        BY <2>1, <2>2, <2>3, <3>1, CursorType, LenProperties
    <2> QED
      BY <2>4 DEF Range
  <1> QED
    BY <1>1, BrowseInvariant, PTL

(* The pages of a walk, put together, go down the board: each mission once, *)
(* and in the order of the board, for any filters, limits and changes.      *)
THEOREM OneWay == BrowseSpec => []WalkDescends
  <1>1. WalkInv => WalkDescends
    <2> SUFFICES ASSUME WalkInv PROVE WalkDescends
      OBVIOUS
    <2>1. walk.shown \in Seq(Entry)
      BY DEF WalkInv, Walk
    <2>2. DOMAIN walk.shown = 1 .. Len(walk.shown)
      BY <2>1, LenProperties
    <2> QED
      BY <2>2 DEF WalkInv, Descends, WalkDescends
  <1> QED
    BY <1>1, BrowseInvariant, PTL
LEMMA InsertingFinite == ASSUME IdInv PROVE IsFiniteSet(Inserting)
  <1> DEFINE from == {p \in requests : p.stage = "inserted"}
             f == [p \in from |-> p.row]
  <1>1. IsFiniteSet(from)
    BY FS_Subset DEF IdInv
  <1>2. f \in Surjection(from, Inserting)
    BY DEF Surjection, Inserting
  <1> HIDE DEF from, f
  <1> QED
    BY <1>1, <1>2, FS_Surjection

\* As many ids are used as there are rows, committed or not.
LEMMA IdsCounted ==
  ASSUME KeyInv, IdInv
  PROVE  Cardinality(UsedIds) = Cardinality(table) + Cardinality(Inserting)
  <1> DEFINE rows == table \cup Inserting
             f == [r \in rows |-> r.id]
  <1>1. table \cap Inserting = {}
    BY DEF IdInv, Inserting, Inserted
  <1>2. IsFiniteSet(table) /\ IsFiniteSet(Inserting)
    BY InsertingFinite DEF IdInv
  <1>3. Cardinality(table) \in Nat /\ Cardinality(Inserting) \in Nat
    BY <1>2, FS_CardinalityType
  <1>4. IsFiniteSet(rows) /\ Cardinality(rows) = Cardinality(table) + Cardinality(Inserting)
    BY <1>1, <1>2, <1>3, FS_Union, FS_EmptySet
  <1>5. \A r, s \in rows : r.id = s.id => r = s
    BY DEF IdInv, Distinct, Inserting, Inserted
  <1>6. f \in Bijection(rows, UsedIds)
    <2>1. f \in [rows -> UsedIds] /\ \A id \in UsedIds : \E r \in rows : f[r] = id
      BY DEF UsedIds
    <2>2. \A r, s \in rows : f[r] = f[s] => r = s
      BY <1>5
    <2> HIDE DEF f, rows
    <2> QED
      BY <2>1, <2>2 DEF Bijection, Injection, Surjection, IsInjective
  <1>7. ExistsBijection(rows, UsedIds)
    BY <1>6 DEF ExistsBijection
  <1> HIDE DEF rows
  <1> QED
    BY <1>4, <1>7, FS_Bijection

(* Rows, callers and requests keep their shapes, no two rows share an id,  *)
(* and what is steady is on the board.                                     *)
THEOREM BrowseTypes == BrowseSpec => []BrowseTypeOK
  <1>1. KeyInv /\ IdInv /\ CallInv => PostTypeOK
    BY IdsCounted DEF PostTypeOK, KeyInv, PostTypes, CallInv, Request
  <1>2. WalkInv => /\ walk.shown \in Seq([created : 0 .. MaxTime, id : Ids])
                   /\ steady \subseteq {r.id : r \in table}
    BY DEF WalkInv, Walk, Entry, Matching
  <1> QED
    BY <1>1, <1>2, BrowseInvariant, PTL DEF BrowseTypeOK

=============================================================================
