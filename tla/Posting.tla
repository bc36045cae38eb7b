------------------------------ MODULE Posting ------------------------------
(***************************************************************************)
(* Posting a mission: the SDK's retries, the handler of POST /v1/missions, *)
(* and the two statements behind it, INSERT ... ON CONFLICT DO NOTHING and *)
(* the lookup of the row that was there first.                             *)
(*                                                                         *)
(* A row is given its id and created_at when it is inserted and is seen by *)
(* others when the insert commits, so rows can appear out of their order.  *)
(* An insert whose key another one is inserting waits to see how that ends.*)
(* A body that is refused (a lease over the limit, an unknown peak) writes *)
(* nothing and is not retried; it is left out.                             *)
(***************************************************************************)
EXTENDS Integers, FiniteSets

CONSTANTS
  Calls,    \* calls of post_mission, each with one body
  KeyOf,    \* the idempotency_key of each call, or NULL
  Accounts, \* who may post: the master and the disciples
  Poster,   \* who makes each call
  Old,      \* missions posted earlier
  NULL,
  Ids,      \* uuids, numbered in their order; which one a row gets is chance
  TriesOf,  \* max_retries + 1, for each call
  MaxTime   \* bound: the clock's horizon

ASSUME CallsAssumption ==
  Poster \in [Calls -> Accounts] /\ NULL \notin Ids \cup Accounts
ASSUME NumbersAssumption ==
  Ids \subseteq Nat /\ TriesOf \in [Calls -> Nat \ {0}] /\ MaxTime \in Nat

VARIABLES
  table,    \* the missions that are committed
  callers,  \* where each call stands in its client
  requests, \* requests on their way to a server or being handled by one
  now       \* the database's clock

postVars == <<table, callers, requests, now>>

Missions ==
  [ id: Ids, key: {NULL} \cup {KeyOf[c] : c \in Calls}, created: 0 .. MaxTime,
    by: Accounts, status: {"open", "claimed"}, holder: Accounts \cup {NULL} ]

Caller ==
  [ pc: {"ready", "calling", "over"}, try: Nat,
    answer: {"none", "posted", "conflict", "unavailable"}, mission: Ids \cup {NULL} ]

\* No two rows have one id or one key: PRIMARY KEY, UNIQUE (idempotency_key).
ASSUME OldAssumption ==
  /\ Old \subseteq Missions /\ IsFiniteSet(Old)
  /\ \A r, s \in Old : r.id = s.id \/ (r.key = s.key /\ r.key # NULL) => r = s

PostInit ==
  /\ table = Old
  /\ callers = [c \in Calls |-> [pc |-> "ready", try |-> 0, answer |-> "none", mission |-> NULL]]
  /\ requests = {}
  /\ now = 0

----------------------------------------------------------------------------
\* The client.

\* A request is the call's body; a retry is a second copy of it.
Send(c) ==
  /\ callers' = [callers EXCEPT ![c].pc = "calling", ![c].try = @ + 1]
  /\ requests' = requests \cup
       {[call |-> c, try |-> callers[c].try + 1, stage |-> "received", row |-> NULL]}
  /\ UNCHANGED <<table, now>>

Call(c) == callers[c].pc = "ready" /\ Send(c)

\* No answer in time, a broken connection, or a status the client retries.
Retry(c) ==
  /\ callers[c].pc = "calling"
  /\ callers[c].try < TriesOf[c]
  /\ Send(c)

\* SectUnavailable.
GiveUp(c) ==
  /\ callers[c].pc = "calling"
  /\ callers[c].try = TriesOf[c]
  /\ callers' = [callers EXCEPT ![c].pc = "over", ![c].answer = "unavailable"]
  /\ UNCHANGED <<table, requests, now>>

----------------------------------------------------------------------------
\* The server.

\* The answer reaches the try it answers, if that is still waited for; or is lost.
Answer(q, answer, id) ==
  /\ requests' = requests \ {q}
  /\ \/ /\ callers[q.call].pc = "calling" /\ callers[q.call].try = q.try
        /\ callers' = [callers EXCEPT ![q.call] =
             [@ EXCEPT !.pc = "over", !.answer = answer, !.mission = id]]
     \/ UNCHANGED callers

SameKey(key) == {r \in table : key # NULL /\ r.key = key}

\* Rows inserted and not yet committed.
Inserting == {q.row : q \in {p \in requests : p.stage = "inserted"}}

UsedIds == {r.id : r \in table \cup Inserting}

\* No unique constraint on the key.
MutantKeyIsFree(key) == TRUE

\* ON CONFLICT (idempotency_key) looks past the snapshot, at every row there is.
KeyIsFree(key) ==
  key = NULL \/ \A r \in table \cup Inserting : r.key # key

Become(q, p) == requests' = (requests \ {q}) \cup {p}

\* INSERT_MISSION puts its row in place.
Insert(q) ==
  /\ q.stage = "received"
  /\ KeyIsFree(KeyOf[q.call])
  /\ \E id \in Ids \ UsedIds :
       Become(q, [q EXCEPT !.stage = "inserted", !.row =
         [ id |-> id, key |-> KeyOf[q.call], created |-> now, by |-> Poster[q.call],
           status |-> "open", holder |-> NULL ]])
  /\ UNCHANGED <<table, callers, now>>

\* ... commits, and the handler answers 201.
CommitInsert(q) ==
  /\ q.stage = "inserted"
  /\ table' = table \cup {q.row}
  /\ Answer(q, "posted", q.row.id)
  /\ UNCHANGED now

\* A handler that answers without looking for the first post.
MutantConflict(q) ==
  /\ q.stage = "received"
  /\ SameKey(KeyOf[q.call]) # {}
  /\ Answer(q, "posted", NULL)
  /\ UNCHANGED <<table, now>>

\* DO NOTHING: the key's row is there, though perhaps not in this snapshot.
Conflict(q) ==
  /\ q.stage = "received"
  /\ SameKey(KeyOf[q.call]) # {}
  /\ Become(q, [q EXCEPT !.stage = "replay"])
  /\ UNCHANGED <<table, callers, now>>

\* SELECT_MISSION_BY_IDEMPOTENCY_KEY, in a snapshot of its own: 200, or 409
\* mission_conflict should the row be gone.
Replay(q) ==
  /\ q.stage = "replay"
  /\ IF SameKey(KeyOf[q.call]) = {} THEN Answer(q, "conflict", NULL)
     ELSE \E r \in SameKey(KeyOf[q.call]) : Answer(q, "posted", r.id)
  /\ UNCHANGED <<table, now>>

\* The server or its connection dies: the insert is rolled back, and the client
\* sees no answer.  (A request lost on its way is one that is never served.)
Lose(q) ==
  /\ q.stage = "inserted"
  /\ requests' = requests \ {q}
  /\ UNCHANGED <<table, callers, now>>

Tick ==
  /\ now < MaxTime
  /\ now' = now + 1
  /\ UNCHANGED <<table, callers, requests>>

Serve(q) ==
  Insert(q) \/ CommitInsert(q) \/ Conflict(q) \/ Replay(q) \/ Lose(q)

PostNext ==
  \/ \E c \in Calls : Call(c) \/ Retry(c) \/ GiveUp(c)
  \/ \E q \in requests : Serve(q)
  \/ Tick

----------------------------------------------------------------------------
PostTypeOK ==
  /\ table \subseteq Missions
  /\ callers \in [Calls -> Caller]
  /\ \A c \in Calls : callers[c].answer = "posted" <=> callers[c].mission # NULL
  /\ \A q \in requests : q.call \in Calls /\ q.try \in 1 .. callers[q.call].try
  /\ Cardinality(UsedIds) = Cardinality(table) + Cardinality(Inserting)

(* protocol.md: with an idempotency_key "the replay returns 200 and the    *)
(* original mission": whoever posts under one key, at once or again and    *)
(* again, is told of the same mission, which is on the board, and never    *)
(* gets the 409 the handler keeps for a key that vanished.                 *)
OneAnswerPerKey ==
  \A c \in Calls :
    /\ callers[c].answer # "conflict"
    /\ callers[c].answer = "posted" /\ KeyOf[c] # NULL =>
         {r.id : r \in SameKey(KeyOf[c])} = {callers[c].mission}
=============================================================================
