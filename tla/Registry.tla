------------------------------ MODULE Registry ------------------------------
(***************************************************************************)
(* Who may act: disciples, their bearer tokens and their peaks             *)
(* (core/routes/disciples.py, core/auth.py, core/deps.py, and the rows     *)
(* that core/routes/peaks.py keeps).                                       *)
(*                                                                         *)
(* A request is authenticated, then looks up what its body names, then     *)
(* writes: up to four statements, each its own transaction, with any       *)
(* number of other requests in between.  The client repeats a request it   *)
(* heard nothing of, so a repetition is one more request.  The answer to   *)
(* the last statement may be lost.                                         *)
(***************************************************************************)
EXTENDS FiniteSets

CONSTANTS
  Names,    \* names a disciple may be registered under
  Peaks,    \* names of peaks
  Requests, \* requests that reach the server; a token is named for the
            \* request that minted it
  Profiles, \* values of arts, which stands for every column of free text
  Realms, BottomRealm,
  Bodies,   \* bodies a request may carry: functions from the fields mentioned
  NULL

ASSUME RegistryAssumption ==
  /\ NULL \notin Requests
  /\ NULL \notin Peaks
  /\ NULL \notin Profiles
  /\ NULL \notin Realms
  /\ BottomRealm \in Realms

VARIABLES
  disciples, \* the table disciples, by name
  peaks,     \* the status of each peak, or "absent"
  requests   \* where each request is

vars == <<disciples, peaks, requests>>

----------------------------------------------------------------------------
\* The tables.

\* "inactive" stands for "suspended" too: nothing here tells them apart.
PeakStatus == {"active", "inactive"}

Row == [ token_hash: Requests, arts: Profiles, realm: Realms,
         active: BOOLEAN, peak_id: Peaks \cup {NULL} ]

\* What a body may say of a column.
Says == [ arts |-> Profiles \cup {NULL}, realm |-> Realms \cup {NULL},
          active |-> BOOLEAN \cup {NULL}, peak_id |-> Peaks \cup {NULL} ]

\* The schemas let nothing else in; a row that is there is not NULL.
ASSUME BodiesAssumption ==
  \A b \in Bodies :
    /\ \A c \in DOMAIN b \ {"peak"} : c \in {"arts", "realm", "active"} /\ b[c] \in Says[c]
    /\ "peak" \in DOMAIN b => b.peak \in Says.peak_id
ASSUME RowAssumption == NULL \notin Row

Ops == {"register", "announce", "patch", "rotate"}

\* What each body may mention (extra="forbid").
Fields == [ register |-> {"arts", "peak"},
            announce |-> {"arts", "peak", "realm"},
            patch    |-> {"arts", "peak", "realm", "active"},
            rotate   |-> {} ]

\* How far a request has come; "told": its token was heard by the caller.
Places == {"sent", "known", "found", "resolved", "written", "told"}

Idle == [at |-> "idle"]
Over == [at |-> "over"]

\* register_disciple inserts what it is given, with the schema's defaults.
NewRow(r, b) ==
  [ token_hash |-> r, arts |-> b.arts, realm |-> BottomRealm, active |-> TRUE,
    peak_id |-> b.peak_id ]

Exists(n) == disciples[n] # NULL

At(r, place) == requests[r].at = place

MoveTo(r, place) == requests' = [requests EXCEPT ![r].at = place]

\* An error ends the request.
Refuse(r) == requests' = [requests EXCEPT ![r] = Over]

Init ==
  /\ disciples = [n \in Names |-> NULL]
  /\ peaks = [p \in Peaks |-> "absent"]
  /\ requests = [r \in Requests |-> Idle]

----------------------------------------------------------------------------
\* The callers.

\* The tokens somebody was told, whether or not they still work.  NULL as a
\* bearer is the master's key.
Known(n) ==
  {t \in Requests : At(t, "told") /\ requests[t].name = n}

Send(r, op, n, t, b) ==
  /\ At(r, "idle")
  /\ DOMAIN b \subseteq Fields[op]
  /\ op = "register" => "arts" \in DOMAIN b /\ b.arts # NULL
  /\ op = "rotate" => b = <<>>
  /\ t \in Known(n) \cup {NULL}
  /\ requests' = [requests EXCEPT ![r] =
       [ at |-> "sent", op |-> op, name |-> n, bearer |-> t, body |-> b,
         fields |-> <<>>,
         \* History: the token was replaced before the request was sent.
         superseded |-> t # NULL /\ disciples[n].token_hash # t ]]
  /\ UNCHANGED <<disciples, peaks>>

\* The client hears the answer to a write, or never does.
Hear(r) ==
  /\ At(r, "written")
  /\ \/ requests[r].op \in {"register", "rotate"} /\ MoveTo(r, "told")
     \/ Refuse(r)
  /\ UNCHANGED <<disciples, peaks>>

----------------------------------------------------------------------------
\* The server, a statement at a time.

\* A lookup that remembers every token it has seen.
MutantAccepts(r) ==
  \E n \in Names : Exists(n) /\ requests[r].bearer \in Known(n)

\* The hash is somebody's, and that disciple is active.
Accepts(r) ==
  \E n \in Names :
    /\ Exists(n)
    /\ disciples[n].token_hash = requests[r].bearer
    /\ disciples[n].active

\* require_disciple; require_master, whose key is compared with nothing stored.
Entitled(r) ==
  IF requests[r].op = "announce"
  THEN requests[r].bearer # NULL /\ Accepts(r)
  ELSE requests[r].bearer = NULL

Authenticate(r) ==
  /\ At(r, "sent")
  /\ IF Entitled(r) THEN MoveTo(r, "known") ELSE Refuse(r)
  /\ UNCHANGED <<disciples, peaks>>

\* patch_disciple looks for the row before it reads the body.
Find(r) ==
  /\ At(r, "known")
  /\ requests[r].op = "patch"
  /\ IF Exists(requests[r].name) THEN MoveTo(r, "found") ELSE Refuse(r)
  /\ UNCHANGED <<disciples, peaks>>

\* A peak that is always taken from the body, mentioned or not.
MutantResolved(op, b) ==
  [ c \in (DOMAIN b \ {"peak"}) \cup {"peak_id"} |->
      IF c # "peak_id" THEN b[c] ELSE IF "peak" \in DOMAIN b THEN b.peak ELSE NULL ]

\* The columns a body is about: peak becomes peak_id when it is mentioned, or
\* the row is new.
Resolved(op, b) ==
  LET peaked == op = "register" \/ "peak" \in DOMAIN b IN
  [ c \in (DOMAIN b \ {"peak"}) \cup (IF peaked THEN {"peak_id"} ELSE {}) |->
      IF c # "peak_id" THEN b[c] ELSE IF "peak" \in DOMAIN b THEN b.peak ELSE NULL ]

\* resolve_peak_id finds it, or there is nothing to find.
Resolvable(b) ==
  "peak" \in DOMAIN b => b.peak = NULL \/ peaks[b.peak] # "absent"

\* A disciple asks for a realm.
AsksRealm(r) ==
  /\ requests[r].op = "announce"
  /\ "realm" \in DOMAIN requests[r].body
  /\ requests[r].body.realm # NULL

Resolve(r) ==
  /\ \/ At(r, "found")
     \/ At(r, "known") /\ requests[r].op \in {"register", "announce"}
  /\ IF ~ AsksRealm(r) /\ Resolvable(requests[r].body)
     THEN requests' = [requests EXCEPT
            ![r].at = "resolved",
            ![r].fields = Resolved(requests[r].op, requests[r].body)]
     ELSE Refuse(r)
  /\ UNCHANGED <<disciples, peaks>>

\* ON CONFLICT (name) DO UPDATE.
MutantAdmits(r) == TRUE

\* ON CONFLICT (name) DO NOTHING returns no row.
Admits(r) == ~ Exists(requests[r].name)

Register(r) ==
  /\ At(r, "resolved")
  /\ requests[r].op = "register"
  /\ IF Admits(r)
     THEN /\ disciples' = [disciples EXCEPT
               ![requests[r].name] = NewRow(r, requests[r].fields)]
          /\ MoveTo(r, "written")
     ELSE Refuse(r) /\ UNCHANGED disciples
  /\ UNCHANGED peaks

SELF_UPDATABLE   == {"arts", "peak_id"}
MASTER_UPDATABLE == {"arts", "realm", "active", "peak_id"}

Updatable(r) ==
  IF requests[r].op = "announce" THEN SELF_UPDATABLE ELSE MASTER_UPDATABLE

\* The columns the UPDATE assigns.
Assigned(r) == DOMAIN requests[r].fields \cap Updatable(r)

\* A schema that takes a null anywhere.
MutantViolates(r) == FALSE

\* Every one of them but peak_id is NOT NULL, and a null makes the UPDATE fail.
Violates(r) == \E c \in Assigned(r) \ {"peak_id"} : requests[r].fields[c] = NULL

\* Only these columns, whatever else has changed since the request came in.
build_update(r, row) ==
  [ c \in DOMAIN row |-> IF c \in Assigned(r) THEN requests[r].fields[c] ELSE row[c] ]

Update(r) ==
  /\ At(r, "resolved")
  /\ requests[r].op \in {"announce", "patch"}
  /\ IF Violates(r)
     THEN Refuse(r) /\ UNCHANGED disciples
     ELSE /\ disciples' = [disciples EXCEPT ![requests[r].name] = build_update(r, @)]
          /\ MoveTo(r, "written")
  /\ UNCHANGED peaks

Rotate(r) ==
  /\ At(r, "known")
  /\ requests[r].op = "rotate"
  /\ IF Exists(requests[r].name)
     THEN /\ disciples' = [disciples EXCEPT ![requests[r].name].token_hash = r]
          /\ MoveTo(r, "written")
     ELSE Refuse(r) /\ UNCHANGED disciples
  /\ UNCHANGED peaks

----------------------------------------------------------------------------
\* Peaks, which only the master writes.

CreatePeak(p) ==
  /\ peaks[p] = "absent"
  /\ peaks' = [peaks EXCEPT ![p] = "active"]
  /\ UNCHANGED <<disciples, requests>>

PatchPeak(p) ==
  /\ peaks[p] # "absent"
  /\ \E s \in PeakStatus : peaks' = [peaks EXCEPT ![p] = s]
  /\ UNCHANGED <<disciples, requests>>

\* DELETE FROM peaks, with the schema's ON DELETE SET NULL.
MutantDeactivatePeak(p) ==
  /\ peaks[p] # "absent"
  /\ peaks' = [peaks EXCEPT ![p] = "absent"]
  /\ disciples' = [n \in Names |->
       IF Exists(n) /\ disciples[n].peak_id = p
       THEN [disciples[n] EXCEPT !.peak_id = NULL] ELSE disciples[n]]
  /\ UNCHANGED requests

DeactivatePeak(p) ==
  /\ peaks[p] # "absent"
  /\ peaks' = [peaks EXCEPT ![p] = "inactive"]
  /\ UNCHANGED <<disciples, requests>>

----------------------------------------------------------------------------

Next ==
  \/ \E r \in Requests :
       \/ \E op \in Ops, n \in Names, t \in Requests \cup {NULL},
            b \in Bodies \cup {<<>>} : Send(r, op, n, t, b)
       \/ Authenticate(r)
       \/ Find(r)
       \/ Resolve(r)
       \/ Register(r)
       \/ Update(r)
       \/ Rotate(r)
       \/ Hear(r)
  \/ \E p \in Peaks : CreatePeak(p) \/ PatchPeak(p) \/ DeactivatePeak(p)

Spec == Init /\ [][Next]_vars

----------------------------------------------------------------------------
RequestOK(q) ==
  /\ q.at \in Places
  /\ q.op \in Ops
  /\ q.name \in Names
  /\ q.bearer \in Requests \cup {NULL}
  /\ q.body \in Bodies \cup {<<>>}
  /\ q.superseded \in BOOLEAN
  /\ \A c \in DOMAIN q.fields : q.fields[c] \in Says[c]

RegistryTypeOK ==
  /\ \A n \in Names : Exists(n) => disciples[n] \in Row
  /\ peaks \in [Peaks -> PeakStatus \cup {"absent"}]
  /\ \A r \in Requests : requests[r] \in {Idle, Over} \/ RequestOK(requests[r])

(* register_disciple: of the requests that race to admit one name, or of   *)
(* the repetitions of one, a single one is answered with a token; the      *)
(* others are told disciple_exists.                                        *)
OneAdmission ==
  \A r, other \in Requests :
    /\ \A q \in {r, other} :
         (At(q, "written") \/ At(q, "told")) /\ requests[q].op = "register"
    /\ requests[r].name = requests[other].name
    => r = other

(* "The previous one stops working immediately": a request sent with a     *)
(* token that was replaced by then is never authenticated.  One that was   *)
(* authenticated before the rotation still writes.                         *)
ReplacedTokensAreDead ==
  \A r \in Requests :
    (\E place \in {"known", "found", "resolved", "written"} : At(r, place))
    => ~ requests[r].superseded

\* What a request may change of its disciple.
May(r, c) ==
  /\ c = "token_hash" => requests[r].op = "rotate"
  /\ c \in {"realm", "active", "token_hash"} => requests[r].bearer = NULL
  /\ c \in {"realm", "active"} => requests[r].op = "patch"
  /\ c = "peak_id" => "peak" \in DOMAIN requests[r].body
  /\ c \in {"arts", "realm", "active"} => c \in DOMAIN requests[r].body

(* Concurrent edits are not lost and nobody promotes itself: a column of a *)
(* disciple changes only by a request for that disciple that mentioned it, *)
(* its realm and its activity only by the master's, its token only by a    *)
(* rotation, and a peak's retirement changes no disciple.                  *)
OnlyMentionedColumnsMove ==
  [][\A n \in Names : Exists(n) =>
       /\ Exists(n)'
       /\ \A c \in DOMAIN disciples[n] :
            disciples'[n][c] # disciples[n][c] =>
              \E r \in Requests :
                /\ ~ At(r, "written") /\ At(r, "written")'
                /\ requests[r].name = n
                /\ May(r, c)]_vars

(* A peak that a disciple belongs to, or that a request has found and not  *)
(* yet written, is there.                                                  *)
AffiliationsExist ==
  /\ \A n \in Names :
       Exists(n) => disciples[n].peak_id = NULL \/ peaks[disciples[n].peak_id] # "absent"
  /\ \A r \in Requests :
       /\ At(r, "resolved")
       /\ "peak_id" \in DOMAIN requests[r].fields
       => \/ requests[r].fields.peak_id = NULL
          \/ peaks[requests[r].fields.peak_id] # "absent"
=============================================================================
