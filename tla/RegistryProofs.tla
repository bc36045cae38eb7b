--------------------------- MODULE RegistryProofs ---------------------------
(***************************************************************************)
(* Proofs about Registry, for any names, peaks and bodies and any number   *)
(* of requests.                                                            *)
(*                                                                         *)
(* The properties are about what a request found on its way and writes     *)
(* later.  They are inductive together with what holds of a request under  *)
(* way wherever it is (Sound): its token was told to the disciple it names *)
(* and is dead if it was superseded; whoever wrote, wrote a row that is    *)
(* there; and the columns it carries are those its body is about.  A token *)
(* in the table belongs to the disciple whose row it is in (TokenInv).     *)
(***************************************************************************)
EXTENDS Registry, TLAPS

Columns == {Resolved(op, b) : op \in Ops, b \in Bodies \cup {<<>>}} \cup {<<>>}

Request == [ at: Places, op: Ops, name: Names, bearer: Requests \cup {NULL},
             body: Bodies \cup {<<>>}, fields: Columns, superseded: BOOLEAN ]

TypeInv ==
  /\ disciples \in [Names -> Row \cup {NULL}]
  /\ peaks \in [Peaks -> PeakStatus \cup {"absent"}]
  /\ requests \in [Requests -> {Idle, Over} \cup Request]

\* The token of a request: told to the disciple it names, and nobody's if it had
\* been replaced when the request was sent.
BearerSound(q) ==
  /\ q.bearer # NULL =>
       requests[q.bearer].at = "told" /\ requests[q.bearer].name = q.name
  /\ q.superseded =>
       q.bearer # NULL /\ \A n \in Names : Exists(n) => disciples[n].token_hash # q.bearer

BodySound(q) ==
  /\ DOMAIN q.body \subseteq Fields[q.op]
  /\ q.op = "register" => "arts" \in DOMAIN q.body /\ q.body.arts # NULL

\* What a request has found out by the time it is where it is.
PlaceSound(q) ==
  /\ q.at \in {"known", "found", "resolved", "written"} =>
       /\ ~ q.superseded
       /\ IF q.op = "announce" THEN Exists(q.name) ELSE q.bearer = NULL
  /\ q.at = "found" => q.op = "patch"
  /\ q.at \in {"found", "resolved"} /\ q.op = "patch" => Exists(q.name)
  /\ q.at = "resolved" => q.fields = Resolved(q.op, q.body)
  /\ q.at \in {"written", "told"} => Exists(q.name)

Sound(q) == BearerSound(q) /\ BodySound(q) /\ PlaceSound(q)

RequestInv == \A r \in Requests : requests[r] \in Request => Sound(requests[r])

\* A token in the table was minted for that disciple, or its answer was lost.
TokenInv ==
  \A n \in Names : Exists(n) =>
    LET q == requests[disciples[n].token_hash]
    IN  \/ q = Over
        \/ q \in Request /\ q.at \in {"written", "told"} /\ q.name = n

Inv == TypeInv /\ RequestInv /\ TokenInv /\ OneAdmission /\ AffiliationsExist

----------------------------------------------------------------------------
\* What a body's columns are.
LEMMA Columned ==
  ASSUME NEW op \in Ops, NEW b \in Bodies \cup {<<>>}
  PROVE  LET f == Resolved(op, b) IN
         /\ f \in Columns
         /\ DOMAIN f \subseteq {"arts", "realm", "active", "peak_id"}
         /\ \A c \in DOMAIN f \ {"peak_id"} : c \in DOMAIN b /\ f[c] = b[c]
         /\ \A c \in DOMAIN b \ {"peak"} : c \in DOMAIN f
         /\ "peak_id" \in DOMAIN f <=> op = "register" \/ "peak" \in DOMAIN b
         /\ "peak_id" \in DOMAIN f =>
              f.peak_id = IF "peak" \in DOMAIN b THEN b.peak ELSE NULL
         /\ \A c \in DOMAIN f : f[c] \in Says[c]
  <1> DEFINE f == Resolved(op, b)
  <1>1. f \in Columns
    BY DEF Columns
  <1>2. \A c \in DOMAIN b \ {"peak"} :
          c \in {"arts", "realm", "active"} /\ b[c] \in Says[c]
    BY BodiesAssumption
  <1>3. "peak" \in DOMAIN b => b["peak"] \in Says["peak_id"]
    BY BodiesAssumption
  <1>4. NULL \in Says["peak_id"]
    BY DEF Says
  <1>5. /\ DOMAIN f = (DOMAIN b \ {"peak"}) \cup
                      (IF op = "register" \/ "peak" \in DOMAIN b THEN {"peak_id"} ELSE {})
        /\ \A c \in DOMAIN f :
             f[c] = IF c # "peak_id" THEN b[c]
                    ELSE IF "peak" \in DOMAIN b THEN b["peak"] ELSE NULL
    BY DEF Resolved
  <1> HIDE DEF f
  <1>6. \A c \in DOMAIN f : f[c] \in Says[c]
    BY <1>2, <1>3, <1>4, <1>5
  <1> QED
    BY <1>1, <1>2, <1>5, <1>6 DEF f

LEMMA PlacesDiffer ==
  /\ Idle.at = "idle" /\ Over.at = "over" /\ Idle \notin Request /\ Over \notin Request
  /\ \A q \in Request : q.at \in Places
  <1>1. Idle.at = "idle" /\ Over.at = "over"
    BY DEF Idle, Over
  <1>2. \A q \in Request : q.at \in Places
    BY DEF Request
  <1> QED
    BY <1>1, <1>2 DEF Places

\* A request that is somewhere on its way is one that was sent.
LEMMA UnderWay ==
  ASSUME TypeInv, NEW r \in Requests, requests[r].at \in Places
  PROVE  requests[r] \in Request
  BY PlacesDiffer DEF TypeInv, Places

LEMMA RowFacts ==
  ASSUME TypeInv, NEW n \in Names
  PROVE  Exists(n) <=> disciples[n] \in Row
  BY RowAssumption DEF TypeInv, Exists

\* A step that moves one request, which nobody has been told of yet, and writes
\* nothing.
LEMMA OneRequest ==
  ASSUME Inv, NEW r \in Requests, requests[r].at \notin {"told", "over"},
         NEW q \in {Over} \cup Request,
         q \in Request => Sound(q),
         At(r, "written") => q = Over \/ (q.at = "told" /\ q.name = requests[r].name),
         q.at \in {"written", "told"} => At(r, "written") /\ q.op = requests[r].op,
         q.at = "resolved" /\ "peak_id" \in DOMAIN q.fields =>
           q.fields.peak_id = NULL \/ peaks[q.fields.peak_id] # "absent",
         requests' = [requests EXCEPT ![r] = q],
         UNCHANGED <<disciples, peaks>>
  PROVE  Inv'
  <1>1. TypeInv /\ RequestInv /\ TokenInv /\ OneAdmission /\ AffiliationsExist
    BY DEF Inv
  <1>2. /\ requests'[r] = q
        /\ \A o \in Requests : o # r => requests'[o] = requests[o]
        /\ \A n \in Names : Exists(n)' <=> Exists(n)
        /\ disciples' = disciples /\ peaks' = peaks
    BY <1>1 DEF TypeInv, Exists
  <1>3. TypeInv'
    BY <1>1 DEF TypeInv
  <1>4. ASSUME NEW x \in Request, Sound(x)
        PROVE  Sound(x)'
    <2>1. x.bearer \in Requests \cup {NULL}
      BY DEF Request
    <2>2. BearerSound(x)'
      BY <1>2, <1>4, <2>1 DEF Sound, BearerSound
    <2>3. BodySound(x)' /\ PlaceSound(x)'
      BY <1>2, <1>4 DEF Sound, BodySound, PlaceSound, Exists
    <2> QED
      BY <2>2, <2>3 DEF Sound
  <1>5. RequestInv'
    BY <1>1, <1>2, <1>4 DEF RequestInv
  <1>6. TokenInv'
    <2> SUFFICES ASSUME NEW n \in Names, Exists(n)
                 PROVE  LET z == requests'[disciples[n].token_hash]
                        IN  \/ z = Over
                            \/ z \in Request /\ z.at \in {"written", "told"} /\ z.name = n
      BY <1>2 DEF TokenInv
    <2>1. disciples[n].token_hash \in Requests
      BY <1>1, RowFacts DEF Row
    <2>2. CASE disciples[n].token_hash # r
      BY <1>1, <1>2, <2>1, <2>2 DEF TokenInv
    <2>3. CASE disciples[n].token_hash = r
      <3>1. requests[r].at = "written" /\ requests[r].name = n
        BY <1>1, <2>3, PlacesDiffer DEF TokenInv
      <3> QED
        BY <1>2, <2>3, <3>1, PlacesDiffer DEF At
    <2> QED
      BY <2>2, <2>3
  <1>7. OneAdmission'
    BY <1>1, <1>2, PlacesDiffer DEF OneAdmission, At
  <1>8. AffiliationsExist'
    BY <1>1, <1>2, PlacesDiffer DEF AffiliationsExist, At
  <1> QED
    BY <1>3, <1>5, <1>6, <1>7, <1>8 DEF Inv

\* A request that writes the row of the disciple it names.
LEMMA OneWrite ==
  ASSUME Inv, NEW r \in Requests, requests[r].at \in {"known", "resolved"},
         NEW n \in Names, requests[r].name = n,
         NEW row \in Row,
         \/ row.token_hash = r
         \/ Exists(n) /\ row.token_hash = disciples[n].token_hash,
         row.peak_id = NULL \/ peaks[row.peak_id] # "absent",
         requests[r].op = "register" => ~ Exists(n),
         disciples' = [disciples EXCEPT ![n] = row],
         MoveTo(r, "written"),
         UNCHANGED peaks
  PROVE  Inv'
  <1> DEFINE q == [requests[r] EXCEPT !.at = "written"]
  <1>1. TypeInv /\ RequestInv /\ TokenInv /\ OneAdmission /\ AffiliationsExist
    BY DEF Inv
  <1>2. requests[r] \in Request
    BY <1>1, UnderWay DEF Places
  <1>3. /\ q \in Request /\ q.at = "written" /\ q.op = requests[r].op
        /\ q.name = n /\ q.bearer = requests[r].bearer /\ q.body = requests[r].body
        /\ q.superseded = requests[r].superseded
    BY <1>2 DEF Request, Places
  <1>4. /\ requests' = [requests EXCEPT ![r] = q]
        /\ requests'[r] = q
        /\ \A o \in Requests : o # r => requests'[o] = requests[o]
    BY <1>1 DEF TypeInv, MoveTo
  <1> HIDE DEF q
  <1>5. /\ disciples'[n] = row /\ Exists(n)' /\ peaks' = peaks
        /\ \A o \in Names : o # n => disciples'[o] = disciples[o]
        /\ \A o \in Names : Exists(o) => Exists(o)'
        /\ \A o \in Names : o # n /\ Exists(o)' => Exists(o)
    BY <1>1, RowAssumption DEF TypeInv, Exists
  <1>6. TypeInv'
    BY <1>1, <1>3, <1>4 DEF TypeInv
  <1>7. ASSUME NEW x \in Request, Sound(x)
        PROVE  BearerSound(x)'
    <2>1. x.bearer # NULL => /\ x.bearer \in Requests /\ x.bearer # r
                             /\ requests'[x.bearer] = requests[x.bearer]
      BY <1>4, <1>7 DEF Request, Sound, BearerSound
    <2>2. \A o \in Names : Exists(o)' /\ x.superseded =>
            disciples'[o].token_hash # x.bearer
      BY <1>5, <1>7, <2>1 DEF Sound, BearerSound
    <2> QED
      BY <1>7, <2>1, <2>2 DEF Sound, BearerSound
  <1>8. RequestInv'
    <2>1. ASSUME NEW o \in Requests, NEW x \in Request, o # r, x = requests[o]
          PROVE  Sound(x)'
      <3>1. Sound(x) /\ x.name \in Names
        BY <1>1, <2>1 DEF RequestInv, Request
      <3>2. BodySound(x)' /\ PlaceSound(x)'
        BY <1>5, <3>1 DEF Sound, BodySound, PlaceSound
      <3> QED
        BY <1>7, <3>1, <3>2 DEF Sound
    <2>2. ASSUME NEW x \in Request, x = q
          PROVE  Sound(x)'
      <3>1. PICK y \in Request : y = requests[r]
        BY <1>2
      <3>2. Sound(y) /\ y.at \in {"known", "resolved"}
        BY <1>1, <3>1 DEF RequestInv
      <3>3. BearerSound(y)'
        BY <1>7, <3>2
      <3>4. /\ x.at = "written" /\ x.op = y.op /\ x.name = n /\ x.bearer = y.bearer
            /\ x.body = y.body /\ x.superseded = y.superseded /\ y.name = n
        BY <1>3, <2>2, <3>1
      <3>5. BearerSound(x)' /\ BodySound(x)'
        BY <3>2, <3>3, <3>4 DEF Sound, BearerSound, BodySound
      <3>6. PlaceSound(x)'
        BY <1>5, <3>2, <3>4 DEF Sound, PlaceSound
      <3> QED
        BY <3>5, <3>6 DEF Sound
    <2> QED
      BY <1>4, <1>1, <2>1, <2>2 DEF RequestInv
  <1>9. TokenInv'
    <2> SUFFICES ASSUME NEW o \in Names, Exists(o)'
                 PROVE  LET z == requests'[disciples'[o].token_hash]
                        IN  \/ z = Over
                            \/ z \in Request /\ z.at \in {"written", "told"} /\ z.name = o
      BY DEF TokenInv
    <2>1. \A x \in Names : Exists(x) =>
            disciples[x].token_hash \in Requests /\ disciples[x].token_hash # r
      BY <1>1, RowFacts, PlacesDiffer DEF TokenInv, Row
    <2>2. CASE o # n
      BY <1>1, <1>4, <1>5, <2>1, <2>2 DEF TokenInv
    <2>3. CASE o = n /\ row.token_hash = r
      BY <1>3, <1>4, <1>5, <2>3
    <2>4. CASE o = n /\ Exists(n) /\ row.token_hash = disciples[n].token_hash
      BY <1>1, <1>4, <1>5, <2>1, <2>4 DEF TokenInv
    <2> QED
      BY <2>2, <2>3, <2>4
  <1>10. OneAdmission'
    <2>1. \A o \in Requests :
            requests[o].at \in {"written", "told"} =>
              Exists(requests[o].name) /\ requests[o] \in Request
      BY <1>1, UnderWay DEF RequestInv, Sound, PlaceSound, Places
    <2> QED
      BY <1>1, <1>3, <1>4, <2>1 DEF OneAdmission, At
  <1>11. AffiliationsExist'
    BY <1>1, <1>3, <1>4, <1>5 DEF AffiliationsExist, At
  <1> QED
    BY <1>6, <1>8, <1>9, <1>10, <1>11 DEF Inv

\* Peaks come and retire, and never go.
LEMMA OnePeak ==
  ASSUME Inv, peaks' \in [Peaks -> PeakStatus \cup {"absent"}],
         \A p \in Peaks : peaks[p] # "absent" => peaks'[p] # "absent",
         UNCHANGED <<disciples, requests>>
  PROVE  Inv'
  <1>1. TypeInv'
    BY DEF Inv, TypeInv
  <1>2. RequestInv' /\ TokenInv' /\ OneAdmission'
    BY DEF Inv, RequestInv, TokenInv, OneAdmission, Sound, BearerSound, BodySound,
           PlaceSound, Exists, At
  <1>3. AffiliationsExist'
    <2>1. \A n \in Names : Exists(n) => disciples[n].peak_id \in Peaks \cup {NULL}
      BY RowFacts DEF Inv, Row
    <2>2. \A r \in Requests : At(r, "resolved") /\ "peak_id" \in DOMAIN requests[r].fields
            => requests[r].fields.peak_id \in Peaks \cup {NULL}
      <3> SUFFICES ASSUME NEW r \in Requests, At(r, "resolved"),
                          "peak_id" \in DOMAIN requests[r].fields
                   PROVE  requests[r].fields["peak_id"] \in Peaks \cup {NULL}
        OBVIOUS
      <3>1. requests[r] \in Request
        BY UnderWay DEF Inv, At, Places
      <3>2. requests[r].fields = Resolved(requests[r].op, requests[r].body)
        BY <3>1 DEF Inv, RequestInv, Sound, PlaceSound, At
      <3>3. requests[r].op \in Ops /\ requests[r].body \in Bodies \cup {<<>>}
        BY <3>1 DEF Request
      <3>4. requests[r].fields["peak_id"] \in Says["peak_id"]
        BY <3>2, <3>3, Columned
      <3> QED
        BY <3>4 DEF Says
    <2> QED
      BY <2>1, <2>2 DEF Inv, AffiliationsExist, Exists, At
  <1> QED
    BY <1>1, <1>2, <1>3 DEF Inv

----------------------------------------------------------------------------
\* The steps, one by one.

LEMMA RegistryInit == Init => Inv
  <1> SUFFICES ASSUME Init PROVE Inv
    OBVIOUS
  <1>1. TypeInv
    BY DEF Init, TypeInv
  <1>2. \A n \in Names : ~ Exists(n)
    BY DEF Init, Exists
  <1>3. \A r \in Requests : requests[r].at = "idle" /\ requests[r] \notin Request
    BY PlacesDiffer DEF Init
  <1> QED
    BY <1>1, <1>2, <1>3 DEF Inv, RequestInv, TokenInv, OneAdmission, AffiliationsExist, At

\* An error may end a request anywhere on its way.
LEMMA KeepRefuse ==
  ASSUME Inv, NEW r \in Requests, requests[r].at \notin {"told", "over"}, Refuse(r),
         UNCHANGED <<disciples, peaks>>
  PROVE  Inv'
  <1>1. requests' = [requests EXCEPT ![r] = Over] /\ Over \notin Request
        /\ Over.at = "over"
    BY PlacesDiffer DEF Refuse
  <1> QED
    BY <1>1, OneRequest

\* A request moves on, its body and its caller the same.
LEMMA KeepMove ==
  ASSUME Inv, NEW r \in Requests, NEW place \in {"known", "found"},
         requests[r].at \in {"sent", "known"}, MoveTo(r, place),
         UNCHANGED <<disciples, peaks>>,
         ~ requests[r].superseded,
         IF requests[r].op = "announce" THEN Exists(requests[r].name)
                                        ELSE requests[r].bearer = NULL,
         place = "found" => requests[r].op = "patch" /\ Exists(requests[r].name)
  PROVE  Inv'
  <1> DEFINE q == [requests[r] EXCEPT !.at = place]
  <1>1. requests[r] \in Request /\ Sound(requests[r])
    BY UnderWay DEF Inv, RequestInv, Places
  <1>2. /\ q \in Request /\ q.at = place /\ q.op = requests[r].op
        /\ q.name = requests[r].name /\ q.bearer = requests[r].bearer
        /\ q.body = requests[r].body /\ q.superseded = requests[r].superseded
    BY <1>1 DEF Request, Places
  <1>3. requests' = [requests EXCEPT ![r] = q]
    BY DEF MoveTo
  <1> HIDE DEF q
  <1>4. Sound(q)
    BY <1>1, <1>2 DEF Sound, BearerSound, BodySound, PlaceSound
  <1> QED
    BY <1>2, <1>3, <1>4, OneRequest DEF At

LEMMA KeepSend ==
  ASSUME Inv, NEW r \in Requests, NEW op \in Ops, NEW n \in Names,
         NEW t \in Requests \cup {NULL}, NEW b \in Bodies \cup {<<>>}, Send(r, op, n, t, b)
  PROVE  Inv'
  <1> DEFINE dead == t # NULL /\ disciples[n].token_hash # t
             q == [ at |-> "sent", op |-> op, name |-> n, bearer |-> t, body |-> b,
                    fields |-> <<>>, superseded |-> dead ]
  <1>1. requests' = [requests EXCEPT ![r] = q] /\ requests[r].at = "idle"
    BY DEF Send, At
  <1>2. /\ q \in Request /\ q.at = "sent" /\ q.op = op /\ q.name = n /\ q.bearer = t
        /\ q.body = b /\ q.superseded = dead
    BY DEF Request, Places, Columns
  <1> HIDE DEF q
  <1>3. BodySound(q) /\ PlaceSound(q)
    BY <1>2 DEF Send, BodySound, PlaceSound
  <1>4. BearerSound(q)
    <2>1. t # NULL => t \in Requests /\ requests[t].at = "told" /\ requests[t].name = n
      BY DEF Send, Known, At
    <2>2. ASSUME NEW x \in Names, Exists(x), dead
          PROVE  disciples[x].token_hash # t
      <3>1. requests[t].at = "told" /\ requests[t].name = n
        BY <2>1, <2>2
      <3>2. disciples[x].token_hash = t => requests[t].name = x
        BY <2>2, <3>1, PlacesDiffer DEF Inv, TokenInv
      <3> QED
        BY <2>2, <3>1, <3>2
    <2> QED
      BY <1>2, <2>1, <2>2 DEF BearerSound
  <1> QED
    BY <1>1, <1>2, <1>3, <1>4, OneRequest DEF Sound, Send, At

LEMMA KeepHear ==
  ASSUME Inv, NEW r \in Requests, Hear(r)
  PROVE  Inv'
  <1> DEFINE q == [requests[r] EXCEPT !.at = "told"]
  <1>1. CASE Refuse(r)
    BY <1>1, KeepRefuse DEF Hear, At
  <1>2. CASE MoveTo(r, "told")
    <2>1. requests[r] \in Request /\ Sound(requests[r]) /\ requests[r].at = "written"
      BY UnderWay DEF Hear, At, Inv, RequestInv, Places
    <2>2. /\ q \in Request /\ q.at = "told" /\ q.op = requests[r].op
          /\ q.name = requests[r].name /\ q.bearer = requests[r].bearer
          /\ q.body = requests[r].body /\ q.superseded = requests[r].superseded
      BY <2>1 DEF Request, Places
    <2>3. requests' = [requests EXCEPT ![r] = q] /\ UNCHANGED <<disciples, peaks>>
      BY <1>2 DEF MoveTo, Hear
    <2> HIDE DEF q
    <2>4. Sound(q)
      BY <2>1, <2>2 DEF Sound, BearerSound, BodySound, PlaceSound
    <2> QED
      BY <2>1, <2>2, <2>3, <2>4, OneRequest DEF At
  <1> QED
    BY <1>1, <1>2 DEF Hear

LEMMA KeepAuthenticate ==
  ASSUME Inv, NEW r \in Requests, Authenticate(r)
  PROVE  Inv'
  <1>1. CASE ~ Entitled(r)
    BY <1>1, KeepRefuse DEF Authenticate, At
  <1>2. CASE Entitled(r)
    <2>1. requests[r] \in Request /\ BearerSound(requests[r]) /\ requests[r].at = "sent"
      BY UnderWay DEF Authenticate, At, Inv, RequestInv, Sound, Places
    <2>2. CASE requests[r].op = "announce"
      <3> DEFINE t == requests[r].bearer
      <3>1. t # NULL /\ Accepts(r) /\ t \in Requests
        BY <1>2, <2>1, <2>2 DEF Entitled, Request
      <3>2. PICK n \in Names : Exists(n) /\ disciples[n].token_hash = t
        BY <3>1 DEF Accepts
      <3>3. requests[t].at = "told" /\ requests[t].name = requests[r].name
        BY <2>1, <3>1 DEF BearerSound
      <3>4. requests[t].name = n
        BY <3>2, <3>3, PlacesDiffer DEF Inv, TokenInv
      <3>5. ~ requests[r].superseded
        BY <2>1, <3>2 DEF BearerSound
      <3> QED
        BY <1>2, <2>1, <2>2, <3>2, <3>3, <3>4, <3>5, KeepMove DEF Authenticate
    <2>3. CASE requests[r].op # "announce"
      <3>1. requests[r].bearer = NULL
        BY <1>2, <2>3 DEF Entitled
      <3>2. ~ requests[r].superseded
        BY <2>1, <3>1 DEF BearerSound
      <3> QED
        BY <1>2, <2>1, <2>3, <3>1, <3>2, KeepMove DEF Authenticate
    <2> QED
      BY <2>2, <2>3
  <1> QED
    BY <1>1, <1>2

LEMMA KeepFind ==
  ASSUME Inv, NEW r \in Requests, Find(r)
  PROVE  Inv'
  <1>1. CASE ~ Exists(requests[r].name)
    BY <1>1, KeepRefuse DEF Find, At
  <1>2. CASE Exists(requests[r].name)
    <2>1. Sound(requests[r]) /\ requests[r].at = "known"
      BY UnderWay DEF Find, At, Inv, RequestInv, Places
    <2> QED
      BY <1>2, <2>1, KeepMove DEF Find, Sound, PlaceSound
  <1> QED
    BY <1>1, <1>2

LEMMA KeepResolve ==
  ASSUME Inv, NEW r \in Requests, Resolve(r)
  PROVE  Inv'
  <1> DEFINE f == Resolved(requests[r].op, requests[r].body)
             q == [requests[r] EXCEPT !.at = "resolved", !.fields = f]
             sound == ~ AsksRealm(r) /\ Resolvable(requests[r].body)
  <1>1. requests[r].at \in {"known", "found"}
    BY DEF Resolve, At
  <1>2. CASE ~ sound
    BY <1>1, <1>2, KeepRefuse DEF Resolve
  <1>3. CASE sound
    <2>1. requests[r] \in Request /\ Sound(requests[r])
      BY <1>1, UnderWay DEF Inv, RequestInv, Places
    <2>2. requests[r].op \in Ops /\ requests[r].body \in Bodies \cup {<<>>}
      BY <2>1 DEF Request
    <2>3. f \in Columns
      BY <2>2, Columned
    <2>4. "peak_id" \in DOMAIN f => f.peak_id = NULL \/ peaks[f.peak_id] # "absent"
      BY <1>3, <2>2, Columned DEF Resolvable
    <2>5. requests' = [requests EXCEPT ![r] = q] /\ UNCHANGED <<disciples, peaks>>
      BY <1>3 DEF Resolve
    <2> HIDE DEF f
    <2>6. /\ q \in Request /\ q.at = "resolved" /\ q.op = requests[r].op
          /\ q.name = requests[r].name /\ q.bearer = requests[r].bearer
          /\ q.body = requests[r].body /\ q.superseded = requests[r].superseded
          /\ q.fields = f
      BY <2>1, <2>3 DEF Request, Places
    <2> HIDE DEF q
    <2>7. requests[r].op = "patch" => Exists(requests[r].name)
      BY <1>1, <2>1 DEF Resolve, At, Sound, PlaceSound
    <2>8. Sound(q)
      BY <1>1, <2>1, <2>6, <2>7 DEF Sound, BearerSound, BodySound, PlaceSound, f
    <2> QED
      BY <1>1, <2>4, <2>5, <2>6, <2>8, OneRequest DEF At
  <1> QED
    BY <1>2, <1>3

\* What a request that has resolved its body carries.
LEMMA Carried ==
  ASSUME Inv, NEW r \in Requests, At(r, "resolved")
  PROVE  LET q == requests[r] IN
         /\ q \in Request /\ Sound(q)
         /\ DOMAIN q.fields \subseteq {"arts", "realm", "active", "peak_id"}
         /\ \A c \in DOMAIN q.fields : q.fields[c] \in Says[c]
         /\ \A c \in DOMAIN q.fields \ {"peak_id"} :
              c \in DOMAIN q.body /\ q.fields[c] = q.body[c]
         /\ \A c \in DOMAIN q.body \ {"peak"} : c \in DOMAIN q.fields
         /\ "peak_id" \in DOMAIN q.fields <=> q.op = "register" \/ "peak" \in DOMAIN q.body
         /\ "peak_id" \in DOMAIN q.fields =>
              q.fields.peak_id = NULL \/ peaks[q.fields.peak_id] # "absent"
  <1>1. requests[r] \in Request /\ Sound(requests[r])
    BY UnderWay DEF Inv, RequestInv, At, Places
  <1>2. requests[r].fields = Resolved(requests[r].op, requests[r].body)
    BY <1>1 DEF Sound, PlaceSound, At
  <1>3. requests[r].op \in Ops /\ requests[r].body \in Bodies \cup {<<>>}
    BY <1>1 DEF Request
  <1>4. "peak_id" \in DOMAIN requests[r].fields =>
          \/ requests[r].fields.peak_id = NULL
          \/ peaks[requests[r].fields.peak_id] # "absent"
    BY DEF Inv, AffiliationsExist
  <1> QED
    BY <1>1, <1>2, <1>3, <1>4, Columned

\* A new row.
LEMMA Registered ==
  ASSUME Inv, NEW r \in Requests, At(r, "resolved"), requests[r].op = "register"
  PROVE  LET row == NewRow(r, requests[r].fields) IN
         /\ row \in Row /\ row.token_hash = r
         /\ row.peak_id = NULL \/ peaks[row.peak_id] # "absent"
  <1> DEFINE f == requests[r].fields
  <1>1. /\ "arts" \in DOMAIN f /\ "peak_id" \in DOMAIN f /\ f["arts"] # NULL
        /\ f["arts"] \in Says["arts"] /\ f["peak_id"] \in Says["peak_id"]
        /\ f["peak_id"] = NULL \/ peaks[f["peak_id"]] # "absent"
    BY Carried DEF Sound, BodySound
  <1>2. f["arts"] \in Profiles /\ f["peak_id"] \in Peaks \cup {NULL}
    BY <1>1 DEF Says
  <1> HIDE DEF f
  <1>3. NewRow(r, f) \in Row
    BY <1>2, RegistryAssumption DEF NewRow, Row
  <1>4. NewRow(r, f).token_hash = r /\ NewRow(r, f).peak_id = f["peak_id"]
    BY DEF NewRow
  <1> QED
    BY <1>1, <1>3, <1>4 DEF f

LEMMA KeepRegister ==
  ASSUME Inv, NEW r \in Requests, Register(r)
  PROVE  Inv'
  <1>1. CASE ~ Admits(r)
    BY <1>1, KeepRefuse DEF Register, At
  <1>2. CASE Admits(r)
    <2> DEFINE row == NewRow(r, requests[r].fields)
               n == requests[r].name
    <2>1. n \in Names
      BY UnderWay DEF Register, At, Inv, Places, Request
    <2>2. /\ row \in Row /\ row.token_hash = r
          /\ row.peak_id = NULL \/ peaks[row.peak_id] # "absent"
      BY Registered DEF Register
    <2>3. /\ disciples' = [disciples EXCEPT ![n] = row] /\ MoveTo(r, "written")
          /\ ~ Exists(n) /\ UNCHANGED peaks /\ requests[r].at = "resolved"
      BY <1>2 DEF Register, Admits, At
    <2> HIDE DEF row, n
    <2> QED
      BY <2>1, <2>2, <2>3, OneWrite DEF n
  <1> QED
    BY <1>1, <1>2

\* An update that violates nothing leaves a row, the same but for the columns it
\* assigns.
LEMMA Updated ==
  ASSUME Inv, NEW r \in Requests, At(r, "resolved"), ~ Violates(r),
         requests[r].op \in {"announce", "patch"}
  PROVE  LET n   == requests[r].name
             row == build_update(r, disciples[n]) IN
         /\ n \in Names /\ Exists(n) /\ disciples[n] \in Row
         /\ row \in Row /\ row.token_hash = disciples[n].token_hash
         /\ row.peak_id = NULL \/ peaks[row.peak_id] # "absent"
         /\ \A c \in DOMAIN disciples[n] :
              row[c] = IF c \in Assigned(r) THEN requests[r].fields[c] ELSE disciples[n][c]
  <1> DEFINE n == requests[r].name
             d == disciples[n]
             f == requests[r].fields
             row == build_update(r, d)
  <1>1. n \in Names /\ Exists(n)
    BY Carried DEF At, Request, Sound, PlaceSound
  <1>2. d \in Row
    BY <1>1, RowFacts DEF Inv
  <1>3. Assigned(r) \subseteq {"arts", "realm", "active", "peak_id"}
    BY Carried DEF Assigned
  <1>4. \A c \in Assigned(r) : f[c] \in Says[c] /\ (c = "peak_id" \/ f[c] # NULL)
    BY Carried DEF Assigned, Violates
  <1>5. /\ "arts" \in Assigned(r) => f["arts"] \in Profiles
        /\ "realm" \in Assigned(r) => f["realm"] \in Realms
        /\ "active" \in Assigned(r) => f["active"] \in BOOLEAN
        /\ "peak_id" \in Assigned(r) => f["peak_id"] \in Peaks \cup {NULL}
    BY <1>4 DEF Says
  <1>6. "peak_id" \in Assigned(r) => f["peak_id"] = NULL \/ peaks[f["peak_id"]] # "absent"
    BY Carried DEF Assigned
  <1>7. d.peak_id = NULL \/ peaks[d.peak_id] # "absent"
    BY <1>1 DEF Inv, AffiliationsExist
  <1>8. row = [c \in DOMAIN d |-> IF c \in Assigned(r) THEN f[c] ELSE d[c]]
    BY DEF build_update
  <1> HIDE DEF d, f, row, n
  <1>9. /\ DOMAIN d = {"token_hash", "arts", "realm", "active", "peak_id"}
         /\ d["token_hash"] \in Requests /\ d["arts"] \in Profiles
         /\ d["realm"] \in Realms /\ d["active"] \in BOOLEAN
         /\ d["peak_id"] \in Peaks \cup {NULL}
    BY <1>2 DEF Row
  <1>10. row = [ token_hash |-> row["token_hash"], arts |-> row["arts"],
                 realm |-> row["realm"], active |-> row["active"],
                 peak_id |-> row["peak_id"] ]
    BY <1>8, <1>9
  <1>11. /\ row["token_hash"] = d["token_hash"] /\ row["arts"] \in Profiles
         /\ row["realm"] \in Realms /\ row["active"] \in BOOLEAN
         /\ row["peak_id"] \in Peaks \cup {NULL}
    BY <1>3, <1>5, <1>8, <1>9
  <1>12. row \in Row
    BY <1>9, <1>10, <1>11 DEF Row
  <1>13. row["peak_id"] = NULL \/ peaks[row["peak_id"]] # "absent"
    BY <1>6, <1>7, <1>8, <1>9
  <1>14. \A c \in DOMAIN d : row[c] = IF c \in Assigned(r) THEN f[c] ELSE d[c]
    BY <1>8
  <1> QED
    BY <1>1, <1>2, <1>11, <1>12, <1>13, <1>14 DEF n, d, f, row

LEMMA KeepUpdate ==
  ASSUME Inv, NEW r \in Requests, Update(r)
  PROVE  Inv'
  <1>1. CASE Violates(r)
    BY <1>1, KeepRefuse DEF Update, At
  <1>2. CASE ~ Violates(r)
    <2> DEFINE n == requests[r].name
               row == build_update(r, disciples[n])
    <2>1. /\ n \in Names /\ Exists(n) /\ row \in Row
          /\ row.token_hash = disciples[n].token_hash
          /\ row.peak_id = NULL \/ peaks[row.peak_id] # "absent"
      BY <1>2, Updated DEF Update
    <2>2. /\ disciples' = [disciples EXCEPT ![n] = row] /\ MoveTo(r, "written")
          /\ requests[r].op # "register" /\ UNCHANGED peaks
          /\ requests[r].at = "resolved"
      BY <1>2 DEF Update, At
    <2> HIDE DEF row, n
    <2> QED
      BY <2>1, <2>2, OneWrite DEF n
  <1> QED
    BY <1>1, <1>2

LEMMA KeepRotate ==
  ASSUME Inv, NEW r \in Requests, Rotate(r)
  PROVE  Inv'
  <1>1. CASE ~ Exists(requests[r].name)
    BY <1>1, KeepRefuse DEF Rotate, At
  <1>2. CASE Exists(requests[r].name)
    <2> DEFINE n == requests[r].name
               row == [disciples[n] EXCEPT !.token_hash = r]
    <2>1. n \in Names
      BY UnderWay DEF Rotate, At, Inv, Places, Request
    <2>2. disciples[n] \in Row
      BY <1>2, <2>1, RowFacts DEF Inv
    <2>3. row \in Row /\ row.token_hash = r /\ row.peak_id = disciples[n].peak_id
      BY <2>2 DEF Row
    <2>4. row.peak_id = NULL \/ peaks[row.peak_id] # "absent"
      BY <1>2, <2>1, <2>3 DEF Inv, AffiliationsExist
    <2>5. /\ disciples' = [disciples EXCEPT ![n] = row] /\ MoveTo(r, "written")
          /\ requests[r].op # "register" /\ UNCHANGED peaks
          /\ requests[r].at = "known"
      BY <1>2 DEF Rotate, At
    <2> HIDE DEF row, n
    <2> QED
      BY <2>1, <2>3, <2>4, <2>5, OneWrite DEF n
  <1> QED
    BY <1>1, <1>2

----------------------------------------------------------------------------
\* Everything together.

LEMMA RegistryStep == Inv /\ [Next]_vars => Inv'
  <1> SUFFICES ASSUME Inv, [Next]_vars
               PROVE  Inv'
    OBVIOUS
  <1>1. ASSUME NEW r \in Requests, NEW op \in Ops, NEW n \in Names,
               NEW t \in Requests \cup {NULL}, NEW b \in Bodies \cup {<<>>},
               Send(r, op, n, t, b)
        PROVE  Inv'
    BY <1>1, KeepSend
  <1>2. ASSUME NEW r \in Requests,
               \/ Authenticate(r) \/ Find(r) \/ Resolve(r) \/ Register(r) \/ Update(r)
               \/ Rotate(r) \/ Hear(r)
        PROVE  Inv'
    BY <1>2, KeepAuthenticate, KeepFind, KeepResolve, KeepRegister, KeepUpdate,
       KeepRotate, KeepHear
  <1>3. ASSUME NEW p \in Peaks, CreatePeak(p) \/ PatchPeak(p) \/ DeactivatePeak(p)
        PROVE  Inv'
    <2>1. peaks \in [Peaks -> PeakStatus \cup {"absent"}]
      BY DEF Inv, TypeInv
    <2>2. /\ peaks' \in [Peaks -> PeakStatus \cup {"absent"}]
          /\ \A o \in Peaks : peaks[o] # "absent" => peaks'[o] # "absent"
          /\ UNCHANGED <<disciples, requests>>
      BY <1>3, <2>1 DEF CreatePeak, PatchPeak, DeactivatePeak, PeakStatus
    <2> QED
      BY <2>2, OnePeak
  <1>4. CASE UNCHANGED vars
    <2>1. TypeInv' /\ RequestInv'
      BY <1>4 DEF vars, Inv, TypeInv, RequestInv, Sound, BearerSound, BodySound,
                  PlaceSound, Exists
    <2>2. TokenInv' /\ OneAdmission' /\ AffiliationsExist'
      BY <1>4 DEF vars, Inv, TokenInv, OneAdmission, AffiliationsExist, Exists, At
    <2> QED
      BY <2>1, <2>2 DEF Inv
  <1> QED
    BY <1>1, <1>2, <1>3, <1>4 DEF Next

LEMMA RegistryInv == Spec => []Inv
  BY RegistryInit, RegistryStep, PTL DEF Spec

(* The tables and the requests under way keep their types: no request     *)
(* stores a null, or anything else its schema does not let in.             *)
THEOREM TypeCorrect == Spec => []RegistryTypeOK
  <1>1. Inv => RegistryTypeOK
    <2> SUFFICES ASSUME Inv PROVE RegistryTypeOK
      OBVIOUS
    <2>1. \A n \in Names : Exists(n) => disciples[n] \in Row
      BY RowFacts DEF Inv
    <2>2. ASSUME NEW r \in Requests, requests[r] \in Request
          PROVE  RequestOK(requests[r])
      <3>1. requests[r].fields \in Columns
        BY <2>2 DEF Request
      <3>2. \A c \in DOMAIN requests[r].fields : requests[r].fields[c] \in Says[c]
        BY <3>1, Columned DEF Columns
      <3> QED
        BY <2>2, <3>2 DEF Request, RequestOK
    <2> QED
      BY <2>1, <2>2 DEF Inv, TypeInv, RegistryTypeOK
  <1> QED
    BY <1>1, RegistryInv, PTL

(* Of the registrations of one name, and of the repetitions of one of     *)
(* them, a single one is ever answered with a token.                       *)
THEOREM Admission == Spec => []OneAdmission
  <1>1. Inv => OneAdmission
    BY DEF Inv
  <1> QED
    BY <1>1, RegistryInv, PTL

(* A request sent with a token that a rotation had replaced never passes  *)
(* authentication, however many tokens the disciple has had.               *)
THEOREM DeadTokens == Spec => []ReplacedTokensAreDead
  <1>1. Inv => ReplacedTokensAreDead
    BY UnderWay DEF Inv, RequestInv, Sound, PlaceSound, ReplacedTokensAreDead, At, Places
  <1> QED
    BY <1>1, RegistryInv, PTL

(* No disciple, and no request about to write one, names a peak that is   *)
(* not there.                                                              *)
THEOREM Affiliations == Spec => []AffiliationsExist
  <1>1. Inv => AffiliationsExist
    BY DEF Inv
  <1> QED
    BY <1>1, RegistryInv, PTL

----------------------------------------------------------------------------
\* What a step does to the row of one disciple.

\* Request r moved to "written" and writes column c of disciple n.
Wrote(r, n, c) ==
  /\ ~ At(r, "written") /\ At(r, "written")'
  /\ requests[r].name = n
  /\ May(r, c)

Moved(n) ==
  /\ Exists(n)'
  /\ \A c \in DOMAIN disciples[n] :
       disciples'[n][c] # disciples[n][c] => \E r \in Requests : Wrote(r, n, c)

LEMMA Written ==
  ASSUME Inv, NEW r \in Requests, MoveTo(r, "written")
  PROVE  At(r, "written")'
  BY DEF Inv, TypeInv, MoveTo, At

LEMMA RegisterMoves ==
  ASSUME Inv, NEW r \in Requests, Register(r), NEW n \in Names, Exists(n)
  PROVE  Moved(n)
  <1>1. disciples'[n] = disciples[n]
    BY DEF Inv, TypeInv, Register, Admits
  <1> QED
    BY <1>1 DEF Moved, Exists

LEMMA RotateMoves ==
  ASSUME Inv, NEW r \in Requests, Rotate(r), NEW n \in Names, Exists(n)
  PROVE  Moved(n)
  <1>1. CASE disciples' = disciples \/ requests[r].name # n
    <2>1. disciples'[n] = disciples[n]
      BY <1>1 DEF Inv, TypeInv, Rotate
    <2> QED
      BY <2>1 DEF Moved, Exists
  <1>2. CASE disciples' # disciples /\ requests[r].name = n
    <2>1. disciples'[n] = [disciples[n] EXCEPT !.token_hash = r] /\ MoveTo(r, "written")
      BY <1>2 DEF Inv, TypeInv, Rotate
    <2>2. disciples[n] \in Row
      BY RowFacts DEF Inv
    <2>3. disciples'[n] \in Row /\ \A c \in DOMAIN disciples[n] :
            disciples'[n][c] # disciples[n][c] => c = "token_hash"
      BY <2>1, <2>2 DEF Row
    <2>4. requests[r].bearer = NULL /\ requests[r].op = "rotate" /\ ~ At(r, "written")
      BY UnderWay DEF Rotate, At, Inv, RequestInv, Sound, PlaceSound, Places
    <2>5. May(r, "token_hash")
      BY <2>4 DEF May
    <2> QED
      BY <1>2, <2>1, <2>3, <2>4, <2>5, Written, RowAssumption DEF Moved, Wrote, Exists
  <1> QED
    BY <1>1, <1>2

LEMMA UpdateMoves ==
  ASSUME Inv, NEW r \in Requests, Update(r), NEW n \in Names, Exists(n)
  PROVE  Moved(n)
  <1>1. CASE Violates(r) \/ requests[r].name # n
    <2>1. disciples'[n] = disciples[n]
      BY <1>1 DEF Inv, TypeInv, Update
    <2> QED
      BY <2>1 DEF Moved, Exists
  <1>2. CASE ~ Violates(r) /\ requests[r].name = n
    <2> DEFINE q == requests[r]
    <2>1. disciples'[n] = build_update(r, disciples[n]) /\ MoveTo(r, "written")
      BY <1>2 DEF Inv, TypeInv, Update
    <2>2. /\ At(r, "resolved") /\ ~ At(r, "written")
          /\ q.op \in {"announce", "patch"}
      BY DEF Update, At
    <2>3. disciples'[n] \in Row /\ \A c \in DOMAIN disciples[n] :
            disciples'[n][c] # disciples[n][c] => c \in Assigned(r)
      BY <1>2, <2>1, <2>2, Updated
    <2>4. ASSUME NEW c \in Assigned(r)
          PROVE  May(r, c)
      <3>1. /\ c \in {"arts", "realm", "active", "peak_id"}
            /\ c # "peak_id" => c \in DOMAIN q.body
            /\ c = "peak_id" => "peak" \in DOMAIN q.body
        BY <2>2, <2>4, Carried DEF Assigned
      <3>2. c \in {"realm", "active"} => q.op = "patch"
        BY <2>2, <2>4 DEF Assigned, Updatable, SELF_UPDATABLE
      <3>3. q.op = "patch" => q.bearer = NULL
        BY <2>2, Carried DEF Sound, PlaceSound, At
      <3> QED
        BY <3>1, <3>2, <3>3 DEF May
    <2>5. Exists(n)'
      BY <2>3, RowAssumption DEF Exists
    <2> QED
      BY <1>2, <2>1, <2>2, <2>3, <2>4, <2>5, Written DEF Moved, Wrote
  <1> QED
    BY <1>1, <1>2

(* No edit is lost to another and nobody promotes itself: whatever column *)
(* of a disciple a step changes, the request that writes it mentioned it   *)
(* and may.                                                                *)
THEOREM Edits == Spec => OnlyMentionedColumnsMove
  <1>1. ASSUME Inv, [Next]_vars, NEW n \in Names, Exists(n)
        PROVE  Moved(n)
    <2>1. CASE disciples' = disciples
      BY <1>1, <2>1 DEF Moved, Exists
    <2>2. CASE \E r \in Requests : Register(r) \/ Update(r) \/ Rotate(r)
      BY <1>1, <2>2, RegisterMoves, UpdateMoves, RotateMoves
    <2>3. disciples' = disciples \/ \E r \in Requests : Register(r) \/ Update(r) \/ Rotate(r)
      BY <1>1, ZenonT(40) DEF Next, vars, Send, Authenticate, Find, Resolve, Hear, CreatePeak,
                  PatchPeak, DeactivatePeak
    <2> QED
      BY <2>1, <2>2, <2>3
  <1>2. Inv /\ [Next]_vars =>
          [\A n \in Names : Exists(n) =>
             /\ Exists(n)'
             /\ \A c \in DOMAIN disciples[n] :
                  disciples'[n][c] # disciples[n][c] =>
                    \E r \in Requests :
                      /\ ~ At(r, "written") /\ At(r, "written")'
                      /\ requests[r].name = n
                      /\ May(r, c)]_vars
    BY <1>1 DEF Moved, Wrote
  <1> QED
    BY <1>2, RegistryInv, PTL DEF Spec, OnlyMentionedColumnsMove
=============================================================================
