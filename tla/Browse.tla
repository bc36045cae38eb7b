------------------------------- MODULE Browse -------------------------------
(***************************************************************************)
(* A walk through the pages of GET /v1/missions, newest first, while       *)
(* missions are posted and change hands.  Each page is one statement with  *)
(* its own snapshot; between pages all the server remembers is in the      *)
(* cursor it handed out, the created_at and id of the page's last mission. *)
(*                                                                         *)
(* Only what the filters of LIST_MISSIONS read is modelled of a mission's  *)
(* life: status and holder (MissionHall has the statements themselves).    *)
(* The art filter, like the status filter, is a test on a column, and one  *)
(* that never changes; it is left out.                                     *)
(***************************************************************************)
EXTENDS Posting, Sequences, Functions

CONSTANTS
  Master,     \* the account that sees every mission
  Filters,    \* who asks for which missions: reader, status and claimed_by
  Limits,     \* values of the limit parameter
  MaxPoll,    \* SECT_MAX_POLL_LIMIT
  MaxChanges  \* bound: changes of a mission's status

\* settings.py takes any integer for SECT_MAX_POLL_LIMIT; 0 would make every page
\* empty and the last.
ASSUME BrowseAssumption ==
  Master \in Accounts /\ MaxPoll \in Nat \ {0} /\ Limits \subseteq Nat \ {0} /\ MaxChanges \in Nat

VARIABLES
  walk,    \* the walk: its filters, the last cursor, the ids it was shown
  steady,  \* history: ids that were there when it began and matched ever since
  changes  \* changes of status so far

browseVars == <<postVars, walk, steady, changes>>

Disciples == Accounts \ {Master}

NoCursor == [created |-> 0, id |-> NULL]

Cursor(r) == [created |-> r.created, id |-> r.id]

BrowseInit ==
  /\ PostInit
  /\ walk = [ pc |-> "ready", reader |-> Master, status |-> NULL, holder |-> NULL,
              cursor |-> NoCursor, shown |-> <<>> ]
  /\ steady = {}
  /\ changes = 0

----------------------------------------------------------------------------
\* LIST_MISSIONS.

\* Newest first.
Newer(r, s) ==
  \/ r.created > s.created
  \/ r.created = s.created /\ r.id > s.id

\* A cursor of created_at alone.
MutantPast(r, cursor) == cursor # NoCursor => r.created < cursor.created

\* A cursor that shows its own mission again.
MutantPastOrAt(r, cursor) == cursor # NoCursor => ~ Newer(r, cursor)

Past(r, cursor) == cursor # NoCursor => Newer(cursor, r)

\* The status and claimed_by filters, and the reader's scope: a disciple sees
\* what it holds or posted.
Selects(w, r) ==
  /\ w.status \in {NULL, r.status}
  /\ w.holder \in {NULL, r.holder}
  /\ w.reader = Master \/ w.reader \in {r.holder, r.by}

Matching(w, rows) == {r \in rows : Selects(w, r)}

\* In this order: as many rows are newer than one as come before it.
Listed(rows) ==
  [i \in 1 .. Cardinality(rows) |->
     CHOOSE r \in rows : Cardinality({s \in rows : Newer(s, r)}) = i - 1]

----------------------------------------------------------------------------
\* The walk.

Begin ==
  /\ walk.pc = "ready"
  /\ \E f \in Filters :
       walk' = [walk EXCEPT !.pc = "walking", !.reader = f.reader,
                            !.status = f.status, !.holder = f.holder]
  /\ steady' = {r.id : r \in Matching(walk', table)}
  /\ UNCHANGED <<postVars, changes>>

\* One page: limit + 1 rows are read, limit are shown, and the one too many
\* says that there is a next page.
Page(asked) ==
  LET limit == IF asked < MaxPoll THEN asked ELSE MaxPoll
      rows == Listed({r \in Matching(walk, table) : Past(r, walk.cursor)})
      more == Len(rows) > limit
      page == SubSeq(rows, 1, IF more THEN limit ELSE Len(rows))
  IN  /\ walk.pc = "walking"
      /\ walk' = [walk EXCEPT
           !.pc = IF more THEN "walking" ELSE "over",
           !.cursor = IF more THEN Cursor(rows[limit]) ELSE NoCursor,
           !.shown = @ \o [i \in DOMAIN page |-> Cursor(page[i])]]
      /\ UNCHANGED <<postVars, steady, changes>>

----------------------------------------------------------------------------
\* Meanwhile missions are claimed, returned to the board and claimed by another.
\* (One that is completed keeps its holder: to the filters it is like a claim.)
Step(r) ==
  ({[r EXCEPT !.status = "claimed", !.holder = d] : d \in Disciples}
    \cup {[r EXCEPT !.status = "open", !.holder = NULL]}) \ {r}

Change ==
  /\ changes < MaxChanges
  /\ changes' = changes + 1
  /\ \E r \in table : \E s \in Step(r) :
       table' = (table \ {r}) \cup {s}
  /\ steady' = steady \cap {r.id : r \in Matching(walk, table')}
  /\ UNCHANGED <<callers, requests, now, walk>>

\* Bound: what happens after the walk's last page is not followed.
BrowseNext ==
  /\ walk.pc # "over"
  /\ \/ PostNext /\ UNCHANGED <<walk, steady, changes>>
     \/ Begin
     \/ \E asked \in Limits : Page(asked)
     \/ Change

BrowseSpec == BrowseInit /\ [][BrowseNext]_browseVars

----------------------------------------------------------------------------
BrowseTypeOK ==
  /\ PostTypeOK
  /\ walk.shown \in Seq([created : 0 .. MaxTime, id : Ids])
  /\ steady \subseteq {r.id : r \in table}

(* protocol.md: "newest first", "Pass back as ?cursor= for the next page". *)
(* A walk that reached the last page was shown every mission that was on   *)
(* the board when it began and matched its filters all along, whatever was *)
(* posted, committed late or changed hands between the pages.              *)
WalkIsComplete ==
  walk.pc = "over" => steady \subseteq {r.id : r \in Range(walk.shown)}

(* A walk goes down the board without turning back: pages put together are *)
(* in order, and no mission is in them twice, not even one that left the   *)
(* filter and came back to it between two pages.                           *)
WalkDescends ==
  \A i, j \in DOMAIN walk.shown : i < j => Newer(walk.shown[i], walk.shown[j])
=============================================================================
