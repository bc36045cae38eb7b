------------------------------ MODULE Settling ------------------------------
(***************************************************************************)
(* Does every mission of the board end?  Lifecycle with what that depends  *)
(* on: time, and holders who keep their missions alive.                    *)
(*                                                                         *)
(* A heartbeat sent while the lease runs leaves Lifecycle's state as it is *)
(* and yet puts the end of the lease off.  So `fresh` tells the missions   *)
(* whose wait began, or began anew, since the clock last moved: none of    *)
(* them can lapse before it moves.  A holder that heartbeats between any   *)
(* two movements of the clock keeps its mission for ever, however fair     *)
(* time and the other workers are.                                         *)
(***************************************************************************)
EXTENDS Lifecycle

VARIABLE fresh \* missions whose wait began since the clock last moved

settleVars == <<vars, fresh>>

SettleTypeOK ==
  /\ TypeOK
  /\ fresh \subseteq Missions

SettleInit ==
  /\ Init
  /\ fresh = {}

\* lease_expires_at, or not_before, is computed from now().
Refresh(m) == fresh' = fresh \cup {m}

\* A heartbeat, or a claim by id of what one holds, before or after the lease
\* has run out.
KeepAlive(m) == Renew(m) /\ Refresh(m)

\* The clock moves on.
Age ==
  /\ fresh # {}
  /\ fresh' = {}
  /\ UNCHANGED vars

\* Waits that began before it moved, and only those, may be over.
Lapse(S) ==
  /\ S \cap fresh = {}
  /\ Pass(S)
  /\ UNCHANGED fresh

SettleNext ==
  \/ \E m \in Missions, b \in Budgets : Post(m, b) /\ Refresh(m)
  \/ \E m \in Missions, d \in Disciples : Start(m, d) /\ Refresh(m)
  \/ \E m \in Missions : KeepAlive(m)
  \/ \E m \in Missions, o \in {"completed", "failed"} : Finish(m, o) /\ UNCHANGED fresh
  \/ \E m \in Missions : Retry(m) /\ Refresh(m)
  \/ \E m \in Missions : Cancel(m) /\ UNCHANGED fresh
  \/ \E S \in SUBSET Missions : Exhaust(S) /\ UNCHANGED fresh
  \/ \E S \in SUBSET Missions : Lapse(S)
  \/ Age

\* What scheduled workers and a clock justify: time moves on and ends a wait
\* that nobody starts anew; some disciple polls claim-next again and again, and
\* every poll sweeps first.  Nobody has to post, report or cancel, and nobody
\* is kept from sending heartbeats.
Fairness ==
  /\ WF_settleVars(Age)
  /\ \A m \in Missions :
       /\ WF_settleVars(\E S \in SUBSET Missions : m \in S /\ Lapse(S))
       /\ WF_settleVars(\E d \in Disciples : Start(m, d) /\ Refresh(m))
       /\ WF_settleVars(\E S \in SUBSET Missions :
                          m \in S /\ Exhaust(S) /\ UNCHANGED fresh)

SettleSpec == SettleInit /\ [][SettleNext]_settleVars /\ Fairness

----------------------------------------------------------------------------
(* No zombies: a posted mission ends in a terminal status, unless somebody *)
(* keeps its claim alive for ever, with heartbeats in time or by reviving  *)
(* it after each lapse.  Workers may die, stall, or answer late as they    *)
(* like: this is what leases, claim-next and the sweep are for.            *)
Settles ==
  \A m \in Missions :
    \/ status[m] \in Pending ~> status[m] \in Terminal
    \/ []<><<KeepAlive(m)>>_settleVars
=============================================================================
