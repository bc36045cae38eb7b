----------------------------- MODULE MCRowLocks -----------------------------
(* RowLocks for TLC: the second disciple's peak posted the mission that    *)
(* comes last for everybody else.  On one board two sweeps can meet two    *)
(* exhausted missions; on the other the first mission is delayed and the   *)
(* second may be retried once.  Connections are interchangeable.           *)
EXTENDS RowLocks

CONSTANTS m1, m2, d1, d2, p1

MCArts == {"summarize"}
MCArtsOf == [d \in Disciples |-> MCArts]
MCHomeOf == d1 :> NULL @@ d2 :> p1
MCPeakOf == m1 :> NULL @@ m2 :> p1
MCPriority == m1 :> 5 @@ m2 :> 5
MCCreated == m1 :> 1 @@ m2 :> 2
MCBoards ==
  { m1 :> PostedRow("summarize", 1, 1, 0) @@ m2 :> PostedRow("summarize", 1, 1, 0),
    m1 :> PostedRow("summarize", 1, 1, 1) @@ m2 :> PostedRow("summarize", 2, 1, 0) }
MCSymmetry == Permutations(Sessions)
=============================================================================
