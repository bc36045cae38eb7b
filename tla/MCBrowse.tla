------------------------------ MODULE MCBrowse ------------------------------
(* Browse for TLC: two calls share a key (a re-run job, or two instances   *)
(* of it), one has none, and one mission is there already.                 *)
EXTENDS Browse, TLC

CONSTANTS c1, c2, c3, k1, master, d1

MCKeyOf == c1 :> k1 @@ c2 :> k1 @@ c3 :> NULL
MCPoster == c1 :> master @@ c2 :> d1 @@ c3 :> d1
MCTriesOf == c1 :> 2 @@ c2 :> 1 @@ c3 :> 1
MCOld ==
  {[ id |-> 2, key |-> NULL, created |-> 0, by |-> master, status |-> "open", holder |-> NULL ]}
MCFilters ==
  { [reader |-> master, status |-> "open", holder |-> NULL],
    [reader |-> d1, status |-> NULL, holder |-> NULL] }
=============================================================================
