----------------------------- MODULE MCRegistry -----------------------------
(* Registry for TLC: a disciple and a peak, and the bodies that tell the   *)
(* columns, the two callers and null from unset apart.                     *)
EXTENDS Registry, TLC

MCBodies ==
  { [arts |-> "scribe"],
    [arts |-> NULL],
    [peak |-> NULL, realm |-> "foundation-establishment"],
    [active |-> FALSE],
    [arts |-> "warden", peak |-> "verdant"] }

RequestSymmetry == Permutations(Requests)
=============================================================================
