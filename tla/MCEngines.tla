----------------------------- MODULE MCEngines -----------------------------
(* Three versions, the oldest below Xray's minimum: one option the newest    *)
(* no longer loads, one that the oldest does not load yet.                   *)
EXTENDS Engines, TLC

CONSTANTS old, new, a1, a2

MCLoadedBy == (old :> {1, 2}) @@ (new :> {2, 3})
MCOptions == {old, new}
MCActors == {a1, a2}
Sym == Permutations(MCActors)
=============================================================================
