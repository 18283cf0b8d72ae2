------------------------- MODULE MCXraySettingsSQL -------------------------
(* Two callers, two values and three transactions: two begins that overlap *)
(* and a third that finds what they left.  Callers and values are alike.   *)
EXTENDS XraySettingsSQL, TLC

Symmetry == Permutations(Sessions) \cup Permutations(Configs)
=============================================================================
