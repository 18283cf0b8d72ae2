---------------------------- MODULE MCXrayApply ----------------------------
(* Instances of XrayApply: servers a and b are ordinary settings, old lacks *)
(* Hysteria2 obfuscation and becomes new, bad does not pass xray run -test. *)
EXTENDS XrayApply, TLC

CONSTANTS a, b, old, new, bad, c, d

ApplierSymmetry == Permutations(Appliers)
MCSessions == Requests \cup Appliers
MCConfigs == [server : Servers, client : Clients]
MCCompatible == [s \in Servers |-> IF s = old THEN new ELSE s]
=============================================================================
