------------------------------ MODULE MCUdpEdge ------------------------------
(* Instances of UdpEdge: clients p and q come over IPv4, r over IPv6. *)
EXTENDS UdpEdge

CONSTANTS p, q, r

MCFamily == [c \in Clients |-> IF c = r THEN "v6" ELSE "v4"]

Marked == [awg |-> TRUE, hysteria |-> TRUE, marked |-> TRUE, tuic |-> TRUE]
AwgOff == [awg |-> FALSE, hysteria |-> TRUE, marked |-> TRUE, tuic |-> FALSE]
MCConfigs == {Marked, AwgOff}
OneConfig == {Marked}

AwgOrOther == {{"awg"}, {}}
AllDatagrams == SUBSET Signatures
=============================================================================
