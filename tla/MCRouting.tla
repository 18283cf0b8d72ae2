------------------------------ MODULE MCRouting ------------------------------
(* Two sources of different families; runet has every category, loyal lacks  *)
(* the Russian ones, rosc comes with rules of its own.                       *)
EXTENDS Routing, TLC

CONSTANTS runet, loyal, rosc, ru, blocked, ads

MCCatsOf == [p \in Pairs |-> CASE p = runet -> {ru, blocked, ads}
                               [] p = loyal -> {ads}
                               [] p = rosc -> {ru, ads}]
MCFamily == [p \in Pairs |-> p]
R(part, act, cat) == [part |-> part, act |-> act, cat |-> cat]
MCBaseline == [p \in Pairs |-> IF p = rosc THEN {R("baseline", "direct", ru)} ELSE {}]

ForWarp == {R("user", "warp", blocked), R("russia", "warp", ru)}
Optional == {R("user", "block", ads), R("blocked", "block", blocked)}
ByTemplate == {R("template", "direct", ru)}
MCForms == {ForWarp, Optional, ByTemplate}
MCMaxOps == [wait \in BOOLEAN |-> IF wait THEN 6 ELSE 3]
Interchangeable == Permutations(Helpers)
=============================================================================
