----------------------------- MODULE StagedChange -----------------------------
(* What the maintenance jobs of SG-Gateway promise (CHANGELOG.md, "Защита от *)
(* неудачного Restore"): one change of the server at a time; nothing is      *)
(* touched before the change has been checked and the old state saved; a     *)
(* change reported as done left exactly what was wanted, one reported as     *)
(* rolled back left exactly what was there, and only a change reported as    *)
(* stuck may leave anything else, unless the process dies.  **)

CONSTANTS Nothing,      \* no old state, no goal
          Worlds,       \* states of the server
          Goals,        \* what a change may be asked to bring
          Wanted(_, _)  \* the state a goal means, given the state before

VARIABLES phase, goal, old, world

vars == <<phase, goal, old, world>>

Init == phase = "idle" /\ goal = Nothing /\ old = Nothing /\ world \in Worlds

Begin == /\ phase = "idle" /\ phase' = "checking"
         /\ UNCHANGED <<goal, old, world>>

\* The checks fail: the server was not touched.
Reject == /\ phase = "checking" /\ phase' = "idle"
          /\ UNCHANGED <<goal, old, world>>

\* What is wanted is checked and the old state saved; the change may begin
\* with the same step.
Save == /\ phase = "checking" /\ phase' = "changing"
        /\ goal' \in Goals /\ old' = world /\ world' \in Worlds

Change == /\ phase \in {"changing", "undoing"} /\ phase' = phase
          /\ world' \in Worlds /\ UNCHANGED <<goal, old>>

Finish == /\ phase = "changing" /\ phase' = "done"
          /\ world' = Wanted(goal, old) /\ UNCHANGED <<goal, old>>

GiveUp == /\ phase = "changing" /\ phase' = "undoing"
          /\ world' \in Worlds /\ UNCHANGED <<goal, old>>

Undone == /\ phase = "undoing" /\ phase' = "undone"
          /\ world' = old /\ UNCHANGED <<goal, old>>

\* Reported as needing a hand.
Stuck == /\ phase = "undoing" /\ phase' = "idle"
         /\ goal' = Nothing /\ old' = Nothing /\ UNCHANGED world

Report == /\ phase \in {"done", "undone"} /\ phase' = "idle"
          /\ goal' = Nothing /\ old' = Nothing /\ UNCHANGED world

\* The process that makes the change dies; nobody is told anything.
Die == /\ phase # "idle" /\ phase' = "idle"
       /\ goal' = Nothing /\ old' = Nothing /\ UNCHANGED world

Next == \/ Begin \/ Reject \/ Save \/ Change \/ Finish \/ GiveUp \/ Undone \/ Stuck \/ Report
        \/ Die

Spec == Init /\ [][Next]_vars
=============================================================================
