-------------------------- MODULE ScriptTakeoverMC --------------------------
(* Two plans that disagree at every instant, for TLC. *)
EXTENDS ScriptTakeover

EarlyPlan == [start |-> 0, stop |-> 1]
LatePlan == [start |-> 1, stop |-> 2]
BothPlans == {EarlyPlan, LatePlan}
=============================================================================
