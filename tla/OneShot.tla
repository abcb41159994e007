------------------------------ MODULE OneShot -------------------------------
(***************************************************************************)
(* What a scheduled task promises its users (the start and stop of a       *)
(* booking, the ends of an override): its function runs once, at its time  *)
(* or when it is finished early, or never if it is cancelled first.        *)
(***************************************************************************)
EXTENDS Integers

VARIABLES
  wall,   \* the time of day
  t,      \* when the task is for
  fate    \* "pending", or how it ended: "ran", "ranEarly", "cancelled"

Init == fate = "pending" \/ (wall >= t /\ fate = "ran")

Run == fate = "pending" /\ wall >= t /\ fate' = "ran" /\ UNCHANGED <<wall, t>>

RunEarly == fate = "pending" /\ fate' = "ranEarly" /\ UNCHANGED <<wall, t>>

Cancel == fate = "pending" /\ fate' = "cancelled" /\ UNCHANGED <<wall, t>>

\* The time of day may be set, in either direction.
Pass == UNCHANGED <<t, fate>>

Next == Run \/ RunEarly \/ Cancel \/ Pass

Spec == Init /\ [][Next]_<<wall, t, fate>>
=============================================================================
