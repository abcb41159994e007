----------------------------- MODULE RoomFansMC -----------------------------
(***************************************************************************)
(* Plans for TLC: bookings that touch and outlast their slot, and a slot   *)
(* far enough for a cooldown; the first slot and its booking prolonged,    *)
(* the booking not to the end; a slot that follows right behind, with no   *)
(* time for a cooldown; a booking for two slots and one that begins with   *)
(* the second of them and outlasts the time the fan has after it.          *)
(***************************************************************************)
EXTENDS RoomFans

P(a, b) == [start |-> a, stop |-> b]
TwoSlots == [slots |-> {P(0, 2), P(4, 6)}, bookings |-> {P(1, 2), P(2, 3), P(5, 6)}]
OneLonger == [slots |-> {P(0, 4)}, bookings |-> {P(1, 3)}]
NextSlotClose == [slots |-> {P(0, 2), P(2, 4)}, bookings |-> {P(1, 2), P(3, 4)}]
Outlasting == [slots |-> {P(0, 2), P(2, 3)}, bookings |-> {P(1, 3), P(2, 6)}]
SomePlans == {TwoSlots, OneLonger, NextSlotClose, Outlasting}

\* a booking that begins with the second slot, after a cooldown
AtOnce == {[slots |-> {P(0, 2), P(4, 6)}, bookings |-> {P(1, 2), P(4, 6)}]}
=============================================================================
