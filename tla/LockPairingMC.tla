---------------------------- MODULE LockPairingMC ---------------------------
(* Two lock servers with a lock each, for the model checker. *)
EXTENDS LockPairing, TLC

TwoServers == ("sauna" :> {1}) @@ ("shop" :> {2})
=============================================================================
