----------------------------- MODULE MCRestock -----------------------------
(* An instance of RestockUnlock for TLC: a slot whose button is pressed    *)
(* twice, and a clock of the firmware that wraps within a pulse.           *)
EXTENDS RestockUnlock
=============================================================================
