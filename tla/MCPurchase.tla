----------------------------- MODULE MCPurchase -----------------------------
(* An instance of KioskPurchase for TLC: two customers of one cabinet. *)
EXTENDS KioskPurchase
=============================================================================
