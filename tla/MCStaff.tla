------------------------------ MODULE MCStaff ------------------------------
(* The instance of module StaffKiosk that TLC checks. *)
EXTENDS StaffKiosk, TLC

\* Sessions and handlers are interchangeable.
Symmetry == Permutations(Sessions) \union Permutations(Requests)
=============================================================================
