----------------------------- MODULE MCPayment -----------------------------
(* The instance of module Payment that TLC checks. *)
EXTENDS PaymentInv, TLC

\* Rows and handlers are interchangeable, and so are slots.
Symmetry ==
  Permutations(Transactions) \union Permutations(Requests)
    \union Permutations(Slots)
=============================================================================
