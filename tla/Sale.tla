-------------------------------- MODULE Sale --------------------------------
(***************************************************************************)
(* What the payment backend promises the shop: each slot holds one item    *)
(* after a restock, and a purchase takes that item at most once.           *)
(*                                                                         *)
(* A purchase is                                                           *)
(*   none       not started                                                *)
(*   open       the customer may pay; no other purchase may be opened for  *)
(*              the same slot                                              *)
(*   sold       confirmed; it took the item its slot holds                 *)
(*   settled    sold, and the slot has been restocked since                *)
(*   closed     refused, failed or expired                                 *)
(*   abandoned  the customer gave it up before a confirmation              *)
(*   refundDue  the money arrived for an abandoned purchase: it takes no   *)
(*              item                                                       *)
(*                                                                         *)
(* Charges, provider calls, snapshots, retries and notifications are the   *)
(* business of module Payment, which is shown to implement this module.    *)
(***************************************************************************)
CONSTANTS Slots, Transactions, Nil

VARIABLES
  stock,      \* what each slot shows: "AVAILABLE" or "SOLD_OUT"
  purchase    \* the state and slot of each purchase

vars == <<stock, purchase>>

PurchaseStates ==
  {"none", "open", "sold", "settled", "closed", "abandoned", "refundDue"}

TypeOK ==
  /\ stock \in [Slots -> {"AVAILABLE", "SOLD_OUT"}]
  /\ purchase \in
       [Transactions -> [slot : Slots \union {Nil}, state : PurchaseStates]]

Init ==
  /\ stock = [s \in Slots |-> "AVAILABLE"]
  /\ purchase = [t \in Transactions |-> [slot |-> Nil, state |-> "none"]]

Move(t, from, to) ==
  /\ purchase[t].state \in from
  /\ purchase' =
       [purchase EXCEPT ![t] = [slot |-> purchase[t].slot, state |-> to]]

-----------------------------------------------------------------------------

Open(t, s) ==
  /\ purchase[t].state = "none"
  /\ stock[s] = "AVAILABLE"
  /\ \A u \in Transactions :
       ~ (purchase[u].state = "open" /\ purchase[u].slot = s)
  /\ purchase' = [purchase EXCEPT ![t] = [slot |-> s, state |-> "open"]]
  /\ UNCHANGED stock

\* The item changes hands in the step that confirms the purchase.
Sell(t) ==
  /\ Move(t, {"open"}, "sold")
  /\ stock[purchase[t].slot] = "AVAILABLE"
  /\ stock' = [stock EXCEPT ![purchase[t].slot] = "SOLD_OUT"]

Close(t) ==
  /\ Move(t, {"open"}, "closed")
  /\ UNCHANGED stock

Abandon(t) ==
  /\ Move(t, {"open", "closed"}, "abandoned")
  /\ UNCHANGED stock

PayTooLate(t) ==
  /\ Move(t, {"abandoned"}, "refundDue")
  /\ UNCHANGED stock

Restock ==
  /\ stock' = [s \in Slots |-> "AVAILABLE"]
  /\ purchase' = [t \in Transactions |->
       IF purchase[t].state = "sold"
       THEN [slot |-> purchase[t].slot, state |-> "settled"]
       ELSE purchase[t]]

Next ==
  \/ \E t \in Transactions, s \in Slots : Open(t, s)
  \/ \E t \in Transactions :
       \/ Sell(t)
       \/ Close(t)
       \/ Abandon(t)
       \/ PayTooLate(t)
  \/ Restock

Spec == Init /\ [][Next]_vars
=============================================================================
