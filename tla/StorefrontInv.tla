--------------------------- MODULE StorefrontInv ---------------------------
(***************************************************************************)
(* The inductive invariant behind the properties of module Storefront: a   *)
(* product that a slot or an order points at was created, so that the      *)
(* next id of the sequence is nobody's.                                    *)
(***************************************************************************)
EXTENDS Storefront, PaymentInv

\* An order names a product; there is none before its payment.
OrderInv ==
  \A t \in Transactions :
    IF Exists(t) THEN order[t].productId \in Products /\ order[t].goods \in Goods
    ELSE order[t] = NoOrder

ShelfInv == \A s \in Slots : Known(shelf[s])

ShopInv ==
  /\ ShopTypeOK
  /\ OrderInv
  /\ ShelfInv
  /\ SoldAsDescribed
  /\ OpenOfferStands
=============================================================================
