--------------------------- MODULE MCStorefront ---------------------------
(* The instance of module Storefront that TLC checks: slots that share a   *)
(* product when the database is filled, and two more products to come.     *)
EXTENDS Storefront, TLC

MCProducts == 1 .. 3

MCFirstShelf == [s \in Slots |-> 1]

MCFirstGoods == [p \in Products |-> CHOOSE g \in Goods : TRUE]
=============================================================================
