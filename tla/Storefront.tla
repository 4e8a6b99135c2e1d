---------------------------- MODULE Storefront ----------------------------
(***************************************************************************)
(* What the slots offer: the administration of slots and products          *)
(* (admin-slot.service.ts) beside the payments of module Payment, which    *)
(* are made for whatever a slot offers at that moment.                     *)
(*                                                                         *)
(* A product row is a version of an offer.  The rows of payments point at  *)
(* it, and every reply and notice about a payment names the product as its *)
(* row does now.  Both transactions that read the slot and its open        *)
(* payment before they write are SERIALIZABLE, and each is one step.       *)
(***************************************************************************)
EXTENDS Payment

CONSTANTS
  Products,    \* ids of rows of the Product table, in the order of creation
  Goods,       \* a name, a price and a picture
  FirstShelf,  \* the product of each slot when the database is filled;
               \* slots may share one
  FirstGoods   \* what these products are

ASSUME StorefrontAssumption ==
  /\ Products \subseteq Nat
  /\ FirstShelf \in [Slots -> Products]
  /\ FirstGoods \in [Products -> Goods]
  /\ Nil \notin Goods
  /\ Nil \notin Products

VARIABLES
  product,  \* the rows of the Product table
  shelf,    \* Slot.productId
  order     \* of each payment's row: productId, name snapshot and amount

shopVars == <<slotStatus, payment, charge, request, settled, notices,
              product, shelf, order>>

-----------------------------------------------------------------------------
(* Types *)

\* A row that is not created yet has no goods.
ProductRecord == [goods : Goods \union {Nil}, isActive : BOOLEAN]

NoProduct == [goods |-> Nil, isActive |-> FALSE]

Order == [productId : Products \union {Nil}, goods : Goods \union {Nil}]

NoOrder == [productId |-> Nil, goods |-> Nil]

ShopTypeOK ==
  /\ product \in [Products -> ProductRecord]
  /\ shelf \in [Slots -> Products]
  /\ order \in [Transactions -> Order]

ShopInit ==
  /\ Init
  /\ product = [p \in Products |->
       IF \E s \in Slots : FirstShelf[s] = p
       THEN [goods |-> FirstGoods[p], isActive |-> TRUE] ELSE NoProduct]
  /\ shelf = FirstShelf
  /\ order = [t \in Transactions |-> NoOrder]

-----------------------------------------------------------------------------
\* What a customer sees of slot s.
Offer(s) == product[shelf[s]]

Known(p) == product[p].goods # Nil

\* Faulty: takes orders for what has been taken off sale.
ForSale_hidden(s) == TRUE

ForSale(s) == Offer(s).isActive

\* What replies and notices about payment t call what it is for.
Named(t) == product[order[t].productId].goods

\* The row of a payment keeps the product, its name and its price.
OpenPayment(r, s, t) ==
  /\ ForSale(s)
  /\ CreatePendingPayment(r, s, t)
  /\ order' = [order EXCEPT ![t] = [productId |-> shelf[s], goods |-> Offer(s).goods]]
  /\ UNCHANGED <<product, shelf>>

\* A configuration as parseSlotConfiguration lets it through.
Configurations == [goods : Goods, isActive : BOOLEAN]

\* Faulty: forgets that a customer may be looking at a QR.
HasActivePayment_ignored(s) == FALSE

\* A payment of the slot that is open: the configuration is refused (409).
HasActivePayment(s) == \E t \in Transactions : IsOpen(t) /\ payment[t].slotId = s

\* Faulty: does not ask whether another slot offers the product too.
IsOwn_unshared(s) == \A t \in Transactions : order[t].productId # shelf[s]

\* Faulty: does not ask whether the product was ever ordered.
IsOwn_unordered(s) == \A u \in Slots : shelf[u] = shelf[s] => u = s

\* The product of s is in no other slot and was never ordered.
IsOwn(s) ==
  /\ \A u \in Slots : shelf[u] = shelf[s] => u = s
  /\ \A t \in Transactions : order[t].productId # shelf[s]

\* The ids come from a sequence; bound: until they are used up.
IsNext(p) == \A q \in Products : Known(q) <=> q < p

\* A product of its own is updated; otherwise the slot gets a new one.  What
\* is in the slot, and the slot's status, stay as they are.
ConfigureSlot(s, configuration) ==
  /\ ~ HasActivePayment(s)
  /\ configuration # Offer(s)
  /\ \/ /\ IsOwn(s)
        /\ product' = [product EXCEPT ![shelf[s]] = configuration]
        /\ UNCHANGED shelf
     \/ /\ ~ IsOwn(s)
        /\ \E p \in Products :
             /\ IsNext(p)
             /\ product' = [product EXCEPT ![p] = configuration]
             /\ shelf' = [shelf EXCEPT ![s] = p]
  /\ UNCHANGED <<vars, order>>

ShopNext ==
  \/ \E r \in Requests, t \in Transactions, s \in Slots : OpenPayment(r, s, t)
  \/ Continue /\ UNCHANGED <<product, shelf, order>>
  \/ \E s \in Slots, configuration \in Configurations :
       ConfigureSlot(s, configuration)

ShopSpec == ShopInit /\ [][ShopNext]_shopVars

\* Nothing is assumed of administrators.
FairShopSpec == ShopSpec /\ Fairness

-----------------------------------------------------------------------------
(* Properties *)

\* The product a payment's row points at is still what was ordered: replies
\* and notices, which name it as its row does now, name what was paid for,
\* however often its slot has been configured since (toPaymentRecord against
\* configureSlot).
SoldAsDescribed ==
  \A t \in Transactions :
    Exists(t) => Named(t) = order[t].goods

\* While a customer may still pay, the slot offers what he was shown, at that
\* price, and is not taken off sale (createPendingPayment against
\* configureSlot).
OpenOfferStands ==
  \A t \in Transactions :
    IsOpen(t) =>
      Offer(payment[t].slotId) = [goods |-> order[t].goods, isActive |-> TRUE]

\* To configure a slot changes what that slot offers and no other, although
\* slots may share a product.
OneSlotAtATime ==
  [][\A s, u \in Slots :
       Offer(s)' # Offer(s) /\ Offer(u)' # Offer(u) => s = u]_shopVars
=============================================================================
