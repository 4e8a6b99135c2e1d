------------------------- MODULE Storefront_proofs -------------------------
(***************************************************************************)
(* Proofs about module Storefront, for any number of slots, products and   *)
(* payments: the payments keep everything that is proved of them alone,    *)
(* and what a customer ordered is what he was shown and what he is told.   *)
(***************************************************************************)
EXTENDS StorefrontInv, Payment_proofs

-----------------------------------------------------------------------------
(* The payments beside the administration *)

\* To whoever looks at the payments alone, every step is one of theirs.
LEMMA StepOfPayments ==
  ASSUME [ShopNext]_shopVars
  PROVE  [Next]_vars
<1>1. CASE \E r \in Requests, t \in Transactions, s \in Slots : OpenPayment(r, s, t)
  BY <1>1 DEF OpenPayment, Next
<1>2. CASE Continue /\ UNCHANGED <<product, shelf, order>>
  BY <1>2 DEF Next
<1>3. CASE \E s \in Slots, configuration \in Configurations :
             ConfigureSlot(s, configuration)
  BY <1>3 DEF ConfigureSlot
<1>4. CASE UNCHANGED shopVars
  BY <1>4 DEF shopVars, vars
<1> QED
  BY <1>1, <1>2, <1>3, <1>4 DEF ShopNext

\* What is proved of the payments holds beside the administration too.
THEOREM PaymentsGoOn == ShopSpec => Spec
<1>1. ShopInit => Init
  BY DEF ShopInit
<1>2. [ShopNext]_shopVars => [Next]_vars
  BY StepOfPayments
<1> QED
  BY <1>1, <1>2, PTL DEF ShopSpec, Spec

-----------------------------------------------------------------------------
(* What a step does to an open payment *)

\* A step that opens no payment makes no row, opens none again, and leaves
\* every row at its slot.
LEMMA RowsGoOn ==
  ASSUME IInv, Continue, NEW t \in Transactions
  PROVE  /\ Exists(t)' <=> Exists(t)
         /\ payment'[t].slotId = payment[t].slotId
         /\ IsOpen(t)' => IsOpen(t)
<1>1. CASE RowsStay \/ CommitRestock
  BY <1>1 DEF RowsStay, CommitRestock, Exists, IsOpen
<1>2. CASE MovesARow
  <2>1. PICK u \in Transactions, p \in PaymentRecord : WritesRow(u, p) /\ Moves(u, p)
    BY <1>2 DEF MovesARow
  <2>2. /\ payment'[u] = p
        /\ \A v \in Transactions : v # u => payment'[v] = payment[v]
    BY <2>1, RowUpdate DEF IInv, WritesRow
  <2> QED
    BY <2>1, <2>2 DEF Moves, Exists, IsOpen
<1>3. CASE SellsAnItem
  <2>1. PICK u \in Transactions, p \in PaymentRecord : Sells(u, p)
    BY <1>3 DEF SellsAnItem
  <2>2. /\ payment'[u] = p
        /\ \A v \in Transactions : v # u => payment'[v] = payment[v]
    BY <2>1, RowUpdate DEF IInv, Sells
  <2> QED
    BY <2>1, <2>2 DEF Sells, Exists, IsOpen, IsCompletedSale
<1> QED
  BY <1>1, <1>2, <1>3, ContinueSteps

-----------------------------------------------------------------------------
(* The invariant *)

LEMMA ShopInitInv == ShopInit => ShopInv
<1> SUFFICES ASSUME ShopInit PROVE ShopInv
  OBVIOUS
<1>1. \A p \in Products : FirstGoods[p] \in Goods /\ FirstGoods[p] # Nil
  BY StorefrontAssumption
<1>2. \A s \in Slots : FirstShelf[s] \in Products
  BY StorefrontAssumption
<1>3. \A t \in Transactions : ~ Exists(t) /\ ~ IsOpen(t) /\ order[t] = NoOrder
  BY DEF ShopInit, Init, Exists, IsOpen, NoPayment
<1>4. ShopTypeOK
  <2>1. product \in [Products -> ProductRecord]
    BY <1>1 DEF ShopInit, ProductRecord, NoProduct
  <2>2. order \in [Transactions -> Order]
    BY DEF ShopInit, Order, NoOrder
  <2> QED
    BY <2>1, <2>2, StorefrontAssumption DEF ShopTypeOK, ShopInit
<1>5. ShelfInv
  <2> SUFFICES ASSUME NEW s \in Slots PROVE product[shelf[s]].goods # Nil
    BY DEF ShelfInv, Known
  <2>1. shelf[s] = FirstShelf[s] /\ FirstShelf[s] \in Products
    BY <1>2 DEF ShopInit
  <2>2. product[FirstShelf[s]] = [goods |-> FirstGoods[FirstShelf[s]], isActive |-> TRUE]
    BY <2>1 DEF ShopInit
  <2> QED
    BY <1>1, <2>1, <2>2
<1> QED
  BY <1>3, <1>4, <1>5 DEF ShopInv, OrderInv, SoldAsDescribed, OpenOfferStands

LEMMA OpenPaymentKeeps ==
  ASSUME IInv, ShopInv,
         NEW r \in Requests, NEW t \in Transactions, NEW s \in Slots,
         OpenPayment(r, s, t)
  PROVE  ShopInv'
<1>1. /\ product' = product /\ shelf' = shelf
      /\ order' = [order EXCEPT ![t] =
           [productId |-> shelf[s], goods |-> Offer(s).goods]]
      /\ CreatePendingPayment(r, s, t)
      /\ Offer(s).isActive
  BY DEF OpenPayment, ForSale
<1>2. /\ shelf[s] \in Products
      /\ Offer(s) \in ProductRecord
      /\ Offer(s).goods # Nil
  BY DEF ShopInv, ShopTypeOK, ShelfInv, Known, Offer
<1>3. Offer(s).goods \in Goods /\ Offer(s) = [goods |-> Offer(s).goods, isActive |-> TRUE]
  BY <1>1, <1>2 DEF ProductRecord
<1>4. /\ payment'[t].paymentStatus = "PENDING"
      /\ payment'[t].slotId = s
      /\ \A u \in Transactions : u # t => payment'[u] = payment[u]
  BY <1>1, NewRowFacts, RowUpdate DEF IInv, CreatePendingPayment
<1>5. /\ order'[t] = [productId |-> shelf[s], goods |-> Offer(s).goods]
      /\ \A u \in Transactions : u # t => order'[u] = order[u]
  BY <1>1 DEF ShopInv, ShopTypeOK
<1>6. ShopTypeOK'
  BY <1>1, <1>2, <1>3 DEF ShopInv, ShopTypeOK, Order
<1>7. OrderInv' /\ ShelfInv'
  <2>1. ShelfInv'
    BY <1>1 DEF ShopInv, ShelfInv, Known
  <2>2. OrderInv'
    BY <1>2, <1>3, <1>4, <1>5 DEF ShopInv, OrderInv, Exists
  <2> QED
    BY <2>1, <2>2
<1>8. SoldAsDescribed'
  BY <1>1, <1>4, <1>5 DEF ShopInv, SoldAsDescribed, Named, Exists, Offer
<1>9. OpenOfferStands'
  <2> SUFFICES ASSUME NEW u \in Transactions, IsOpen(u)'
               PROVE  product[shelf[payment'[u].slotId]] =
                        [goods |-> order'[u].goods, isActive |-> TRUE]
    BY <1>1 DEF OpenOfferStands, Offer
  <2>1. CASE u = t
    <3>1. payment'[u].slotId = s /\ order'[u].goods = Offer(s).goods
      BY <1>4, <1>5, <2>1
    <3>2. product[shelf[payment'[u].slotId]] = Offer(s)
      BY <3>1 DEF Offer
    <3> QED
      BY <1>3, <3>1, <3>2
  <2>2. CASE u # t
    BY <1>4, <1>5, <2>2 DEF ShopInv, OpenOfferStands, IsOpen, Offer
  <2> QED
    BY <2>1, <2>2
<1> QED
  BY <1>6, <1>7, <1>8, <1>9 DEF ShopInv

LEMMA ContinueKeeps ==
  ASSUME IInv, ShopInv, Continue, UNCHANGED <<product, shelf, order>>
  PROVE  ShopInv'
<1>1. ShopTypeOK' /\ ShelfInv'
  BY DEF ShopInv, ShopTypeOK, ShelfInv, Known
<1>2. \A t \in Transactions :
        /\ Exists(t)' <=> Exists(t)
        /\ payment'[t].slotId = payment[t].slotId
        /\ IsOpen(t)' => IsOpen(t)
  BY RowsGoOn
<1>3. OrderInv' /\ SoldAsDescribed'
  BY <1>2 DEF ShopInv, OrderInv, SoldAsDescribed, Named
<1>4. OpenOfferStands'
  BY <1>2 DEF ShopInv, OpenOfferStands, Offer
<1> QED
  BY <1>1, <1>3, <1>4 DEF ShopInv

\* A configuration replaces product p, at which no order and, afterwards, no
\* slot but s points.
LEMMA ConfigurationFacts ==
  ASSUME ShopInv, NEW s \in Slots, NEW configuration \in Configurations,
         ConfigureSlot(s, configuration)
  PROVE  \E p \in Products :
           /\ product' = [product EXCEPT ![p] = configuration]
           /\ shelf' = [shelf EXCEPT ![s] = p]
           /\ \A u \in Slots : u # s => shelf[u] # p
           /\ \A t \in Transactions : Exists(t) => order[t].productId # p
<1>0. /\ shelf \in [Slots -> Products]
      /\ \A u \in Slots : Known(shelf[u])
      /\ \A t \in Transactions : Exists(t) => Known(order[t].productId)
  <2>1. \A t \in Transactions : Exists(t) => order[t].goods # Nil
    BY StorefrontAssumption DEF ShopInv, OrderInv
  <2> QED
    BY <2>1 DEF ShopInv, ShopTypeOK, ShelfInv, SoldAsDescribed, Named, Known
<1>1. CASE /\ IsOwn(s)
           /\ product' = [product EXCEPT ![shelf[s]] = configuration]
           /\ UNCHANGED shelf
  <2>1. shelf' = [shelf EXCEPT ![s] = shelf[s]]
    BY <1>0, <1>1
  <2> QED
    BY <1>0, <1>1, <2>1 DEF IsOwn
<1>2. ASSUME NEW p \in Products, IsNext(p),
             product' = [product EXCEPT ![p] = configuration],
             shelf' = [shelf EXCEPT ![s] = p]
      PROVE  /\ \A u \in Slots : u # s => shelf[u] # p
             /\ \A t \in Transactions : Exists(t) => order[t].productId # p
  <2>1. ~ Known(p)
    BY <1>2, StorefrontAssumption DEF IsNext
  <2> QED
    BY <1>0, <2>1
<1> QED
  BY <1>1, <1>2 DEF ConfigureSlot

LEMMA ConfigureSlotKeeps ==
  ASSUME IInv, ShopInv, NEW s \in Slots, NEW configuration \in Configurations,
         ConfigureSlot(s, configuration)
  PROVE  ShopInv'
<1>1. PICK p \in Products :
        /\ product' = [product EXCEPT ![p] = configuration]
        /\ shelf' = [shelf EXCEPT ![s] = p]
        /\ \A u \in Slots : u # s => shelf[u] # p
        /\ \A t \in Transactions : Exists(t) => order[t].productId # p
  BY ConfigurationFacts
<1>2. UNCHANGED <<payment, order>> /\ ~ HasActivePayment(s)
  BY DEF ConfigureSlot, vars
<1>3. configuration.goods \in Goods /\ configuration.goods # Nil
  BY StorefrontAssumption DEF Configurations
<1>4. configuration \in ProductRecord
  BY DEF Configurations, ProductRecord
<1>5. /\ product'[p] = configuration
      /\ \A q \in Products : q # p => product'[q] = product[q]
      /\ shelf'[s] = p
      /\ \A u \in Slots : u # s => shelf'[u] = shelf[u] /\ shelf[u] \in Products
  BY <1>1 DEF ShopInv, ShopTypeOK
<1>6. ShopTypeOK'
  BY <1>1, <1>2, <1>4 DEF ShopInv, ShopTypeOK
<1>7. OrderInv'
  BY <1>2 DEF ShopInv, OrderInv, Exists
<1>8. ShelfInv'
  BY <1>1, <1>3, <1>5 DEF ShopInv, ShelfInv, Known
<1>9. SoldAsDescribed'
  BY <1>1, <1>2, <1>5 DEF ShopInv, OrderInv, SoldAsDescribed, Named, Exists
<1>10. OpenOfferStands'
  <2> SUFFICES ASSUME NEW t \in Transactions, IsOpen(t)
               PROVE  product'[shelf'[payment[t].slotId]] =
                        [goods |-> order[t].goods, isActive |-> TRUE]
    BY <1>2 DEF OpenOfferStands, Offer, IsOpen
  <2>1. payment[t].slotId \in Slots /\ payment[t].slotId # s
    BY <1>2 DEF IInv, RowInv, IsOpen, Exists, HasActivePayment
  <2> QED
    BY <1>1, <1>5, <2>1 DEF ShopInv, OpenOfferStands, Offer
<1> QED
  BY <1>6, <1>7, <1>8, <1>9, <1>10 DEF ShopInv

\* The invariant holds in every state of every behaviour.
THEOREM ShopInvariance == ShopSpec => []ShopInv
<1>1. ShopInit => ShopInv
  BY ShopInitInv
<1>2. IInv /\ ShopInv /\ [ShopNext]_shopVars => ShopInv'
  <2> SUFFICES ASSUME IInv, ShopInv, [ShopNext]_shopVars
               PROVE  ShopInv'
    OBVIOUS
  <2>1. CASE UNCHANGED shopVars
    BY <2>1 DEF shopVars, ShopInv, ShopTypeOK, OrderInv, ShelfInv, Known, Exists,
                SoldAsDescribed, Named, OpenOfferStands, IsOpen, Offer
  <2> QED
    BY <2>1, OpenPaymentKeeps, ContinueKeeps, ConfigureSlotKeeps DEF ShopNext
<1>3. ShopSpec => []IInv
  BY PaymentsGoOn, Invariance
<1> QED
  BY <1>1, <1>2, <1>3, PTL DEF ShopSpec

-----------------------------------------------------------------------------
(* The properties *)

\* The variables of the administration keep their types.
THEOREM ShopTypeCorrect == ShopSpec => []ShopTypeOK
<1>1. ShopInv => ShopTypeOK
  BY DEF ShopInv
<1> QED
  BY <1>1, ShopInvariance, PTL

\* A product that was ordered never changes: what replies and notices name is
\* what was paid for.
THEOREM OrdersAreKept == ShopSpec => []SoldAsDescribed
<1>1. ShopInv => SoldAsDescribed
  BY DEF ShopInv
<1> QED
  BY <1>1, ShopInvariance, PTL

\* No configuration and no sharing of products touches what a customer with a
\* QR was shown.
THEOREM OpenOffersStand == ShopSpec => []OpenOfferStands
<1>1. ShopInv => OpenOfferStands
  BY DEF ShopInv
<1> QED
  BY <1>1, ShopInvariance, PTL

\* No step changes the offers of two slots.
THEOREM OneOfferChanges == ShopSpec => OneSlotAtATime
<1>1. ASSUME ShopInv, [ShopNext]_shopVars, NEW s \in Slots, NEW u \in Slots,
             Offer(s)' # Offer(s), Offer(u)' # Offer(u)
      PROVE  s = u
  <2>1. CASE UNCHANGED <<product, shelf>>
    BY <1>1, <2>1 DEF Offer
  <2>2. ASSUME NEW v \in Slots, NEW configuration \in Configurations,
               ConfigureSlot(v, configuration)
        PROVE  \A w \in Slots : w # v => Offer(w)' = Offer(w)
    <3>1. PICK p \in Products :
            /\ product' = [product EXCEPT ![p] = configuration]
            /\ shelf' = [shelf EXCEPT ![v] = p]
            /\ \A w \in Slots : w # v => shelf[w] # p
      BY <1>1, <2>2, ConfigurationFacts
    <3> QED
      BY <1>1, <3>1 DEF ShopInv, ShopTypeOK, Offer
  <2>3. CASE ShopNext
    BY <1>1, <2>1, <2>2, <2>3 DEF ShopNext, OpenPayment
  <2> QED
    BY <1>1, <2>1, <2>3 DEF shopVars
<1>2. ShopInv /\ [ShopNext]_shopVars =>
        [\A s, u \in Slots :
           Offer(s)' # Offer(s) /\ Offer(u)' # Offer(u) => s = u]_shopVars
  BY <1>1
<1> QED
  BY <1>2, ShopInvariance, PTL DEF ShopSpec, OneSlotAtATime
=============================================================================
