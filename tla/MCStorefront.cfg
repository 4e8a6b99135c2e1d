\* Two slots and a payment, with two handlers, under the polling
\* assumption.  No symmetry: there are temporal properties.
CONSTANTS
  Slots = {s1, s2}
  Transactions = {t1}
  Requests = {r1, r2}
  Nil = Nil
  Goods = {tea, rice}
  Products <- MCProducts
  FirstShelf <- MCFirstShelf
  FirstGoods <- MCFirstGoods
SPECIFICATION FairShopSpec
INVARIANT SoldAsDescribed
INVARIANT OpenOfferStands
PROPERTY OneSlotAtATime
PROPERTY EveryPaymentIsAnswered
PROPERTY MoneyBecomesASale
