------------------------ MODULE KioskPurchase_proofs ------------------------
(***************************************************************************)
(* Proofs about a purchase at the kiosk, for any number of slots, sales,   *)
(* reloads and restarts: the door of a sale is commanded to open at most   *)
(* once, the storage carries the mark of it, and the screen tells the      *)
(* truth.  They follow from the invariant IInv of module PurchaseInv.      *)
(***************************************************************************)
EXTENDS PurchaseInv, TLAPS

-----------------------------------------------------------------------------
(* Facts used all over *)

LEMMA NilIsNoSale == \A t \in Transactions : t # Nil
BY NilAssumption

\* A confirmed sale whose door was tried is not tried again: only an
\* untouched entry leads back to the door.
LEMMA RecoveryScreens ==
  ASSUME NEW state \in Fulfilment
  PROVE  /\ RecoveryScreen(state) \in
              {"unlocking", "assistance", "success", "unlock-failed"}
         /\ RecoveryScreen(state) = "unlocking" <=> state = "NOT_STARTED"
         /\ RecoveryScreen(state) = "success" <=> state = "UNLOCKED"
         /\ state = "ATTEMPTING" => RecoveryScreen(state) = "assistance"
<1>1. CASE state = "NOT_STARTED"
  BY <1>1 DEF RecoveryScreen
<1>2. CASE state = "ATTEMPTING"
  BY <1>2 DEF RecoveryScreen
<1>3. CASE state = "UNLOCKED"
  BY <1>3 DEF RecoveryScreen
<1>4. CASE state = "UNLOCK_FAILED"
  BY <1>4 DEF RecoveryScreen
<1> QED
  BY <1>1, <1>2, <1>3, <1>4 DEF Fulfilment

LEMMA PersistedFacts ==
  ASSUME NEW t, NEW state, NEW p \in Persisted(t, state)
  PROVE  /\ p.saved \in {saved, [sale |-> t, state |-> state]}
         /\ p.ok => p.saved = [sale |-> t, state |-> state]
BY DEF Persisted

\* Whose door was tried is known by the calls, the Pi and the commands.
LEMMA SameSales ==
  ASSUME UNCHANGED <<purchase, calls, outcome, commands>>,
         NEW t \in Transactions
  PROVE  /\ Tried(t)' <=> Tried(t)
         /\ Answer(t)' = Answer(t)
BY DEF Tried, Answer

LEMMA ScreenFacts ==
  ASSUME IInv
  PROVE  /\ page.screen \notin {"unlocking", "assistance"} => awaits = Nil
         /\ page.screen # "waiting" /\ cancelling # Nil => cancelling \in attempted
         /\ page.screen = "recovering" => cancelling = Nil
         /\ page.screen # "recovering" => page = Shows(page.screen, page.sale)
<1> USE DEF IInv
<1>1. page.screen \notin {"unlocking", "assistance"} => awaits = Nil
  BY DEF AwaitInv, Shows
<1>2. page.screen # "waiting" /\ cancelling # Nil => cancelling \in attempted
  BY DEF CancelInv, Shows
<1>3. page.screen = "recovering" => cancelling = Nil
  BY DEF RecoverInv
<1>4. page.screen # "recovering" => page = Shows(page.screen, page.sale)
  BY DEF PageInv, TypeOK, Shows
<1> QED
  BY <1>1, <1>2, <1>3, <1>4

-----------------------------------------------------------------------------
(* The beginning *)

LEMMA InitInv == Init => IInv
<1> SUFFICES ASSUME Init PROVE IInv
  OBVIOUS
<1> USE DEF Init
<1>1. TypeOK
  <2>1. Shop!TypeOK
    BY DEF Shop!TypeOK, Shop!Init, Shop!PurchaseStates
  <2>2. reloads \in 0..MaxReloads /\ restarts \in 0..MaxRestarts
    BY BoundsAssumption
  <2>3. /\ calls \in [Transactions -> 0..2]
        /\ reply \in [Transactions -> Replies]
        /\ outcome \in [Transactions -> {"none", "UNLOCKED", "UNLOCK_FAILED"}]
        /\ commands \in [Transactions -> Nat]
    BY DEF Replies
  <2>4. /\ saved \in [sale : Transactions \union {Nil}, state : Fulfilment]
        /\ page \in [screen : Screens, sale : Transactions \union {Nil},
                     from : Fulfilment]
    BY DEF Nothing, Idle, Fulfilment, Screens
  <2> QED
    BY <2>1, <2>2, <2>3, <2>4 DEF TypeOK
<1>2. \A t \in Transactions : ~ Tried(t)
  BY DEF Tried
<1>3. PageInv /\ UnlockedInv /\ AwaitInv /\ CancelInv /\ RecoverInv
  BY DEF PageInv, UnlockedInv, AwaitInv, CancelInv, RecoverInv, Nothing, Idle
<1>4. TriedInv /\ SavedInv /\ ToldInv
  BY <1>2 DEF TriedInv, SavedInv, ToldInv, Nothing, Idle
<1> QED
  BY <1>1, <1>3, <1>4 DEF IInv

-----------------------------------------------------------------------------
(* The backend *)

\* A confirmed sale stays one, and a payment that came to nothing never
\* becomes one.
SalesEvolve ==
  \A t \in Transactions :
    /\ IsSale(Answer(t)) => IsSale(purchase'[t].state)
    /\ Answer(t) \in Lost => purchase'[t].state \in Lost

LEMMA MoveTypes ==
  ASSUME Shop!TypeOK, NEW t \in Transactions, NEW from,
         NEW to \in Shop!PurchaseStates, Shop!Move(t, from, to)
  PROVE  /\ purchase' \in [Transactions -> [slot : Slots \union {Nil},
                                            state : Shop!PurchaseStates]]
         /\ purchase[t].state \in from
         /\ purchase'[t].state = to
         /\ \A u \in Transactions : u # t => purchase'[u] = purchase[u]
<1>1. purchase[t].slot \in Slots \union {Nil}
  BY DEF Shop!TypeOK
<1> QED
  BY <1>1 DEF Shop!TypeOK, Shop!Move

LEMMA BackendKeeps ==
  ASSUME IInv, BackendOnly, SalesEvolve, Shop!TypeOK',
         orders' \in SUBSET (Transactions \X Slots),
         cancels' \in SUBSET Transactions
  PROVE  IInv'
<1> USE DEF IInv, BackendOnly, pageVars, piVars, worldVars
<1>1. TypeOK'
  BY DEF TypeOK
<1>2. \A t \in Transactions :
        /\ Tried(t)' <=> Tried(t)
        /\ IsSale(Answer(t)) => IsSale(Answer(t))'
        /\ Answer(t) \in Lost => Answer(t)' \in Lost
  BY DEF Tried, SalesEvolve, Answer, IsSale
<1>3. PageInv'
  BY <1>2 DEF PageInv
<1>4. TriedInv'
  <2>1. page.screen \in {"creating", "waiting", "reconciling"} =>
          page.sale \in Transactions
    BY DEF PageInv
  <2> QED
    BY <1>2, <2>1 DEF TriedInv
<1>5. SavedInv' /\ UnlockedInv' /\ CancelInv' /\ RecoverInv' /\ ToldInv'
  BY <1>2 DEF SavedInv, UnlockedInv, CancelInv, RecoverInv, ToldInv
<1>6. AwaitInv'
  BY <1>2 DEF AwaitInv, TypeOK
<1> QED
  BY <1>1, <1>3, <1>4, <1>5, <1>6

LEMMA OpenPaymentKeeps ==
  ASSUME IInv, NEW t \in Transactions, NEW s \in Slots, OpenPayment(t, s)
  PROVE  IInv'
<1> USE DEF OpenPayment, Shop!Open
<1>1. Shop!TypeOK'
  BY DEF IInv, TypeOK, Shop!TypeOK, Shop!PurchaseStates
<1>2. SalesEvolve
  BY DEF IInv, TypeOK, Shop!TypeOK, SalesEvolve, Answer, IsSale, Lost
<1>3. orders' \in SUBSET (Transactions \X Slots) /\ cancels' \in SUBSET Transactions
  BY DEF IInv, TypeOK
<1> QED
  BY <1>1, <1>2, <1>3, BackendKeeps

LEMMA CancelPaymentKeeps ==
  ASSUME IInv, NEW t \in Transactions, CancelPayment(t)
  PROVE  IInv'
<1> USE DEF CancelPayment
<1>1. Shop!TypeOK' /\ SalesEvolve
  <2>1. CASE Shop!Abandon(t)
    <3>1. "abandoned" \in Shop!PurchaseStates /\ Shop!TypeOK
      BY DEF Shop!PurchaseStates, IInv, TypeOK
    <3>2. Shop!Move(t, {"open", "closed"}, "abandoned") /\ UNCHANGED stock
      BY <2>1 DEF Shop!Abandon
    <3> QED
      BY <3>1, <3>2, MoveTypes DEF Shop!TypeOK, SalesEvolve, Answer, IsSale, Lost
  <2>2. CASE UNCHANGED <<stock, purchase>>
    BY <2>2 DEF IInv, TypeOK, Shop!TypeOK, SalesEvolve, Answer
  <2> QED
    BY <2>1, <2>2
<1>2. orders' \in SUBSET (Transactions \X Slots) /\ cancels' \in SUBSET Transactions
  BY DEF IInv, TypeOK
<1>3. BackendOnly
  OBVIOUS
<1> QED
  BY <1>1, <1>2, <1>3, BackendKeeps

LEMMA PaymentResolvesKeeps ==
  ASSUME IInv, NEW t \in Transactions, PaymentResolves(t)
  PROVE  IInv'
<1> USE DEF PaymentResolves
<1>1. Shop!TypeOK
  BY DEF IInv, TypeOK
<1>2. Shop!TypeOK' /\ SalesEvolve
  <2>1. CASE Shop!Sell(t)
    <3>1. "sold" \in Shop!PurchaseStates /\ Shop!Move(t, {"open"}, "sold")
      BY <2>1 DEF Shop!PurchaseStates, Shop!Sell
    <3>2. stock' \in [Slots -> {"AVAILABLE", "SOLD_OUT"}]
      BY <1>1, <2>1 DEF Shop!TypeOK, Shop!Sell
    <3> QED
      BY <1>1, <3>1, <3>2, MoveTypes DEF Shop!TypeOK, SalesEvolve, Answer, IsSale, Lost
  <2>2. CASE Shop!Close(t)
    <3>1. "closed" \in Shop!PurchaseStates /\ Shop!Move(t, {"open"}, "closed")
      BY <2>2 DEF Shop!PurchaseStates, Shop!Close
    <3> QED
      BY <1>1, <2>2, <3>1, MoveTypes
         DEF Shop!Close, Shop!TypeOK, SalesEvolve, Answer, IsSale, Lost
  <2>3. CASE Shop!PayTooLate(t)
    <3>1. /\ "refundDue" \in Shop!PurchaseStates
          /\ Shop!Move(t, {"abandoned"}, "refundDue")
      BY <2>3 DEF Shop!PurchaseStates, Shop!PayTooLate
    <3> QED
      BY <1>1, <2>3, <3>1, MoveTypes
         DEF Shop!PayTooLate, Shop!TypeOK, SalesEvolve, Answer, IsSale, Lost
  <2> QED
    BY <2>1, <2>2, <2>3
<1>3. orders' \in SUBSET (Transactions \X Slots) /\ cancels' \in SUBSET Transactions
  BY DEF IInv, TypeOK
<1>4. BackendOnly
  OBVIOUS
<1> QED
  BY <1>2, <1>3, <1>4, BackendKeeps

LEMMA RefillKeeps ==
  ASSUME IInv, Refill
  PROVE  IInv'
<1> USE DEF Refill, Shop!Restock
<1>1. Shop!TypeOK
  BY DEF IInv, TypeOK
<1>2. Shop!TypeOK'
  BY <1>1 DEF Shop!TypeOK, Shop!PurchaseStates
<1>3. SalesEvolve
  BY <1>1 DEF Shop!TypeOK, SalesEvolve, Answer, IsSale, Lost
<1>4. orders' \in SUBSET (Transactions \X Slots) /\ cancels' \in SUBSET Transactions
  BY DEF IInv, TypeOK
<1>5. BackendOnly
  OBVIOUS
<1> QED
  BY <1>2, <1>3, <1>4, <1>5, BackendKeeps

-----------------------------------------------------------------------------
(* What the page does when it learns how a sale stands *)

\* The parts of the state the page does not write, without its messages.
PageFrame ==
  /\ UNCHANGED <<stock, purchase, outcome, commands, reloads, restarts, forgotten>>
  /\ orders' \in SUBSET (Transactions \X Slots)
  /\ cancels' \in SUBSET Transactions
  /\ cancelling' \in Transactions \union {Nil}
  /\ attempted' \in SUBSET Transactions
  /\ told \subseteq told' /\ told' \in SUBSET Transactions

\* After the step, a cancellation that is still awaited comes too late.
NoCancel == cancelling' # Nil => cancelling' \in attempted'

\* The page goes to screen for sale t, and nothing is called or saved.
LEMMA ShowKeeps ==
  ASSUME IInv, PageFrame, NoCancel, attempted \subseteq attempted',
         UNCHANGED <<saved, awaits, calls, reply>>,
         NEW screen \in Screens \ {"idle", "recovering"},
         NEW t \in Transactions, page' = Shows(screen, t),
         screen = "unlocking" => t \in attempted',
         screen = "failed" => Answer(t) \in Lost,
         screen \in {"creating", "waiting", "reconciling"} => ~ Tried(t),
         screen = "success" => commands[t] = 1,
         awaits # Nil => awaits = t /\ screen = "assistance",
         page.screen = "recovering" => ~ Tried(page.sale) \/ page.sale \in told'
  PROVE  IInv'
<1> USE DEF IInv, PageFrame
<1>0. \A u \in Transactions : Tried(u)' = Tried(u) /\ Answer(u)' = Answer(u)
  BY DEF Tried, Answer
<1>1. TypeOK'
  BY DEF TypeOK, Shop!TypeOK, Shows, Fulfilment
<1>2. PageInv'
  BY <1>0 DEF PageInv, Shows
<1>3. TriedInv'
  BY <1>0 DEF TriedInv, Shows
<1>4. SavedInv'
  BY <1>0 DEF SavedInv
<1>5. UnlockedInv'
  BY DEF UnlockedInv, Shows
<1>6. AwaitInv'
  BY <1>0 DEF AwaitInv, Shows
<1>7. CancelInv' /\ RecoverInv'
  BY DEF NoCancel, CancelInv, RecoverInv, Shows
<1>8. ToldInv'
  BY <1>0 DEF ToldInv, Shows
<1> QED
  BY <1>1, <1>2, <1>3, <1>4, <1>5, <1>6, <1>7, <1>8

\* The page goes back to the slots, and may forget sale t.
LEMMA CloseKeeps ==
  ASSUME IInv, PageFrame, NoCancel, attempted \subseteq attempted',
         UNCHANGED <<awaits, calls, reply>>,
         NEW t \in Transactions, Close(t), awaits = Nil,
         page.screen = "recovering" => ~ Tried(page.sale)
  PROVE  IInv'
<1> USE DEF IInv, PageFrame
<1>0. \A u \in Transactions : Tried(u)' = Tried(u) /\ Answer(u)' = Answer(u)
  BY DEF Tried, Answer
<1>1. saved' \in {saved, Nothing} /\ page' = Idle /\ UNCHANGED told
  BY DEF Close, Clear
<1>2. TypeOK'
  BY <1>1 DEF TypeOK, Shop!TypeOK, Idle, Nothing, Fulfilment, Screens
<1>3. PageInv' /\ TriedInv'
  BY <1>0, <1>1 DEF PageInv, TriedInv, Idle
<1>4. SavedInv'
  BY <1>0, <1>1, NilIsNoSale DEF SavedInv, Nothing
<1>5. UnlockedInv'
  BY <1>1 DEF UnlockedInv, Idle, Nothing
<1>6. AwaitInv' /\ CancelInv' /\ RecoverInv'
  BY <1>1 DEF NoCancel, AwaitInv, CancelInv, RecoverInv, Idle
<1>7. ToldInv'
  BY <1>0, <1>1 DEF ToldInv, Idle
<1> QED
  BY <1>2, <1>3, <1>4, <1>5, <1>6, <1>7

\* What is shown of a sale that was tried is what its entry says.
LEMMA RestoreKeeps ==
  ASSUME IInv, PageFrame, NoCancel, UNCHANGED reply,
         NEW t \in Transactions, saved.sale = t,
         RecoveryScreen(saved.state) # "unlocking", Restore(t, saved.state)
  PROVE  IInv'
<1> DEFINE screen == RecoveryScreen(saved.state)
<1>1. saved.state \in Fulfilment
  BY DEF IInv, TypeOK
<1>2. /\ screen \in {"assistance", "success", "unlock-failed"}
      /\ screen = "success" => saved.state = "UNLOCKED"
      /\ saved.state = "ATTEMPTING" => screen = "assistance"
  BY <1>1, RecoveryScreens
<1>3. /\ UNCHANGED <<saved, awaits, attempted, calls>>
      /\ page' = Shows(screen, t)
      /\ told' = told \union {t}
  BY DEF Restore, Tell
<1> HIDE DEF screen
<1>4. screen \in Screens \ {"idle", "recovering"}
  BY <1>2 DEF Screens
<1>5. screen = "success" => commands[t] = 1
  BY <1>2 DEF IInv, UnlockedInv
<1>6. awaits # Nil => awaits = t /\ screen = "assistance"
  BY <1>2 DEF IInv, AwaitInv
<1>7. page.screen = "recovering" => page.sale \in told'
  BY <1>3 DEF IInv, RecoverInv
<1> QED
  BY <1>2, <1>3, <1>4, <1>5, <1>6, <1>7, ShowKeeps

\* The mark is written before the Pi is called.
LEMMA AttemptKeeps ==
  ASSUME IInv, PageFrame, NoCancel, UNCHANGED reply,
         NEW t \in Transactions, AttemptUnlock(t),
         IsSale(Answer(t)), ~ Tried(t), awaits = Nil,
         page.screen = "recovering" => page.sale = t
  PROVE  IInv'
<1>0. PICK p \in Persisted(t, "ATTEMPTING") :
        /\ saved' = p.saved
        /\ \/ /\ p.ok
              /\ page' = Shows("unlocking", t)
              /\ awaits' = t
              /\ calls' = [calls EXCEPT ![t] = 1]
              /\ UNCHANGED told
           \/ /\ ~ p.ok
              /\ Tell("assistance", t)
              /\ UNCHANGED <<awaits, calls>>
  BY DEF AttemptUnlock
<1> DEFINE mark == [sale |-> t, state |-> "ATTEMPTING"]
<1>a. saved' \in {saved, mark} /\ (p.ok => saved' = mark)
  BY <1>0, PersistedFacts
<1>b. attempted' = attempted \union {t}
  BY DEF AttemptUnlock
<1> USE DEF IInv, PageFrame
<1>c. /\ saved' \in [sale : Transactions \union {Nil}, state : Fulfilment]
      /\ saved'.sale = Nil => saved' = Nothing
  BY <1>a, NilIsNoSale DEF TypeOK, Fulfilment, SavedInv
<1>d. /\ commands[t] = 0 /\ outcome[t] = "none" /\ calls[t] = 0
      /\ reply[t] \notin {"sent", "already"}
  BY DEF Tried, TypeOK, UnlockedInv
<1>e. \A u \in Transactions : Answer(u)' = Answer(u)
  BY DEF Answer
<1>1. CASE p.ok
  <2>1. /\ page' = Shows("unlocking", t) /\ awaits' = t
        /\ calls' = [calls EXCEPT ![t] = 1] /\ saved' = mark
        /\ UNCHANGED told
    BY <1>0, <1>1, <1>a
  <2>2. \A u \in Transactions \ {t} : Tried(u)' = Tried(u) /\ calls'[u] = calls[u]
    BY <2>1 DEF Tried, TypeOK
  <2>3. TypeOK'
    BY <2>1, <1>c DEF TypeOK, Shop!TypeOK, Shows, Screens, Fulfilment
  <2>4. PageInv'
    BY <2>1, <1>b DEF PageInv, Shows
  <2>5. TriedInv'
    BY <2>1, <2>2, <1>d, <1>e DEF TriedInv, Shows, TypeOK
  <2>6. SavedInv'
    BY <2>1, <1>c DEF SavedInv
  <2>7. UnlockedInv'
    BY <2>1 DEF UnlockedInv, Shows
  <2>8. AwaitInv' /\ CancelInv' /\ RecoverInv'
    BY <2>1, <1>e DEF NoCancel, AwaitInv, CancelInv, RecoverInv, Shows
  <2>9. ToldInv'
    BY <2>1, <2>2, NilIsNoSale DEF ToldInv, Shows
  <2> QED
    BY <2>3, <2>4, <2>5, <2>6, <2>7, <2>8, <2>9
<1>2. CASE ~ p.ok
  <2>1. /\ page' = Shows("assistance", t) /\ told' = told \union {t}
        /\ UNCHANGED <<awaits, calls>>
    BY <1>0, <1>2 DEF Tell
  <2>2. \A u \in Transactions : Tried(u)' = Tried(u)
    BY <2>1 DEF Tried
  <2>3. TypeOK'
    BY <2>1, <1>c DEF TypeOK, Shop!TypeOK, Shows, Screens, Fulfilment
  <2>4. PageInv'
    BY <2>1 DEF PageInv, Shows
  <2>5. TriedInv'
    BY <2>1, <2>2, <1>e DEF TriedInv, Shows
  <2>6. SavedInv'
    BY <2>2, <1>a, <1>c DEF SavedInv
  <2>7. UnlockedInv'
    BY <2>1, <1>a DEF UnlockedInv, Shows
  <2>8. AwaitInv' /\ CancelInv' /\ RecoverInv'
    BY <2>1 DEF NoCancel, AwaitInv, CancelInv, RecoverInv, Shows
  <2>9. ToldInv'
    BY <2>1, <2>2 DEF ToldInv, Shows
  <2> QED
    BY <2>3, <2>4, <2>5, <2>6, <2>7, <2>8, <2>9
<1> QED
  BY <1>1, <1>2

\* completeConfirmedPayment.  Tried or not, the sale gets no second attempt:
\* one that was tried has left its mark in the entry.
LEMMA CompleteKeeps ==
  ASSUME IInv, PageFrame, NoCancel, UNCHANGED reply,
         NEW t \in Transactions, Complete(t), IsSale(Answer(t)),
         t \notin attempted => ~ (Tried(t) /\ saved.sale # t) /\ awaits = Nil,
         page.screen = "recovering" => page.sale = t,
         cancelling' \in {cancelling, Nil}
  PROVE  IInv'
<1>1. Entry(t) \in Fulfilment /\ (saved.sale = t => Entry(t) = saved.state)
  BY DEF Entry, IInv, TypeOK, Fulfilment
<1>2. CASE RecoveryScreen(Entry(t)) # "unlocking"
  <2>1. saved.sale = t /\ Entry(t) = saved.state
    BY <1>1, <1>2, RecoveryScreens DEF Entry
  <2>2. Restore(t, saved.state) /\ RecoveryScreen(saved.state) # "unlocking"
    BY <1>2, <2>1 DEF Complete
  <2> QED
    BY <2>1, <2>2, RestoreKeeps
<1>3. CASE RecoveryScreen(Entry(t)) = "unlocking" /\ t \notin attempted
  <2>1. saved.sale # t \/ saved.state = "NOT_STARTED"
    BY <1>1, <1>3, RecoveryScreens
  <2>2. ~ Tried(t)
    BY <1>3, <2>1 DEF IInv, SavedInv
  <2>3. AttemptUnlock(t)
    BY <1>3 DEF Complete
  <2> QED
    BY <1>3, <2>2, <2>3, AttemptKeeps
<1>4. CASE RecoveryScreen(Entry(t)) = "unlocking" /\ t \in attempted
  <2>1. UNCHANGED <<saved, page, told, awaits, attempted, calls>>
    BY <1>4 DEF Complete
  <2> USE DEF IInv, PageFrame
  <2>2. TypeOK'
    BY <2>1 DEF TypeOK, Shop!TypeOK
  <2>3. \A u \in Transactions : Tried(u)' = Tried(u) /\ Answer(u)' = Answer(u)
    BY <2>1 DEF Tried, Answer
  <2>4. PageInv' /\ TriedInv' /\ SavedInv' /\ UnlockedInv' /\ ToldInv'
    <3>1. page.screen \in {"creating", "waiting", "reconciling", "failed"} =>
            page.sale \in Transactions
      BY DEF PageInv
    <3> QED
      BY <2>1, <2>3, <3>1 DEF PageInv, TriedInv, SavedInv, UnlockedInv, ToldInv
  <2>5. AwaitInv' /\ CancelInv'
    BY <2>1, <2>3 DEF NoCancel, AwaitInv, CancelInv, TypeOK
  <2>6. RecoverInv'
    BY <2>1 DEF RecoverInv
  <2> QED
    BY <2>2, <2>4, <2>5, <2>6
<1> QED
  BY <1>2, <1>3, <1>4

\* The page asks how its sale stands, with no cancellation in the way.
LEMMA ActOnKeeps ==
  ASSUME IInv, PageFrame, UNCHANGED <<cancelling, reply>>,
         cancelling # Nil => cancelling \in attempted,
         page.screen \in {"reconciling", "waiting", "recovering"},
         NEW screen \in {"blocked", "waiting"}, NEW pending,
         Answer(page.sale) = "open" => pending = Shows(screen, page.sale),
         ActOn(page.sale, pending)
  PROVE  IInv'
<1> DEFINE t == page.sale
<1>1. t \in Transactions /\ awaits = Nil
  BY ScreenFacts DEF IInv, PageInv
<1>2. Tried(t) => IsSale(Answer(t))
  BY <1>1 DEF IInv, TriedInv
<1>3. page.screen = "recovering" => saved.sale = t
  BY DEF IInv, RecoverInv
<1>4. page.screen # "recovering" => ~ Tried(t)
  BY DEF IInv, TriedInv
<1>5. attempted \subseteq attempted' /\ NoCancel
  BY DEF ActOn, Complete, Restore, AttemptUnlock, NoCancel
<1> HIDE DEF t
<1>6. CASE /\ ~ IsSale(Answer(t))
           /\ Close(t)
           /\ UNCHANGED <<awaits, attempted, calls>>
  BY <1>1, <1>2, <1>5, <1>6, CloseKeeps DEF t
<1>7. CASE IsSale(Answer(t)) /\ Complete(t)
  BY <1>1, <1>3, <1>4, <1>5, <1>7, CompleteKeeps DEF t
<1>8. CASE /\ Answer(t) = "closed"
           /\ page' = Shows("failed", t)
           /\ UNCHANGED <<saved, told, awaits, attempted, calls>>
  <2>1. ~ Tried(t) /\ "failed" \in Screens \ {"idle", "recovering"}
    BY <1>2, <1>8 DEF IsSale, Screens
  <2> QED
    BY <1>1, <1>5, <1>8, <2>1, ShowKeeps DEF Lost, t
<1>9. CASE /\ Answer(t) = "open"
           /\ page' = pending
           /\ UNCHANGED <<saved, told, awaits, attempted, calls>>
  <2>1. ~ Tried(t) /\ screen \in Screens \ {"idle", "recovering"}
    BY <1>2, <1>9 DEF IsSale, Screens
  <2> QED
    BY <1>1, <1>5, <1>9, <2>1, ShowKeeps DEF t
<1> QED
  BY <1>6, <1>7, <1>8, <1>9 DEF ActOn, t

-----------------------------------------------------------------------------
(* The steps of the page *)

LEMMA PollKeeps ==
  ASSUME IInv, Poll
  PROVE  IInv'
<1>1. PageFrame
  BY DEF Poll, ActOn, Close, Complete, Restore, AttemptUnlock, Tell, PageOnly,
     worldVars, PageFrame, IInv, TypeOK, PageInv
<1>2. cancelling # Nil => cancelling \in attempted
  BY DEF Poll, IInv, CancelInv, Shows
<1>3. UNCHANGED <<cancelling, reply>>
  BY DEF Poll, PageOnly
<1>4. ActOn(page.sale, page) /\ page.screen = "waiting" /\ Answer(page.sale) # "open"
  BY DEF Poll
<1> QED
  BY <1>1, <1>2, <1>3, <1>4, ActOnKeeps

LEMMA ReconcileKeeps ==
  ASSUME IInv, Reconcile
  PROVE  IInv'
<1>1. PageFrame
  BY DEF Reconcile, ActOn, Close, Complete, Restore, AttemptUnlock, Tell, PageOnly,
     worldVars, PageFrame, IInv, TypeOK, PageInv
<1>2. cancelling # Nil => cancelling \in attempted
  BY DEF Reconcile, IInv, CancelInv, Shows
<1>3. UNCHANGED <<cancelling, reply>>
  BY DEF Reconcile, PageOnly
<1>4. ActOn(page.sale, Shows("blocked", page.sale)) /\ page.screen = "reconciling"
  BY DEF Reconcile
<1> QED
  BY <1>1, <1>2, <1>3, <1>4, ActOnKeeps

LEMMA RecoverOpenKeeps ==
  ASSUME IInv, RecoverOpen
  PROVE  IInv'
<1>1. PageFrame
  BY DEF RecoverOpen, ActOn, Close, Complete, Restore, AttemptUnlock, Tell, PageOnly,
     worldVars, PageFrame, IInv, TypeOK, PageInv
<1>2. cancelling # Nil => cancelling \in attempted
  BY DEF RecoverOpen, IInv, RecoverInv
<1>3. UNCHANGED <<cancelling, reply>>
  BY DEF RecoverOpen, PageOnly
<1>4. ActOn(page.sale, Shows("waiting", page.sale)) /\ page.screen = "recovering"
  BY DEF RecoverOpen
<1> QED
  BY <1>1, <1>2, <1>3, <1>4, ActOnKeeps

LEMMA RecoverTriedKeeps ==
  ASSUME IInv, RecoverTried
  PROVE  IInv'
<1>1. /\ page.screen = "recovering" /\ page.sale \in Transactions
      /\ saved.sale = page.sale /\ saved.state = page.from /\ cancelling = Nil
  BY DEF RecoverTried, IInv, RecoverInv, PageInv
<1>2. PageFrame /\ NoCancel
  BY <1>1 DEF RecoverTried, Restore, Tell, PageOnly, worldVars, PageFrame,
     NoCancel, IInv, TypeOK
<1>3. Restore(page.sale, saved.state) /\ RecoveryScreen(saved.state) # "unlocking"
  BY <1>1 DEF RecoverTried
<1>4. UNCHANGED reply
  BY DEF RecoverTried, PageOnly
<1> QED
  BY <1>1, <1>2, <1>3, <1>4, RestoreKeeps

LEMMA BuyKeeps ==
  ASSUME IInv, NEW t \in Transactions, NEW s \in Slots, Buy(t, s)
  PROVE  IInv'
<1>1. /\ page = Idle /\ page' = Shows("creating", t)
      /\ UNCHANGED <<saved, awaits, calls, reply, attempted, cancelling>>
  BY DEF Buy, piVars
<1>2. PageFrame
  BY DEF Buy, piVars, worldVars, PageFrame, IInv, TypeOK
<1>3. ~ Tried(t)
  BY DEF Buy, IsNew, IInv, TriedInv, IsSale
<1>4. awaits = Nil /\ NoCancel
  BY <1>1, ScreenFacts DEF Idle, NoCancel
<1>5. "creating" \in Screens \ {"idle", "recovering"} /\ page.screen = "idle"
  BY <1>1 DEF Screens, Idle
<1> QED
  BY <1>1, <1>2, <1>3, <1>4, <1>5, ShowKeeps

LEMMA BuyAnsweredKeeps ==
  ASSUME IInv, BuyAnswered
  PROVE  IInv'
<1> DEFINE t == page.sale
<1>0. PICK p \in Persisted(t, "NOT_STARTED") :
        /\ saved' = p.saved
        /\ IF p.ok
           THEN /\ page' = Shows(IF Answer(t) = "closed" THEN "failed"
                                                         ELSE "waiting", t)
                /\ UNCHANGED cancels
           ELSE /\ page' = Shows("reconciling", t)
                /\ cancels' = cancels \union {t}
  BY DEF BuyAnswered
<1>1. page.screen = "creating" /\ t \in Transactions /\ ~ Tried(t)
  BY DEF BuyAnswered, IInv, PageInv, TriedInv
<1>2. saved' \in {saved, [sale |-> t, state |-> "NOT_STARTED"]}
  BY <1>0, PersistedFacts
<1>3. /\ page' \in {Shows("failed", t), Shows("waiting", t), Shows("reconciling", t)}
      /\ page' = Shows("failed", t) => Answer(t) = "closed"
      /\ cancels' \in SUBSET Transactions
  BY <1>0, <1>1 DEF IInv, TypeOK, Shows
<1>4. UNCHANGED <<stock, purchase, orders, calls, reply, outcome, commands, told,
                  cancelling, awaits, attempted, reloads, restarts, forgotten>>
  BY DEF BuyAnswered, PageOnly, worldVars
<1>5. awaits = Nil /\ (cancelling # Nil => cancelling \in attempted)
  BY <1>1, ScreenFacts
<1>6. \A u \in Transactions : Tried(u)' = Tried(u) /\ Answer(u)' = Answer(u)
  BY <1>4 DEF Tried, Answer
<1> HIDE DEF t
<1> USE <1>1, <1>2, <1>3, <1>4, <1>5, <1>6 DEF IInv
<1>7. TypeOK'
  BY DEF TypeOK, Shop!TypeOK, Shows, Screens, Fulfilment
<1>8. PageInv' /\ TriedInv'
  BY DEF PageInv, TriedInv, Shows, Lost
<1>9. SavedInv'
  BY NilIsNoSale DEF SavedInv
<1>10. UnlockedInv' /\ AwaitInv' /\ CancelInv' /\ RecoverInv'
  BY DEF UnlockedInv, AwaitInv, CancelInv, RecoverInv, Shows
<1>11. ToldInv'
  BY NilIsNoSale DEF ToldInv, Shows
<1> QED
  BY <1>7, <1>8, <1>9, <1>10, <1>11

LEMMA BuyFailedKeeps ==
  ASSUME IInv, BuyFailed
  PROVE  IInv'
<1>1. page.screen = "creating" /\ page.sale \in Transactions
  BY DEF BuyFailed, IInv, PageInv
<1>2. /\ UNCHANGED <<saved, awaits, calls, reply, attempted, cancelling, told>>
      /\ page' = Idle
  BY DEF BuyFailed, PageOnly
<1>3. PageFrame /\ Close(page.sale)
  BY <1>2 DEF BuyFailed, PageOnly, worldVars, PageFrame, IInv, TypeOK, Close, Clear
<1>4. awaits = Nil /\ NoCancel
  BY <1>1, <1>2, ScreenFacts DEF NoCancel
<1> QED
  BY <1>1, <1>2, <1>3, <1>4, CloseKeeps

LEMMA ReconcileFailsKeeps ==
  ASSUME IInv, ReconcileFails
  PROVE  IInv'
<1>1. page.screen = "reconciling" /\ page.sale \in Transactions
  BY DEF ReconcileFails, IInv, PageInv
<1>2. /\ UNCHANGED <<saved, awaits, calls, reply, attempted, cancelling, told>>
      /\ page' = Shows("blocked", page.sale)
  BY DEF ReconcileFails, PageOnly
<1>3. PageFrame
  BY DEF ReconcileFails, PageOnly, worldVars, PageFrame, IInv, TypeOK
<1>4. awaits = Nil /\ NoCancel
  BY <1>1, <1>2, ScreenFacts DEF NoCancel
<1>5. "blocked" \in Screens \ {"idle", "recovering"}
  BY DEF Screens
<1> QED
  BY <1>1, <1>2, <1>3, <1>4, <1>5, ShowKeeps

\* The cancellation of a payment that nobody waits for any more.
LEMMA StayKeeps ==
  ASSUME IInv, PageFrame,
         \/ cancelling' \in {cancelling, Nil}
         \/ cancelling' = page.sale /\ page.screen \in {"waiting", "unlocking"},
         UNCHANGED <<saved, page, awaits, attempted, told, calls, reply>>
  PROVE  IInv'
<1> USE DEF IInv, PageFrame
<1>1. TypeOK'
  BY DEF TypeOK, Shop!TypeOK
<1>2. \A u \in Transactions : Tried(u)' = Tried(u) /\ Answer(u)' = Answer(u)
  BY DEF Tried, Answer
<1>3. PageInv' /\ TriedInv' /\ SavedInv' /\ UnlockedInv' /\ ToldInv'
  <2>1. page.screen # "idle" => page.sale \in Transactions
    BY DEF PageInv
  <2> QED
    BY <1>2, <2>1 DEF PageInv, TriedInv, SavedInv, UnlockedInv, ToldInv
<1>4. AwaitInv'
  BY <1>2 DEF AwaitInv, TypeOK
<1>5. CancelInv'
  <2>1. page.screen = "waiting" => page = Shows("waiting", page.sale)
    BY ScreenFacts
  <2>2. page.screen = "unlocking" => page.sale \in attempted
    BY DEF PageInv
  <2> QED
    BY <2>1, <2>2 DEF CancelInv
<1>6. RecoverInv'
  <2>1. page.screen = "recovering" => page.sale # Nil
    BY NilIsNoSale DEF PageInv
  <2> QED
    BY <2>1 DEF RecoverInv
<1> QED
  BY <1>1, <1>3, <1>4, <1>5, <1>6

LEMMA ClickCancelKeeps ==
  ASSUME IInv, ClickCancel
  PROVE  IInv'
<1>1. page.sale \in Transactions
  BY DEF ClickCancel, IInv, PageInv
<1>2. PageFrame
  BY <1>1 DEF ClickCancel, PageOnly, worldVars, PageFrame, IInv, TypeOK
<1> QED
  BY <1>2, StayKeeps DEF ClickCancel, PageOnly

LEMMA CancelFailedKeeps ==
  ASSUME IInv, CancelFailed
  PROVE  IInv'
<1>1. PageFrame
  BY DEF CancelFailed, AfterCancel, PageOnly, worldVars, PageFrame, IInv, TypeOK
<1> QED
  BY <1>1, StayKeeps DEF CancelFailed, AfterCancel, PageOnly

LEMMA CancelRefusedKeeps ==
  ASSUME IInv, CancelRefused
  PROVE  IInv'
<1> DEFINE t == cancelling
<1>1. /\ t \in Transactions /\ IsSale(Answer(t)) /\ Complete(t)
      /\ cancelling' = Nil /\ UNCHANGED reply
  BY DEF CancelRefused, IInv, TypeOK, PageOnly
<1>2. PageFrame /\ NoCancel
  BY <1>1 DEF CancelRefused, Complete, Restore, AttemptUnlock, Tell, PageOnly,
     worldVars, PageFrame, NoCancel, IInv, TypeOK
<1>3. t \notin attempted => page = Shows("waiting", t)
  BY <1>1, NilIsNoSale DEF IInv, CancelInv
<1>4. t \notin attempted => ~ Tried(t) /\ awaits = Nil
  BY <1>3, ScreenFacts DEF IInv, TriedInv, Shows
<1>5. page.screen # "recovering"
  BY <1>1, NilIsNoSale DEF IInv, RecoverInv
<1> HIDE DEF t
<1> QED
  BY <1>1, <1>2, <1>4, <1>5, CompleteKeeps

LEMMA CancelConfirmedKeeps ==
  ASSUME IInv, CancelConfirmed
  PROVE  IInv'
<1> DEFINE t == cancelling
<1>1. /\ t \in Transactions /\ t # Nil /\ ~ IsSale(Answer(t)) /\ ~ Tried(t)
      /\ cancelling' = Nil
  BY DEF CancelConfirmed, IInv, TypeOK, TriedInv, IsSale, CustomerCancelled
<1>2. UNCHANGED <<awaits, attempted, told, calls, reply>>
  BY DEF CancelConfirmed, PageOnly
<1>3. PageFrame /\ NoCancel
  BY <1>1, <1>2 DEF CancelConfirmed, PageOnly, worldVars, PageFrame, NoCancel,
     IInv, TypeOK
<1>4. page.screen # "recovering"
  BY <1>1 DEF IInv, RecoverInv
<1>5. CASE page = Shows("waiting", t)
  <2>1. Close(t)
    BY <1>2, <1>5 DEF CancelConfirmed, Close
  <2>2. awaits = Nil
    BY <1>5, ScreenFacts DEF Shows
  <2> QED
    BY <1>1, <1>2, <1>3, <1>4, <2>1, <2>2, CloseKeeps
<1>6. CASE page # Shows("waiting", t)
  <2>1. UNCHANGED page /\ saved' \in {saved, Nothing} /\ (saved' # saved => saved.sale = t)
    BY <1>6 DEF CancelConfirmed, Clear
  <2>2. awaits # Nil => UNCHANGED saved
    BY <1>1, <2>1 DEF IInv, AwaitInv
  <2> USE <1>1, <1>2, <1>4, <2>1, <2>2 DEF IInv, PageFrame
  <2>3. \A u \in Transactions : Tried(u)' = Tried(u) /\ Answer(u)' = Answer(u)
    BY <1>3 DEF Tried, Answer
  <2>4. TypeOK'
    BY <1>3 DEF TypeOK, Shop!TypeOK, Nothing, Fulfilment
  <2>5. PageInv' /\ TriedInv' /\ ToldInv'
    <3>1. page.screen # "idle" => page.sale \in Transactions
      BY DEF PageInv
    <3> QED
      BY <1>3, <2>3, <3>1 DEF PageInv, TriedInv, ToldInv
  <2>6. SavedInv'
    BY <2>3, NilIsNoSale DEF SavedInv, Nothing
  <2>7. UnlockedInv'
    BY <1>3 DEF UnlockedInv, Nothing
  <2>8. AwaitInv'
    BY <2>3 DEF AwaitInv, TypeOK
  <2>9. CancelInv' /\ RecoverInv'
    BY DEF CancelInv, RecoverInv
  <2> QED
    BY <2>4, <2>5, <2>6, <2>7, <2>8, <2>9
<1> QED
  BY <1>5, <1>6

LEMMA DismissKeeps ==
  ASSUME IInv, Dismiss
  PROVE  IInv'
<1>1. page.screen \in {"success", "failed", "unlock-failed"} /\ Close(page.sale)
  BY DEF Dismiss
<1>2. page.sale \in Transactions
  BY <1>1 DEF IInv, PageInv
<1>3. UNCHANGED <<awaits, calls, reply, attempted, cancelling>>
  BY DEF Dismiss, PageOnly
<1>4. PageFrame
  BY DEF Dismiss, Close, PageOnly, worldVars, PageFrame, IInv, TypeOK
<1>5. awaits = Nil /\ NoCancel
  BY <1>1, <1>3, ScreenFacts DEF NoCancel
<1> QED
  BY <1>1, <1>2, <1>3, <1>4, <1>5, CloseKeeps

\* What the page writes and shows when the Pi has answered, or not.
LEMMA ReadReplyKeeps ==
  ASSUME IInv, awaits # Nil, NEW r \in Replies \ {"none"},
         r \in {"sent", "already"} => commands[awaits] = 1, ReadReply(r)
  PROVE  IInv'
<1> DEFINE t == awaits
           screen == ReplyScreen(r)
<1>1. /\ t \in Transactions
      /\ saved = [sale |-> t, state |-> "ATTEMPTING"]
      /\ page.screen \in {"unlocking", "assistance"}
  BY DEF IInv, TypeOK, AwaitInv, Shows
<1>2. /\ screen \in {"success", "assistance", "unlock-failed"}
      /\ screen = "success" => commands[t] = 1
  <2>1. CASE r \in {"sent", "already"}
    BY <2>1 DEF ReplyScreen
  <2>2. CASE r = "uncertain"
    BY <2>2 DEF ReplyScreen
  <2>3. CASE r = "error"
    BY <2>3 DEF ReplyScreen
  <2> QED
    BY <2>1, <2>2, <2>3 DEF Replies
<1>3. saved' \in ReplySaved(t, screen)
  BY DEF ReadReply
<1>4. /\ page' = Shows(screen, t) /\ told' = told \union {t} /\ awaits' = Nil
      /\ reply' = [reply EXCEPT ![t] = "none"]
      /\ UNCHANGED <<stock, purchase, orders, cancels, cancelling, attempted,
                     calls, outcome, commands, reloads, restarts, forgotten>>
  BY DEF ReadReply, Tell, backendVars, worldVars
<1> HIDE DEF t, screen
<1>5. /\ saved' \in {saved, [sale |-> t, state |-> "UNLOCKED"],
                     [sale |-> t, state |-> "UNLOCK_FAILED"]}
      /\ saved'.state = "UNLOCKED" => screen = "success"
  <2>1. CASE screen = "success"
    <3>1. saved' \in {p.saved : p \in Persisted(t, "UNLOCKED")}
      BY <1>3, <2>1 DEF ReplySaved
    <3> QED
      BY <2>1, <3>1, PersistedFacts
  <2>2. CASE screen = "unlock-failed"
    <3>1. saved' \in {p.saved : p \in Persisted(t, "UNLOCK_FAILED")}
      BY <1>3, <2>2 DEF ReplySaved
    <3>2. saved' \in {saved, [sale |-> t, state |-> "UNLOCK_FAILED"]}
      BY <3>1, PersistedFacts
    <3> QED
      BY <1>1, <3>2
  <2>3. CASE screen = "assistance"
    BY <1>3, <2>3, <1>1 DEF ReplySaved
  <2> QED
    BY <1>2, <2>1, <2>2, <2>3
<1>6. cancelling # Nil => cancelling \in attempted
  BY <1>1, ScreenFacts
<1>7. \A u \in Transactions : Tried(u)' = Tried(u) /\ Answer(u)' = Answer(u)
  BY <1>4 DEF Tried, Answer
<1> USE <1>1, <1>2, <1>4, <1>5, <1>6, <1>7 DEF IInv
<1>8. TypeOK'
  BY DEF TypeOK, Shop!TypeOK, Shows, Screens, Fulfilment, Replies
<1>9. PageInv' /\ TriedInv'
  BY DEF PageInv, TriedInv, Shows
<1>10. SavedInv'
  BY NilIsNoSale DEF SavedInv
<1>11. UnlockedInv'
  BY DEF UnlockedInv, TypeOK, Shows
<1>12. AwaitInv' /\ CancelInv' /\ RecoverInv'
  BY DEF AwaitInv, CancelInv, RecoverInv, Shows
<1>13. ToldInv'
  BY DEF ToldInv, t
<1> QED
  BY <1>8, <1>9, <1>10, <1>11, <1>12, <1>13

LEMMA UnlockAnsweredKeeps ==
  ASSUME IInv, UnlockAnswered
  PROVE  IInv'
<1>1. awaits \in Transactions /\ reply[awaits] \in Replies \ {"none"}
  BY DEF UnlockAnswered, IInv, TypeOK
<1>2. reply[awaits] \in {"sent", "already"} => commands[awaits] = 1
  BY <1>1 DEF IInv, UnlockedInv
<1> QED
  BY <1>1, <1>2, ReadReplyKeeps DEF UnlockAnswered

LEMMA UnlockReplyLostKeeps ==
  ASSUME IInv, UnlockReplyLost
  PROVE  IInv'
BY ReadReplyKeeps DEF UnlockReplyLost, Replies

\* A reload keeps the sale at hand by its entry.
LEMMA ReloadKeeps ==
  ASSUME IInv, Reload
  PROVE  IInv'
<1>1. /\ cancelling' = Nil /\ awaits' = Nil /\ attempted' = {}
      /\ reply' = [t \in Transactions |-> "none"]
      /\ UNCHANGED <<stock, purchase, orders, cancels, saved, told, calls,
                     outcome, commands, restarts>>
  BY DEF Reload, backendVars
<1> DEFINE recovering == [screen |-> "recovering", sale |-> saved.sale,
                          from |-> saved.state]
<1>2. /\ page' \in {Idle, recovering}
      /\ page' = recovering => saved # Nothing
      /\ page' = Idle => saved = Nothing \/ forgotten'
      /\ forgotten => forgotten'
      /\ forgotten' \in BOOLEAN
  <2>1. forgotten \in BOOLEAN /\ Idle # recovering
    BY DEF IInv, TypeOK, Idle
  <2> QED
    BY <2>1 DEF Reload
<1>3. saved # Nothing => saved.sale \in Transactions
  BY DEF IInv, SavedInv, TypeOK
<1>4. \A u \in Transactions : Tried(u)' = Tried(u) /\ Answer(u)' = Answer(u)
  BY <1>1 DEF Tried, Answer
<1> USE DEF IInv
<1>5. TypeOK'
  <2>1. reloads' \in 0..MaxReloads
    BY BoundsAssumption DEF Reload, TypeOK
  <2> QED
    BY <1>1, <1>2, <1>3, <2>1
       DEF TypeOK, Shop!TypeOK, Idle, Screens, Fulfilment, Replies
<1>6. PageInv' /\ TriedInv'
  BY <1>1, <1>2, <1>3, <1>4 DEF PageInv, TriedInv, Idle
<1>7. SavedInv' /\ UnlockedInv'
  BY <1>1, <1>2, <1>4 DEF SavedInv, UnlockedInv, Idle
<1>8. AwaitInv' /\ CancelInv' /\ RecoverInv'
  <2>1. saved = [sale |-> saved.sale, state |-> saved.state]
    BY DEF TypeOK
  <2> QED
    BY <1>1, <1>2, <2>1 DEF AwaitInv, CancelInv, RecoverInv, Idle
<1>9. ToldInv'
  <2>1. SUFFICES ASSUME NEW u \in Transactions, Tried(u), u \notin told, ~ forgotten'
                 PROVE  page' = recovering /\ saved.sale = u
    BY <1>1, <1>4 DEF ToldInv
  <2>2. saved.sale = u
    BY <2>1, <1>2, NilIsNoSale DEF ToldInv, AwaitInv, RecoverInv
  <2>3. saved # Nothing
    BY <2>2, NilIsNoSale DEF Nothing
  <2> QED
    BY <1>2, <2>1, <2>2, <2>3
<1> QED
  BY <1>5, <1>6, <1>7, <1>8, <1>9

-----------------------------------------------------------------------------
(* The steps of the Pi *)

\* What the Pi is told leaves the page as it is.  A command goes out at most
\* once, for a call that was made, and the Pi says so only then.
LEMMA PiKeeps ==
  ASSUME IInv, UNCHANGED <<backendVars, pageVars>>,
         UNCHANGED <<reloads, forgotten>>, restarts' \in 0..MaxRestarts,
         calls' \in [Transactions -> 0..2],
         reply' \in [Transactions -> Replies],
         outcome' \in [Transactions -> {"none", "UNLOCKED", "UNLOCK_FAILED"}],
         commands' \in [Transactions -> Nat],
         \A t \in Transactions :
           /\ Tried(t)' => Tried(t)
           /\ calls'[t] > 0 /\ outcome'[t] = "none" => commands'[t] = 0
           /\ commands'[t] <= 1
           /\ commands[t] = 1 => commands'[t] = 1
           /\ (reply'[t] \in {"sent", "already"} \/ outcome'[t] = "UNLOCKED") =>
                commands'[t] = 1
  PROVE  IInv'
<1> USE DEF IInv, backendVars, pageVars
<1>1. TypeOK'
  BY DEF TypeOK, Shop!TypeOK
<1>2. \A u \in Transactions : Answer(u)' = Answer(u)
  BY DEF Answer
<1>3. page.screen # "idle" => page.sale \in Transactions
  BY DEF PageInv
<1>4. PageInv'
  BY <1>2, <1>3 DEF PageInv
<1>5. TriedInv'
  BY <1>2, <1>3 DEF TriedInv
<1>6. SavedInv'
  BY DEF SavedInv
<1>7. UnlockedInv'
  <2>1. saved.state = "UNLOCKED" => saved.sale \in Transactions
    BY DEF SavedInv, TypeOK, Nothing
  <2> QED
    BY <1>3, <2>1 DEF UnlockedInv
<1>8. AwaitInv'
  BY <1>2 DEF AwaitInv, TypeOK
<1>9. CancelInv' /\ RecoverInv'
  BY DEF CancelInv, RecoverInv
<1>10. ToldInv'
  BY DEF ToldInv
<1> QED
  BY <1>1, <1>4, <1>5, <1>6, <1>7, <1>8, <1>9, <1>10

LEMMA RepeatedUnlockKeeps ==
  ASSUME IInv, NEW t \in Transactions, RepeatedUnlock(t)
  PROVE  IInv'
<1>1. UNCHANGED <<outcome, commands>> /\ calls[t] > 0 /\ outcome[t] # "none"
  BY DEF RepeatedUnlock, Remembered
<1>2. /\ calls' = [calls EXCEPT ![t] = @ - 1]
      /\ reply' \in {reply, [reply EXCEPT ![t] = IF outcome[t] = "UNLOCKED"
                                                 THEN "already" ELSE "uncertain"]}
  BY DEF RepeatedUnlock, Respond
<1>3. UNCHANGED <<backendVars, pageVars, worldVars>>
  BY DEF RepeatedUnlock, PiOnly
<1>4. /\ calls' \in [Transactions -> 0..2]
      /\ reply' \in [Transactions -> Replies]
      /\ outcome' \in [Transactions -> {"none", "UNLOCKED", "UNLOCK_FAILED"}]
      /\ commands' \in [Transactions -> Nat]
  BY <1>1, <1>2 DEF IInv, TypeOK, Replies
<1>5. \A u \in Transactions : Tried(u)' => Tried(u)
  BY <1>1, <1>2 DEF IInv, TypeOK, Tried
<1>6. \A u \in Transactions :
        /\ calls'[u] > 0 /\ outcome'[u] = "none" => commands'[u] = 0
        /\ commands'[u] <= 1
        /\ commands[u] = 1 => commands'[u] = 1
        /\ (reply'[u] \in {"sent", "already"} \/ outcome'[u] = "UNLOCKED") =>
             commands'[u] = 1
  BY <1>1, <1>2 DEF IInv, TypeOK, TriedInv, UnlockedInv
<1>7. restarts' \in 0..MaxRestarts /\ UNCHANGED <<reloads, forgotten>>
  BY <1>3 DEF worldVars, IInv, TypeOK
<1> QED
  BY <1>3, <1>4, <1>5, <1>6, <1>7, PiKeeps

LEMMA UnlockUnavailableKeeps ==
  ASSUME IInv, NEW t \in Transactions, UnlockUnavailable(t)
  PROVE  IInv'
<1>1. UNCHANGED <<outcome, commands>> /\ calls[t] > 0
  BY DEF UnlockUnavailable
<1>2. /\ calls' = [calls EXCEPT ![t] = @ - 1]
      /\ reply' \in {reply, [reply EXCEPT ![t] = "error"]}
  BY DEF UnlockUnavailable, Respond
<1>3. UNCHANGED <<backendVars, pageVars, worldVars>>
  BY DEF UnlockUnavailable, PiOnly
<1>4. /\ calls' \in [Transactions -> 0..2]
      /\ reply' \in [Transactions -> Replies]
      /\ outcome' \in [Transactions -> {"none", "UNLOCKED", "UNLOCK_FAILED"}]
      /\ commands' \in [Transactions -> Nat]
  BY <1>1, <1>2 DEF IInv, TypeOK, Replies
<1>5. \A u \in Transactions : Tried(u)' => Tried(u)
  BY <1>1, <1>2 DEF IInv, TypeOK, Tried
<1>6. \A u \in Transactions :
        /\ calls'[u] > 0 /\ outcome'[u] = "none" => commands'[u] = 0
        /\ commands'[u] <= 1
        /\ commands[u] = 1 => commands'[u] = 1
        /\ (reply'[u] \in {"sent", "already"} \/ outcome'[u] = "UNLOCKED") =>
             commands'[u] = 1
  BY <1>1, <1>2 DEF IInv, TypeOK, TriedInv, UnlockedInv
<1>7. restarts' \in 0..MaxRestarts /\ UNCHANGED <<reloads, forgotten>>
  BY <1>3 DEF worldVars, IInv, TypeOK
<1> QED
  BY <1>3, <1>4, <1>5, <1>6, <1>7, PiKeeps

LEMMA UnlockSentKeeps ==
  ASSUME IInv, NEW t \in Transactions, UnlockSent(t)
  PROVE  IInv'
<1>1. calls[t] > 0 /\ outcome[t] = "none" /\ commands[t] = 0
  BY DEF UnlockSent, Remembered, IInv, TriedInv
<1>2. /\ calls' = [calls EXCEPT ![t] = @ - 1]
      /\ reply' \in {reply, [reply EXCEPT ![t] = "sent"]}
      /\ outcome' = [outcome EXCEPT ![t] = "UNLOCKED"]
  BY DEF UnlockSent, Respond
<1>3. commands' = [commands EXCEPT ![t] = 1]
  BY <1>1 DEF UnlockSent, IInv, TypeOK
<1>4. UNCHANGED <<backendVars, pageVars, worldVars>>
  BY DEF UnlockSent, PiOnly
<1>5. /\ calls' \in [Transactions -> 0..2]
      /\ reply' \in [Transactions -> Replies]
      /\ outcome' \in [Transactions -> {"none", "UNLOCKED", "UNLOCK_FAILED"}]
      /\ commands' \in [Transactions -> Nat]
  BY <1>1, <1>2, <1>3 DEF IInv, TypeOK, Replies
<1>6. \A u \in Transactions : Tried(u)' => Tried(u)
  BY <1>1, <1>2, <1>3 DEF IInv, TypeOK, Tried
<1>7. \A u \in Transactions :
        /\ calls'[u] > 0 /\ outcome'[u] = "none" => commands'[u] = 0
        /\ commands'[u] <= 1
        /\ commands[u] = 1 => commands'[u] = 1
        /\ (reply'[u] \in {"sent", "already"} \/ outcome'[u] = "UNLOCKED") =>
             commands'[u] = 1
  BY <1>1, <1>2, <1>3 DEF IInv, TypeOK, TriedInv, UnlockedInv
<1>8. restarts' \in 0..MaxRestarts /\ UNCHANGED <<reloads, forgotten>>
  BY <1>4 DEF worldVars, IInv, TypeOK
<1> QED
  BY <1>4, <1>5, <1>6, <1>7, <1>8, PiKeeps

LEMMA UnlockRaisesKeeps ==
  ASSUME IInv, NEW t \in Transactions, UnlockRaises(t)
  PROVE  IInv'
<1>1. calls[t] > 0 /\ outcome[t] = "none" /\ commands[t] = 0
  BY DEF UnlockRaises, Remembered, IInv, TriedInv
<1>2. /\ calls' = [calls EXCEPT ![t] = @ - 1]
      /\ reply' \in {reply, [reply EXCEPT ![t] = "error"]}
      /\ outcome' = [outcome EXCEPT ![t] = "UNLOCK_FAILED"]
  BY DEF UnlockRaises, Respond
<1>3. PICK n \in {0, 1} : commands' = [commands EXCEPT ![t] = n]
  <2>1. PICK n \in {0, 1} : commands' = [commands EXCEPT ![t] = @ + n]
    BY DEF UnlockRaises
  <2>2. commands' = [commands EXCEPT ![t] = n]
    BY <1>1, <2>1
  <2> QED
    BY <2>2
<1>4. UNCHANGED <<backendVars, pageVars, worldVars>>
  BY DEF UnlockRaises, PiOnly
<1>5. /\ calls' \in [Transactions -> 0..2]
      /\ reply' \in [Transactions -> Replies]
      /\ outcome' \in [Transactions -> {"none", "UNLOCKED", "UNLOCK_FAILED"}]
      /\ commands' \in [Transactions -> Nat]
  BY <1>1, <1>2, <1>3 DEF IInv, TypeOK, Replies
<1>6. \A u \in Transactions : Tried(u)' => Tried(u)
  BY <1>1, <1>2, <1>3 DEF IInv, TypeOK, Tried
<1>7. \A u \in Transactions :
        /\ calls'[u] > 0 /\ outcome'[u] = "none" => commands'[u] = 0
        /\ commands'[u] <= 1
        /\ commands[u] = 1 => commands'[u] = 1
        /\ (reply'[u] \in {"sent", "already"} \/ outcome'[u] = "UNLOCKED") =>
             commands'[u] = 1
  BY <1>1, <1>2, <1>3 DEF IInv, TypeOK, TriedInv, UnlockedInv
<1>8. restarts' \in 0..MaxRestarts /\ UNCHANGED <<reloads, forgotten>>
  BY <1>4 DEF worldVars, IInv, TypeOK
<1> QED
  BY <1>4, <1>5, <1>6, <1>7, <1>8, PiKeeps

LEMMA RepeatCallKeeps ==
  ASSUME IInv, NEW t \in Transactions, RepeatCall(t)
  PROVE  IInv'
<1>1. /\ calls[t] = 1 /\ calls' = [calls EXCEPT ![t] = 2]
      /\ UNCHANGED <<reply, outcome, commands>>
      /\ UNCHANGED <<backendVars, pageVars, worldVars>>
  BY DEF RepeatCall, PiOnly
<1>2. /\ calls' \in [Transactions -> 0..2]
      /\ reply' \in [Transactions -> Replies]
      /\ outcome' \in [Transactions -> {"none", "UNLOCKED", "UNLOCK_FAILED"}]
      /\ commands' \in [Transactions -> Nat]
  BY <1>1 DEF IInv, TypeOK
<1>3. \A u \in Transactions :
        /\ Tried(u)' => Tried(u)
        /\ calls'[u] > 0 /\ outcome'[u] = "none" => commands'[u] = 0
        /\ commands'[u] <= 1
        /\ commands[u] = 1 => commands'[u] = 1
        /\ (reply'[u] \in {"sent", "already"} \/ outcome'[u] = "UNLOCKED") =>
             commands'[u] = 1
  BY <1>1 DEF IInv, TypeOK, Tried, TriedInv, UnlockedInv
<1>4. restarts' \in 0..MaxRestarts /\ UNCHANGED <<reloads, forgotten>>
  BY <1>1 DEF worldVars, IInv, TypeOK
<1> QED
  BY <1>1, <1>2, <1>3, <1>4, PiKeeps

LEMMA PiRestartKeeps ==
  ASSUME IInv, PiRestart
  PROVE  IInv'
<1>1. /\ outcome' = [t \in Transactions |-> "none"]
      /\ calls' = [t \in Transactions |-> 0]
      /\ UNCHANGED commands
      /\ UNCHANGED <<backendVars, pageVars>> /\ UNCHANGED <<reloads, forgotten>>
  BY DEF PiRestart
<1>2. reply' \in {reply, [reply EXCEPT ![awaits] = "error"]}
  BY DEF PiRestart
<1>3. /\ calls' \in [Transactions -> 0..2]
      /\ reply' \in [Transactions -> Replies]
      /\ outcome' \in [Transactions -> {"none", "UNLOCKED", "UNLOCK_FAILED"}]
      /\ commands' \in [Transactions -> Nat]
  BY <1>1, <1>2 DEF IInv, TypeOK, Replies
<1>4. \A u \in Transactions :
        /\ Tried(u)' => Tried(u)
        /\ calls'[u] > 0 /\ outcome'[u] = "none" => commands'[u] = 0
        /\ commands'[u] <= 1
        /\ commands[u] = 1 => commands'[u] = 1
        /\ (reply'[u] \in {"sent", "already"} \/ outcome'[u] = "UNLOCKED") =>
             commands'[u] = 1
  BY <1>1, <1>2 DEF IInv, TypeOK, Tried, TriedInv, UnlockedInv
<1>5. restarts' \in 0..MaxRestarts
  BY BoundsAssumption DEF PiRestart, IInv, TypeOK
<1> QED
  BY <1>1, <1>3, <1>4, <1>5, PiKeeps

-----------------------------------------------------------------------------
(* The invariant *)

LEMMA StutterKeeps ==
  ASSUME IInv, UNCHANGED vars
  PROVE  IInv'
<1>1. UNCHANGED <<backendVars, pageVars, piVars, worldVars>>
  BY DEF vars
<1>2. \A u \in Transactions : Tried(u)' = Tried(u)
  BY <1>1 DEF piVars, Tried
<1>3. restarts' \in 0..MaxRestarts /\ UNCHANGED <<reloads, forgotten>>
  BY <1>1 DEF worldVars, IInv, TypeOK
<1>4. UNCHANGED <<calls, reply, outcome, commands>>
  BY <1>1 DEF piVars
<1> QED
  BY <1>1, <1>2, <1>3, <1>4, PiKeeps DEF IInv, TypeOK, TriedInv, UnlockedInv

LEMMA PageStepKeeps ==
  ASSUME IInv, PageStep
  PROVE  IInv'
BY BuyAnsweredKeeps, BuyFailedKeeps, ReconcileKeeps, ReconcileFailsKeeps, PollKeeps,
   ClickCancelKeeps, CancelConfirmedKeeps, CancelRefusedKeeps, CancelFailedKeeps,
   UnlockAnsweredKeeps, UnlockReplyLostKeeps, DismissKeeps, ReloadKeeps,
   RecoverOpenKeeps, RecoverTriedKeeps
   DEF PageStep

LEMMA PiStepKeeps ==
  ASSUME IInv, PiStep
  PROVE  IInv'
BY RepeatedUnlockKeeps, UnlockUnavailableKeeps, UnlockSentKeeps, UnlockRaisesKeeps,
   RepeatCallKeeps, PiRestartKeeps
   DEF PiStep

LEMMA StepKeeps == IInv /\ [Next]_vars => IInv'
<1> SUFFICES ASSUME IInv, [Next]_vars PROVE IInv'
  OBVIOUS
<1>1. ASSUME NEW t \in Transactions, NEW s \in Slots, Buy(t, s) \/ OpenPayment(t, s)
      PROVE  IInv'
  BY <1>1, BuyKeeps, OpenPaymentKeeps
<1>2. ASSUME NEW t \in Transactions, CancelPayment(t) \/ PaymentResolves(t)
      PROVE  IInv'
  BY <1>2, CancelPaymentKeeps, PaymentResolvesKeeps
<1>3. CASE Refill
  BY <1>3, RefillKeeps
<1>4. CASE PageStep
  BY <1>4, PageStepKeeps
<1>5. CASE PiStep
  BY <1>5, PiStepKeeps
<1>6. CASE UNCHANGED vars
  BY <1>6, StutterKeeps
<1> QED
  BY <1>1, <1>2, <1>3, <1>4, <1>5, <1>6 DEF Next

\* The page, the storage, the Pi and the backend always agree on which doors
\* were tried (AttemptUnlock, Reload, PiRestart and the steps between them).
THEOREM Invariance == Spec => []IInv
<1>1. Init => IInv
  BY InitInv
<1>2. IInv /\ [Next]_vars => IInv'
  BY StepKeeps
<1> QED
  BY <1>1, <1>2, PTL DEF Spec

\* Every variable keeps its type, whatever is lost, repeated or restarted.
THEOREM TypeCorrect == Spec => []TypeOK
<1>1. IInv => TypeOK
  BY DEF IInv
<1> QED
  BY <1>1, Invariance, PTL

\* A door is commanded to open for a confirmed sale only, and once, through
\* any number of reloads of the page and restarts of the Pi
\* (completeConfirmedPayment, /unlock).
THEOREM OpensOnce == Spec => []OpensOnceForASale
<1>1. IInv => OpensOnceForASale
  <2> SUFFICES ASSUME IInv, NEW t \in Transactions
               PROVE  /\ commands[t] <= 1
                      /\ commands[t] = 1 => Answer(t) \in {"sold", "settled"}
    BY DEF OpensOnceForASale
  <2>1. commands[t] = 1 => Tried(t)
    BY DEF Tried
  <2> QED
    BY <2>1 DEF IInv, TriedInv, IsSale
<1> QED
  BY <1>1, Invariance, PTL

\* A door that may have opened is marked in the storage until the customer has
\* been told (beforeUnlockAttempt, recoverSuccessfulPaymentOnce).
THEOREM MarkedFirst == Spec => []MarkBeforeCommand
<1>1. IInv => MarkBeforeCommand
  <2> SUFFICES ASSUME IInv, NEW t \in Transactions,
                      calls[t] > 0 \/ commands[t] > 0, t \notin told, ~ forgotten
               PROVE  saved.sale = t /\ saved.state # "NOT_STARTED"
    BY DEF MarkBeforeCommand
  <2>1. Tried(t)
    BY DEF Tried
  <2>2. saved.sale = t
    BY <2>1, NilIsNoSale DEF IInv, ToldInv, AwaitInv, RecoverInv
  <2> QED
    BY <2>1, <2>2 DEF IInv, SavedInv
<1> QED
  BY <1>1, Invariance, PTL

\* Nobody is thanked whose door was not commanded, and nobody whose door was
\* is told that the payment failed (handleConfirmedPaymentOnce, recover).
THEOREM ScreensTellTheTruth == Spec => []ScreenTellsTheTruth
<1>1. IInv => ScreenTellsTheTruth
  <2> SUFFICES ASSUME IInv PROVE ScreenTellsTheTruth
    OBVIOUS
  <2>1. page.screen = "success" => commands[page.sale] = 1
    BY DEF IInv, UnlockedInv
  <2>2. ASSUME page.screen = "failed" PROVE commands[page.sale] = 0
    <3>1. page.sale \in Transactions /\ ~ IsSale(Answer(page.sale))
      BY <2>2 DEF IInv, PageInv, Lost, IsSale
    <3> QED
      BY <3>1 DEF IInv, TypeOK, TriedInv, Tried
  <2> QED
    BY <2>1, <2>2 DEF ScreenTellsTheTruth
<1> QED
  BY <1>1, Invariance, PTL
-----------------------------------------------------------------------------
(* What a slot holds, and who gets it *)

\* The kiosk and the Pi leave the backend to its own steps.
LEMMA ShopStep ==
  ASSUME [Next]_vars
  PROVE  \/ UNCHANGED <<stock, purchase>>
         \/ Shop!Next
<1>1. ASSUME NEW t \in Transactions, NEW s \in Slots, OpenPayment(t, s)
      PROVE  Shop!Next
  BY <1>1 DEF OpenPayment, Shop!Next
<1>2. ASSUME NEW t \in Transactions, CancelPayment(t)
      PROVE  UNCHANGED <<stock, purchase>> \/ Shop!Next
  BY <1>2 DEF CancelPayment, Shop!Next
<1>3. ASSUME NEW t \in Transactions, PaymentResolves(t)
      PROVE  Shop!Next
  BY <1>3 DEF PaymentResolves, Shop!Next
<1>4. ASSUME Refill PROVE Shop!Next
  BY <1>4 DEF Refill, Shop!Next
<1>5. ASSUME NEW t \in Transactions, NEW s \in Slots, Buy(t, s)
      PROVE  UNCHANGED <<stock, purchase>>
  BY <1>5 DEF Buy
<1>6. ASSUME PageStep PROVE UNCHANGED <<stock, purchase>>
  BY <1>6 DEF PageStep, PageOnly, BuyAnswered, BuyFailed, Reconcile, ReconcileFails,
     Poll, ClickCancel, CancelConfirmed, CancelRefused, CancelFailed, UnlockAnswered,
     UnlockReplyLost, ReadReply, Dismiss, Reload, RecoverOpen, RecoverTried, backendVars
<1>7. ASSUME PiStep PROVE UNCHANGED <<stock, purchase>>
  BY <1>7 DEF PiStep, PiOnly, RepeatedUnlock, UnlockUnavailable, UnlockSent,
     UnlockRaises, RepeatCall, PiRestart, backendVars
<1>8. ASSUME UNCHANGED vars PROVE UNCHANGED <<stock, purchase>>
  BY <1>8 DEF vars, backendVars
<1> QED
  BY <1>1, <1>2, <1>3, <1>4, <1>5, <1>6, <1>7, <1>8 DEF Next

\* The steps after which no slot and no sale is nearer to the other: a purchase
\* that is neither open nor sold takes nothing.
LEMMA ItemsLetGo ==
  ASSUME Shop!TypeOK, ItemInv, UNCHANGED stock, NEW t \in Transactions,
         NEW from, NEW to \in Shop!PurchaseStates \ {"open", "sold"},
         Shop!Move(t, from, to)
  PROVE  ItemInv'
<1>1. /\ purchase'[t].state = to
      /\ \A u \in Transactions : u # t => purchase'[u] = purchase[u]
  BY MoveTypes
<1> QED
  BY <1>1 DEF ItemInv, Answer

LEMMA ItemsStay ==
  ASSUME Shop!TypeOK, ItemInv, UNCHANGED <<stock, purchase>> \/ Shop!Next
  PROVE  ItemInv'
<1>1. ASSUME NEW t \in Transactions, NEW s \in Slots, Shop!Open(t, s)
      PROVE  ItemInv'
  <2>1. /\ purchase'[t] = [slot |-> s, state |-> "open"]
        /\ \A u \in Transactions : u # t => purchase'[u] = purchase[u]
    BY <1>1 DEF Shop!Open, Shop!TypeOK
  <2>2. \A u \in Transactions : purchase[u].slot = s => Answer(u) # "open"
    BY <1>1 DEF Shop!Open, Answer
  <2>3. UNCHANGED stock
    BY <1>1 DEF Shop!Open
  <2> QED
    BY <2>1, <2>2, <2>3 DEF ItemInv, Answer
<1>2. ASSUME NEW t \in Transactions, Shop!Sell(t)
      PROVE  ItemInv'
  <2>1. /\ "sold" \in Shop!PurchaseStates
        /\ Shop!Move(t, {"open"}, "sold")
    BY <1>2 DEF Shop!Sell, Shop!PurchaseStates
  <2>2. /\ Answer(t) = "open"
        /\ purchase'[t] = [slot |-> purchase[t].slot, state |-> "sold"]
        /\ \A u \in Transactions : u # t => purchase'[u] = purchase[u]
    BY <2>1 DEF Shop!Move, Shop!TypeOK, Answer
  <2>3. /\ purchase[t].slot \in Slots
        /\ stock[purchase[t].slot] = "AVAILABLE"
        /\ stock' = [stock EXCEPT ![purchase[t].slot] = "SOLD_OUT"]
    BY <1>2, <2>2 DEF Shop!Sell, ItemInv
  <2>4. \A u \in Transactions :
          Answer(u) = "sold" => purchase[u].slot # purchase[t].slot
    BY <2>3 DEF ItemInv
  <2>5. \A u \in Transactions :
          Answer(u)' = "sold" => stock'[purchase'[u].slot] = "SOLD_OUT"
    BY <2>2, <2>3 DEF ItemInv, Answer, Shop!TypeOK
  <2> QED
    BY <2>2, <2>3, <2>4, <2>5 DEF ItemInv, Answer
<1>3. ASSUME NEW t \in Transactions, Shop!Close(t) PROVE ItemInv'
  <2>1. "closed" \in Shop!PurchaseStates \ {"open", "sold"}
    BY DEF Shop!PurchaseStates
  <2> QED
    BY <1>3, <2>1, ItemsLetGo DEF Shop!Close
<1>4. ASSUME NEW t \in Transactions, Shop!Abandon(t) PROVE ItemInv'
  <2>1. "abandoned" \in Shop!PurchaseStates \ {"open", "sold"}
    BY DEF Shop!PurchaseStates
  <2> QED
    BY <1>4, <2>1, ItemsLetGo DEF Shop!Abandon
<1>5. ASSUME NEW t \in Transactions, Shop!PayTooLate(t) PROVE ItemInv'
  <2>1. "refundDue" \in Shop!PurchaseStates \ {"open", "sold"}
    BY DEF Shop!PurchaseStates
  <2> QED
    BY <1>5, <2>1, ItemsLetGo DEF Shop!PayTooLate
<1>6. ASSUME Shop!Restock PROVE ItemInv'
  <2>1. \A u \in Transactions :
          /\ Answer(u)' # "sold"
          /\ Answer(u)' = "open" => purchase'[u] = purchase[u]
    BY <1>6 DEF Shop!Restock, Answer
  <2> QED
    BY <2>1 DEF ItemInv, Answer
<1>7. ASSUME UNCHANGED <<stock, purchase>> PROVE ItemInv'
  BY <1>7 DEF ItemInv, Answer
<1> QED
  BY <1>1, <1>2, <1>3, <1>4, <1>5, <1>6, <1>7 DEF Shop!Next

LEMMA ItemsAreHeld == Spec => []ItemInv
<1>1. Init => ItemInv
  BY DEF Init, Shop!Init, ItemInv, Answer
<1>2. IInv /\ ItemInv /\ [Next]_vars => ItemInv'
  BY ShopStep, ItemsStay DEF IInv, TypeOK
<1> QED
  BY <1>1, <1>2, Invariance, PTL DEF Spec

\* The door of a slot is commanded for one customer between two refills, although
\* payments of the slot are abandoned, paid late and opened again, the page
\* reloads and the Pi restarts (completeConfirmedPayment, /unlock, and what the
\* backend promises in module Sale).
THEOREM OneDoor == Spec => []OneDoorPerItem
<1>1. IInv /\ ItemInv => OneDoorPerItem
  <2> SUFFICES ASSUME IInv, ItemInv,
                      NEW t \in Transactions, NEW u \in Transactions,
                      t # u, purchase[t].slot = purchase[u].slot,
                      commands[t] > 0, commands[u] > 0
               PROVE  Answer(t) = "settled" \/ Answer(u) = "settled"
    BY DEF OneDoorPerItem
  <2>1. IsSale(Answer(t)) /\ IsSale(Answer(u))
    BY DEF IInv, TriedInv, Tried
  <2> QED
    BY <2>1 DEF IsSale, ItemInv
<1> QED
  BY <1>1, Invariance, ItemsAreHeld, PTL
=============================================================================
