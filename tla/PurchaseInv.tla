---------------------------- MODULE PurchaseInv ----------------------------
(***************************************************************************)
(* The inductive invariant of KioskPurchase: what the storage, the page    *)
(* and the Pi know together of a door that was tried.                      *)
(***************************************************************************)
EXTENDS KioskPurchase

\* An unlock of sale t has left the page, and the Pi has not forgotten it
\* before it did anything.
Tried(t) == calls[t] > 0 \/ commands[t] > 0 \/ outcome[t] # "none"

Lost == {"closed", "abandoned", "refundDue"}

PageInv ==
  /\ page.screen = "idle" => page = Idle
  /\ page.screen # "idle" => page.sale \in Transactions
  /\ page.screen # "recovering" => page.from = "NOT_STARTED"
  /\ page.screen = "unlocking" => page.sale \in attempted
  /\ page.screen = "failed" => Answer(page.sale) \in Lost

\* A sale is tried once it is confirmed, never before its page is done with
\* waiting for it, and commanded while nobody remembers a command.
TriedInv ==
  /\ \A t \in Transactions :
       /\ Tried(t) => IsSale(Answer(t))
       /\ calls[t] > 0 /\ outcome[t] = "none" => commands[t] = 0
       /\ commands[t] <= 1
  /\ page.screen \in {"creating", "waiting", "reconciling"} => ~ Tried(page.sale)

\* The entry of a sale that was tried carries the mark.
SavedInv ==
  /\ saved.sale = Nil => saved = Nothing
  /\ \A t \in Transactions :
       Tried(t) /\ saved.sale = t => saved.state # "NOT_STARTED"

\* What is called unlocked was commanded.
UnlockedInv ==
  /\ saved.state = "UNLOCKED" => commands[saved.sale] = 1
  /\ \A t \in Transactions :
       (reply[t] \in {"sent", "already"} \/ outcome[t] = "UNLOCKED") =>
         commands[t] = 1
  /\ page.screen = "success" => commands[page.sale] = 1

\* While the page awaits the Pi it stays with the sale, and so does the mark.
AwaitInv ==
  awaits # Nil =>
    /\ IsSale(Answer(awaits))
    /\ saved = [sale |-> awaits, state |-> "ATTEMPTING"]
    /\ page \in {Shows("unlocking", awaits), Shows("assistance", awaits)}

\* A cancellation is awaited by the page that waits for the payment, or too
\* late.
CancelInv ==
  cancelling # Nil => cancelling \in attempted \/ page = Shows("waiting", cancelling)

\* A page that recovers shows what is saved, and does nothing else.
RecoverInv ==
  page.screen = "recovering" =>
    /\ saved = [sale |-> page.sale, state |-> page.from]
    /\ cancelling = Nil

\* A sale that was tried and whose customer was not told is still at hand.
ToldInv ==
  \A t \in Transactions : Tried(t) /\ t \notin told /\ ~ forgotten =>
    awaits = t \/ (page.screen = "recovering" /\ page.sale = t)

\* The backend sells what a slot holds to one customer: a payment that is open
\* or sold has the slot for itself among its like, and what is sold is gone.
ItemInv ==
  \A t \in Transactions :
    /\ Answer(t) \in {"open", "sold"} => purchase[t].slot \in Slots
    /\ Answer(t) = "sold" => stock[purchase[t].slot] = "SOLD_OUT"
    /\ \A u \in Transactions :
         t # u /\ purchase[t].slot = purchase[u].slot /\ Answer(t) = Answer(u)
           => Answer(t) \notin {"open", "sold"}

IInv ==
  /\ TypeOK /\ PageInv /\ TriedInv /\ SavedInv /\ UnlockedInv
  /\ AwaitInv /\ CancelInv /\ RecoverInv /\ ToldInv
=============================================================================
