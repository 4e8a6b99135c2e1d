--------------------------- MODULE KioskPurchase ---------------------------
(***************************************************************************)
(* A purchase at the kiosk, from the choice of a slot to the opened door:  *)
(* the page (HomePage.tsx, payment-flow.mjs, active-payment-recovery.mjs), *)
(* the browser storage that survives a reload of the page, the /unlock     *)
(* service of the Raspberry Pi with its memory of what it did.  The        *)
(* payment backend is what module Sale promises of it (module Payment      *)
(* implements that promise); the serial line below the Pi, which is the    *)
(* business of module RestockUnlock, is up or down at any moment.          *)
(*                                                                         *)
(* Any reply may be lost, any storage call may fail with or without        *)
(* effect, the page may reload and the Pi may restart between any two      *)
(* steps.  The backend's answer to a status request is read when the page  *)
(* acts on it: "sold" and "abandoned" are final, and an older "open" only  *)
(* makes the page ask again.                                               *)
(***************************************************************************)
EXTENDS Naturals

CONSTANTS
  Slots, Transactions, Nil,
  MaxReloads,    \* reloads of the page
  MaxRestarts    \* restarts of the Pi's service

ASSUME BoundsAssumption == MaxReloads \in Nat /\ MaxRestarts \in Nat
ASSUME NilAssumption == Transactions \subseteq Nat /\ Nil \notin Transactions

VARIABLES
  stock, purchase,  \* the backend, as in Sale
  orders,           \* requests to create a payment, on their way
  cancels,          \* requests to cancel one, on their way
  saved,            \* the active payment in localStorage
  page,             \* what the page shows, and for which sale
  cancelling,       \* the sale whose cancellation the page awaits
  awaits,           \* the sale whose unlock the page awaits
  attempted,        \* unlockAttemptedTransactionIds of this page
  calls,            \* unlock requests on their way to the Pi, by sale
  reply,            \* the Pi's reply the page has yet to read
  outcome,          \* unlock_transaction_outcomes, in the Pi's memory
  reloads, restarts,
  commands,         \* history: OPEN commands written for a sale
  told,             \* history: sales whose customer was told the outcome
  forgotten         \* history: a reload could not read the storage

backendVars == <<stock, purchase, orders, cancels>>
pageVars == <<saved, page, cancelling, awaits, attempted, told>>
piVars == <<calls, reply, outcome, commands>>
worldVars == <<reloads, restarts, forgotten>>
vars == <<backendVars, pageVars, piVars, worldVars>>

Shop == INSTANCE Sale

Fulfilment == {"NOT_STARTED", "ATTEMPTING", "UNLOCKED", "UNLOCK_FAILED"}

Screens == {"idle", "creating", "waiting", "reconciling", "blocked",
            "unlocking", "success", "failed", "unlock-failed", "assistance",
            "recovering"}

Replies == {"none", "sent", "already", "uncertain", "error"}

Nothing == [sale |-> Nil, state |-> "NOT_STARTED"]

Idle == [screen |-> "idle", sale |-> Nil, from |-> "NOT_STARTED"]

Shows(screen, t) == [screen |-> screen, sale |-> t, from |-> "NOT_STARTED"]

TypeOK ==
  /\ Shop!TypeOK
  /\ orders \in SUBSET (Transactions \X Slots)
  /\ cancels \in SUBSET Transactions
  /\ saved \in [sale : Transactions \union {Nil}, state : Fulfilment]
  /\ page \in [screen : Screens, sale : Transactions \union {Nil},
               from : Fulfilment]
  /\ cancelling \in Transactions \union {Nil}
  /\ awaits \in Transactions \union {Nil}
  /\ attempted \in SUBSET Transactions
  /\ calls \in [Transactions -> 0..2]
  /\ reply \in [Transactions -> Replies]
  /\ outcome \in [Transactions -> {"none", "UNLOCKED", "UNLOCK_FAILED"}]
  /\ reloads \in 0..MaxReloads
  /\ restarts \in 0..MaxRestarts
  /\ commands \in [Transactions -> Nat]
  /\ told \in SUBSET Transactions
  /\ forgotten \in BOOLEAN

Init ==
  /\ Shop!Init
  /\ orders = {}
  /\ cancels = {}
  /\ saved = Nothing
  /\ page = Idle
  /\ cancelling = Nil
  /\ awaits = Nil
  /\ attempted = {}
  /\ calls = [t \in Transactions |-> 0]
  /\ reply = [t \in Transactions |-> "none"]
  /\ outcome = [t \in Transactions |-> "none"]
  /\ reloads = 0
  /\ restarts = 0
  /\ commands = [t \in Transactions |-> 0]
  /\ told = {}
  /\ forgotten = FALSE

-----------------------------------------------------------------------------
(* What the backend answers about a sale *)

Answer(t) == purchase[t].state

CustomerCancelled == {"abandoned", "refundDue"}

-----------------------------------------------------------------------------
(* The storage of the browser *)

\* Faulty: trusts that what it wrote is there.
Persisted_trusting(t, state) ==
  { [ok |-> TRUE, saved |-> now] :
      now \in {saved, [sale |-> t, state |-> state]} }

\* persistActivePayment: it succeeds only if the entry can be read back;
\* when it fails the entry may have been written all the same.
Persisted(t, state) ==
  LET new == [sale |-> t, state |-> state]
  IN  { [ok |-> TRUE, saved |-> new],
        [ok |-> FALSE, saved |-> new],
        [ok |-> FALSE, saved |-> saved] }

\* clearActivePayment: only the entry of that sale, and it may fail.
Clear(t) == saved' \in IF saved.sale = t THEN {Nothing, saved} ELSE {saved}

-----------------------------------------------------------------------------
(* The page *)

Tell(screen, t) ==
  /\ page' = Shows(screen, t)
  /\ told' = told \union {t}

Close(t) ==
  /\ Clear(t)
  /\ page' = Idle
  /\ UNCHANGED told

\* Faulty: an attempt that was begun is made again.
RecoveryScreen_retry(state) ==
  CASE state \in {"NOT_STARTED", "ATTEMPTING"} -> "unlocking"
    [] state = "UNLOCKED"                      -> "success"
    [] state = "UNLOCK_FAILED"                 -> "unlock-failed"

\* getSuccessfulPaymentRecoveryAction: what a confirmed sale is shown as,
\* by the state of its entry; "unlocking" means that the door is tried.
RecoveryScreen(state) ==
  CASE state = "NOT_STARTED"   -> "unlocking"
    [] state = "ATTEMPTING"    -> "assistance"
    [] state = "UNLOCKED"      -> "success"
    [] state = "UNLOCK_FAILED" -> "unlock-failed"

\* handleConfirmedPaymentOnce: the mark is written before the Pi is called,
\* and without the mark the Pi is not called.
AttemptUnlock(t) ==
  /\ attempted' = attempted \union {t}
  /\ \E p \in Persisted(t, "ATTEMPTING") :
       /\ saved' = p.saved
       /\ \/ /\ p.ok
             /\ page' = Shows("unlocking", t)
             /\ awaits' = t
             /\ calls' = [calls EXCEPT ![t] = 1]
             /\ UNCHANGED told
          \/ /\ ~ p.ok
             /\ Tell("assistance", t)
             /\ UNCHANGED <<awaits, calls>>

\* The entry of sale t as the page reads it now: none counts as untouched.
Entry(t) == IF saved.sale = t THEN saved.state ELSE "NOT_STARTED"

Restore(t, state) ==
  /\ Tell(RecoveryScreen(state), t)
  /\ UNCHANGED <<saved, awaits, attempted, calls>>

\* completeConfirmedPayment, for a sale that is not cancelled.
Complete(t) ==
  \/ /\ RecoveryScreen(Entry(t)) # "unlocking"
     /\ Restore(t, Entry(t))
  \/ /\ RecoveryScreen(Entry(t)) = "unlocking"
     /\ t \notin attempted
     /\ AttemptUnlock(t)
  \/ /\ RecoveryScreen(Entry(t)) = "unlocking"
     /\ t \in attempted
     /\ UNCHANGED <<saved, page, told, awaits, attempted, calls>>

\* Faulty: any SUCCESS, also that of a cancelled payment.
IsSale_success(state) == state \in {"sold", "settled", "refundDue"}

\* SUCCESS and not cancelled; the slot may have been refilled since.
IsSale(state) == state \in {"sold", "settled"}

\* The page learns how sale t stands and acts on it.  An open sale is shown
\* as the screen "pending", which depends on who asked.
ActOn(t, pending) ==
  \/ /\ Answer(t) \in CustomerCancelled
     /\ ~ IsSale(Answer(t))
     /\ Close(t)
     /\ UNCHANGED <<awaits, attempted, calls>>
  \/ /\ IsSale(Answer(t))
     /\ Complete(t)
  \/ /\ Answer(t) = "closed"
     /\ page' = Shows("failed", t)
     /\ UNCHANGED <<saved, told, awaits, attempted, calls>>
  \/ /\ Answer(t) = "open"
     /\ page' = pending
     /\ UNCHANGED <<saved, told, awaits, attempted, calls>>

PageOnly ==
  UNCHANGED <<stock, purchase, orders, reply, outcome, commands,
              worldVars>>

\* Transaction ids are given in order.
IsNew(t) ==
  LET Used(u) == Answer(u) # "none" \/ \E s \in Slots : <<u, s>> \in orders
  IN  ~ Used(t) /\ \A u \in Transactions : u < t => Used(u)

\* handleBuy, up to the request.
Buy(t, s) ==
  /\ page = Idle
  /\ IsNew(t)
  /\ page' = Shows("creating", t)
  /\ orders' = orders \union {<<t, s>>}
  /\ UNCHANGED <<stock, purchase, cancels, saved, cancelling, awaits,
                 attempted, told, piVars, worldVars>>

\* handleBuy: the payment exists.  If it cannot be remembered, the page asks
\* for its cancellation (reconcileUnpersistedPayment) and shows no code.
BuyAnswered ==
  LET t == page.sale IN
  /\ page.screen = "creating"
  /\ Answer(t) # "none"
  /\ \E p \in Persisted(t, "NOT_STARTED") :
       /\ saved' = p.saved
       /\ IF p.ok
          THEN /\ page' = Shows(IF Answer(t) = "closed" THEN "failed"
                                                        ELSE "waiting", t)
               /\ UNCHANGED cancels
          ELSE /\ page' = Shows("reconciling", t)
               /\ cancels' = cancels \union {t}
  /\ UNCHANGED <<cancelling, awaits, attempted, told, calls>>
  /\ PageOnly

\* The request failed, or its reply is lost.
BuyFailed ==
  /\ page.screen = "creating"
  /\ page' = Idle
  /\ UNCHANGED <<cancels, saved, cancelling, awaits, attempted, told, calls>>
  /\ PageOnly

\* The cancellation was answered or not; the page then asks for the status.
\* What is still open stays blocked until somebody reloads the page.
Reconcile ==
  /\ page.screen = "reconciling"
  /\ ActOn(page.sale, Shows("blocked", page.sale))
  /\ UNCHANGED <<cancels, cancelling>>
  /\ PageOnly

ReconcileFails ==
  /\ page.screen = "reconciling"
  /\ page' = Shows("blocked", page.sale)
  /\ UNCHANGED <<cancels, saved, cancelling, awaits, attempted, told, calls>>
  /\ PageOnly

\* The poll of a waiting page; it is suspended while a cancellation is
\* awaited.  A poll that fails changes nothing.
Poll ==
  /\ page.screen = "waiting"
  /\ cancelling # page.sale
  /\ Answer(page.sale) # "open"
  /\ ActOn(page.sale, page)
  /\ UNCHANGED <<cancels, cancelling>>
  /\ PageOnly

\* handleCancelPayment.  The button may still be hit when a poll has just
\* confirmed the payment and its screen is not drawn yet.
ClickCancel ==
  /\ page.screen \in {"waiting", "unlocking"}
  /\ cancelling = Nil
  /\ cancelling' = page.sale
  /\ cancels' = cancels \union {page.sale}
  /\ UNCHANGED <<saved, page, awaits, attempted, told, calls>>
  /\ PageOnly

CancelConfirmed ==
  LET t == cancelling IN
  /\ t # Nil
  /\ t \notin cancels
  /\ Answer(t) \in CustomerCancelled
  /\ cancelling' = Nil
  /\ Clear(t)
  /\ page' = IF page = Shows("waiting", t) THEN Idle ELSE page
  /\ UNCHANGED <<cancels, awaits, attempted, told, calls>>
  /\ PageOnly

\* PAYMENT_ALREADY_CONFIRMED: the page asks for the status and acts on it.
CancelRefused ==
  LET t == cancelling IN
  /\ t # Nil
  /\ t \notin cancels
  /\ IsSale(Answer(t))
  /\ cancelling' = Nil
  /\ Complete(t)
  /\ UNCHANGED cancels
  /\ PageOnly

\* Faulty: the page goes on waiting for the cancellation.
AfterCancel_stuck == cancelling

\* In the end (finally) no cancellation is awaited, and polls are resumed.
AfterCancel == Nil

\* Any other reply, or none: the page waits and polls again.
CancelFailed ==
  /\ cancelling # Nil
  /\ cancelling' = AfterCancel
  /\ UNCHANGED <<cancels, saved, page, awaits, attempted, told, calls>>
  /\ PageOnly

\* Faulty: what the Pi did before counts as done.
ReplyScreen_deduplicated(r) ==
  IF r = "error" THEN "unlock-failed" ELSE "success"

\* handleConfirmedPaymentOnce, after the reply.
ReplyScreen(r) ==
  CASE r \in {"sent", "already"} -> "success"
    [] r = "uncertain"           -> "assistance"
    [] r = "error"               -> "unlock-failed"

\* Faulty: writes what it shows.
ReplySaved_screen(t, screen) == {[sale |-> t, state |-> screen]}

\* onUnlockSucceeded and onUnlockRejected write the entry, and nobody looks
\* whether they could.
ReplySaved(t, screen) ==
  CASE screen = "success" ->
         {p.saved : p \in Persisted(t, "UNLOCKED")}
    [] screen = "unlock-failed" ->
         {p.saved : p \in Persisted(t, "UNLOCK_FAILED")}
    [] screen = "assistance" -> {saved}

ReadReply(r) ==
  LET t == awaits IN
  /\ saved' \in ReplySaved(t, ReplyScreen(r))
  /\ Tell(ReplyScreen(r), t)
  /\ awaits' = Nil
  /\ reply' = [reply EXCEPT ![t] = "none"]
  /\ UNCHANGED <<backendVars, cancelling, attempted, calls, outcome,
                 commands, worldVars>>

UnlockAnswered ==
  /\ awaits # Nil
  /\ reply[awaits] # "none"
  /\ ReadReply(reply[awaits])

\* The connection to the Pi is lost, whatever becomes of the request.
UnlockReplyLost ==
  /\ awaits # Nil
  /\ ReadReply("error")

\* The timers of the three closing screens.
Dismiss ==
  /\ page.screen \in {"success", "failed", "unlock-failed"}
  /\ Close(page.sale)
  /\ UNCHANGED <<cancels, cancelling, awaits, attempted, calls>>
  /\ PageOnly

\* A reload forgets all but the storage, and a storage that cannot be read
\* counts as empty.
Reload ==
  /\ reloads < MaxReloads
  /\ reloads' = reloads + 1
  /\ \/ /\ page' = IF saved = Nothing THEN Idle
                   ELSE [screen |-> "recovering", sale |-> saved.sale,
                         from |-> saved.state]
        /\ UNCHANGED forgotten
     \/ /\ saved # Nothing
        /\ page' = Idle
        /\ forgotten' = TRUE
  /\ cancelling' = Nil
  /\ awaits' = Nil
  /\ attempted' = {}
  /\ reply' = [t \in Transactions |-> "none"]
  /\ UNCHANGED <<backendVars, saved, told, calls, outcome, commands,
                 restarts>>

\* recover, for a sale that was not confirmed or not yet tried.
RecoverOpen ==
  LET t == page.sale IN
  /\ page.screen = "recovering"
  /\ IsSale(Answer(t)) => RecoveryScreen(page.from) = "unlocking"
  /\ ActOn(t, Shows("waiting", t))
  /\ UNCHANGED <<cancels, cancelling>>
  /\ PageOnly

\* recover, for a confirmed sale whose door was tried: the entry that was
\* read at startup decides.
RecoverTried ==
  /\ page.screen = "recovering"
  /\ IsSale(Answer(page.sale))
  /\ RecoveryScreen(page.from) # "unlocking"
  /\ Restore(page.sale, page.from)
  /\ UNCHANGED <<cancels, cancelling>>
  /\ PageOnly

-----------------------------------------------------------------------------
(* The backend *)

BackendOnly == UNCHANGED <<pageVars, piVars, worldVars>>

OpenPayment(t, s) ==
  /\ <<t, s>> \in orders
  /\ orders' = orders \ {<<t, s>>}
  /\ Shop!Open(t, s)
  /\ UNCHANGED cancels
  /\ BackendOnly

\* A cancellation that finds the payment confirmed is refused.
CancelPayment(t) ==
  /\ t \in cancels
  /\ cancels' = cancels \ {t}
  /\ \/ Shop!Abandon(t)
     \/ /\ Answer(t) \in {"sold", "settled"} \union CustomerCancelled
        /\ UNCHANGED <<stock, purchase>>
  /\ UNCHANGED orders
  /\ BackendOnly

PaymentResolves(t) ==
  /\ \/ Shop!Sell(t)
     \/ Shop!Close(t)
     \/ Shop!PayTooLate(t)
  /\ UNCHANGED <<orders, cancels>>
  /\ BackendOnly

\* Staff refill the cabinet between two customers.
Refill ==
  /\ page = Idle
  /\ Shop!Restock
  /\ UNCHANGED <<orders, cancels>>
  /\ BackendOnly

-----------------------------------------------------------------------------
(* The Pi *)

PiOnly ==
  /\ UNCHANGED <<backendVars, pageVars>>
  /\ UNCHANGED worldVars

\* Only a page that still waits reads the reply.
Respond(t, r) ==
  /\ calls' = [calls EXCEPT ![t] = @ - 1]
  /\ reply' = IF awaits = t THEN [reply EXCEPT ![t] = r] ELSE reply

\* The Pi knows what became of an earlier request for this sale.
Remembered(t) == outcome[t] # "none"

\* /unlock is served one request at a time.
RepeatedUnlock(t) ==
  /\ calls[t] > 0
  /\ Remembered(t)
  /\ Respond(t, IF outcome[t] = "UNLOCKED" THEN "already" ELSE "uncertain")
  /\ UNCHANGED <<outcome, commands>>
  /\ PiOnly

\* The serial line is down or taken: nothing is remembered.
UnlockUnavailable(t) ==
  /\ calls[t] > 0
  /\ ~ Remembered(t)
  /\ Respond(t, "error")
  /\ UNCHANGED <<outcome, commands>>
  /\ PiOnly

UnlockSent(t) ==
  /\ calls[t] > 0
  /\ ~ Remembered(t)
  /\ commands' = [commands EXCEPT ![t] = @ + 1]
  /\ outcome' = [outcome EXCEPT ![t] = "UNLOCKED"]
  /\ Respond(t, "sent")
  /\ PiOnly

\* The write raises; the command may have left before it did.
UnlockRaises(t) ==
  /\ calls[t] > 0
  /\ ~ Remembered(t)
  /\ \E n \in {0, 1} : commands' = [commands EXCEPT ![t] = @ + n]
  /\ outcome' = [outcome EXCEPT ![t] = "UNLOCK_FAILED"]
  /\ Respond(t, "error")
  /\ PiOnly

\* The request is repeated on its way, before an answer has been read.
RepeatCall(t) ==
  /\ calls[t] = 1
  /\ awaits = t
  /\ calls' = [calls EXCEPT ![t] = 2]
  /\ UNCHANGED <<reply, outcome, commands>>
  /\ PiOnly

\* The service restarts: it forgets, and its connections break.
PiRestart ==
  /\ restarts < MaxRestarts
  /\ restarts' = restarts + 1
  /\ outcome' = [t \in Transactions |-> "none"]
  /\ calls' = [t \in Transactions |-> 0]
  /\ reply' = IF awaits # Nil /\ calls[awaits] > 0
              THEN [reply EXCEPT ![awaits] = "error"] ELSE reply
  /\ UNCHANGED <<backendVars, pageVars, reloads, forgotten, commands>>

-----------------------------------------------------------------------------

PageStep ==
  \/ BuyAnswered \/ BuyFailed \/ Reconcile \/ ReconcileFails
  \/ Poll
  \/ ClickCancel \/ CancelConfirmed \/ CancelRefused \/ CancelFailed
  \/ UnlockAnswered \/ UnlockReplyLost
  \/ Dismiss
  \/ Reload \/ RecoverOpen \/ RecoverTried

PiStep ==
  \/ \E t \in Transactions :
       \/ RepeatedUnlock(t) \/ UnlockUnavailable(t)
       \/ UnlockSent(t) \/ UnlockRaises(t) \/ RepeatCall(t)
  \/ PiRestart

Next ==
  \/ \E t \in Transactions, s \in Slots : Buy(t, s) \/ OpenPayment(t, s)
  \/ \E t \in Transactions : CancelPayment(t) \/ PaymentResolves(t)
  \/ Refill
  \/ PageStep
  \/ PiStep

Spec == Init /\ [][Next]_vars

\* The page's timers run and its requests return; not every poll fails,
\* also if the customer keeps trying to cancel; the Pi answers.
Fairness ==
  /\ SF_vars(Poll)
  /\ WF_vars(CancelFailed)
  /\ WF_vars(UnlockAnswered)
  /\ WF_vars(RecoverOpen \/ RecoverTried)
  /\ WF_vars(Dismiss)
  /\ \A t \in Transactions : WF_vars(RepeatedUnlock(t) \/ UnlockUnavailable(t))

FairSpec == Spec /\ Fairness

-----------------------------------------------------------------------------
(* Properties *)

\* The door is commanded to open only for a sale that is confirmed and not
\* cancelled, and at most once for each, although the page reloads, requests
\* are repeated and the Pi forgets (completeConfirmedPayment, /unlock).
OpensOnceForASale ==
  \A t \in Transactions :
    /\ commands[t] <= 1
    /\ commands[t] = 1 => Answer(t) \in {"sold", "settled"}

\* The item that a refill puts into a slot opens its door for one customer: of
\* two sales of a slot whose doors were commanded, one was sold before the
\* last refill.  It takes the backend, which sells a slot once and keeps the
\* late money of an abandoned payment apart (cancelledAt), and the page, which
\* heeds the difference (getPaymentRecoveryAction).
OneDoorPerItem ==
  \A t, u \in Transactions :
    /\ t # u /\ purchase[t].slot = purchase[u].slot
    /\ commands[t] > 0 /\ commands[u] > 0
    => "settled" \in {Answer(t), Answer(u)}

\* Whoever is thanked was sent a command to his door, and who is told that
\* the payment failed was not (handleConfirmedPaymentOnce, recover).
ScreenTellsTheTruth ==
  /\ page.screen = "success" => commands[page.sale] = 1
  /\ page.screen = "failed" => commands[page.sale] = 0

\* From the call to the Pi until its customer is told the outcome, the storage
\* holds the mark of the attempt: a page that reloads knows that the door
\* may have opened (beforeUnlockAttempt, recoverSuccessfulPaymentOnce).
MarkBeforeCommand ==
  \A t \in Transactions :
    (calls[t] > 0 \/ commands[t] > 0) /\ t \notin told =>
      \/ saved.sale = t /\ saved.state # "NOT_STARTED"
      \/ forgotten

\* A customer who was shown the code and whose payment is confirmed is told in
\* the end how it went, unless a reload could not read the storage (poll,
\* recover, handleConfirmedPaymentOnce).
PaidIsConcluded ==
  \A t \in Transactions :
    (page = Shows("waiting", t) /\ IsSale(Answer(t)))
      ~> (t \in told \/ forgotten)
=============================================================================
