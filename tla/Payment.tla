------------------------------ MODULE Payment ------------------------------
(***************************************************************************)
(* The PromptPay payment backend: transaction.service.ts over PostgreSQL,  *)
(* the Opn provider it calls, and the restock commit that refills slots.   *)
(*                                                                         *)
(* Every database call of the store is one step.  A handler is a sequence  *)
(* of such steps and of provider calls: between two of its awaits any      *)
(* other handler may run, and it may end early (Abort) because the         *)
(* process stops, a database or provider call throws, or a returned charge *)
(* fails validation.  What a handler keeps across an await is in           *)
(* request[r]; everything else is read again from the row, as in the code. *)
(*                                                                         *)
(* A charge is named by the transaction whose one creation call made it.   *)
(* Amounts, QR images, names and expiry times are left out.                *)
(***************************************************************************)
EXTENDS Naturals

CONSTANTS
  Slots,         \* the machine's slots
  Transactions,  \* ids of rows of the Transaction table
  Requests,      \* handlers that can be in progress at the same time
  Nil            \* the absent slot or transaction

ASSUME NilAssumption == Nil \notin Slots /\ Nil \notin Transactions

VARIABLES
  slotStatus,  \* Slot.status
  payment,     \* the rows of the Transaction table
  charge,      \* the provider's charges, by the transaction they are for
  request,     \* the handlers in progress
  settled,     \* history: the payments that were SUCCESS at the last restock
  notices      \* how often the sale notification of a payment was sent

vars == <<slotStatus, payment, charge, request, settled, notices>>

-----------------------------------------------------------------------------
(* Types *)

SlotStatuses == {"AVAILABLE", "SOLD_OUT"}

PaymentStatuses == {"PENDING", "SUCCESS", "FAILED", "EXPIRED"}

\* What a retrieved charge says.
ProviderStatuses == {"pending", "successful", "failed", "expired"}

FinalProviderStatuses == ProviderStatuses \ {"pending"}

\* paymentStatus is "NONE" until the row is created.
PaymentRecord ==
  [ slotId          : Slots \union {Nil},
    paymentStatus   : PaymentStatuses \union {"NONE"},
    chargeSaved     : BOOLEAN,               \* providerChargeId is not null
    providerStatus  : ProviderStatuses \union {"none", "creation_failed"},
    cancelled       : BOOLEAN,               \* customerCancelledAt is not null
    notifyAttempted : BOOLEAN ]              \* saleNotificationAttemptedAt

NoPayment ==
  [ slotId |-> Nil, paymentStatus |-> "NONE", chargeSaved |-> FALSE,
    providerStatus |-> "none", cancelled |-> FALSE, notifyAttempted |-> FALSE ]

\* op: the handler; at: the await it has reached; tx: its transaction;
\* provider: the status in the provider's reply it holds.
Operations == {"none", "create", "reconcile", "cancel"}

Awaits == {"idle", "createCharge", "creationFailed", "save", "retrieve",
           "apply", "abandon", "claim", "send"}

Reports == ProviderStatuses \union {"none"}

RequestRecord ==
  [ op       : Operations,
    at       : Awaits,
    tx       : Transactions \union {Nil},
    provider : Reports ]

Idle == [op |-> "none", at |-> "idle", tx |-> Nil, provider |-> "none"]

TypeOK ==
  /\ slotStatus \in [Slots -> SlotStatuses]
  /\ payment \in [Transactions -> PaymentRecord]
  /\ charge \in [Transactions -> Reports]
  /\ request \in [Requests -> RequestRecord]
  /\ settled \in SUBSET Transactions
  /\ notices \in [Transactions -> Nat]

Init ==
  /\ slotStatus = [s \in Slots |-> "AVAILABLE"]
  /\ payment = [t \in Transactions |-> NoPayment]
  /\ charge = [t \in Transactions |-> "none"]
  /\ request = [r \in Requests |-> Idle]
  /\ settled = {}
  /\ notices = [t \in Transactions |-> 0]

-----------------------------------------------------------------------------
(* What the handlers ask of a row *)

Exists(t) == payment[t].paymentStatus # "NONE"

\* The rows that configureSlot, createPendingPayment and the restock grant
\* call an active payment.
IsOpen(t) == payment[t].paymentStatus = "PENDING" /\ ~ payment[t].cancelled

\* Faulty: forgets that an earlier payment may still be paid.
SlotIsFree_ignoringPending(s) == slotStatus[s] = "AVAILABLE"

SlotIsFree(s) ==
  /\ slotStatus[s] = "AVAILABLE"
  /\ \A t \in Transactions : ~ (IsOpen(t) /\ payment[t].slotId = s)

\* Faulty: trusts the newest report, so a late "pending" reopens a payment.
StatusAfter_reopening(current, reported) ==
  CASE reported = "successful" -> "SUCCESS"
    [] reported = "failed"     -> "FAILED"
    [] reported = "expired"    -> "EXPIRED"
    [] reported = "pending"    -> "PENDING"

\* Faulty: keeps the provider's word.
StatusAfter_unmapped(current, reported) ==
  IF reported = "pending" THEN current ELSE reported

\* Faulty: waits for a report the provider does not make.
StatusAfter_expectingPaid(current, reported) ==
  CASE reported = "failed"  -> "FAILED"
    [] reported = "expired" -> "EXPIRED"
    [] OTHER                -> current

\* Faulty: leaves an expired charge's payment open.
StatusAfter_forgettingExpiry(current, reported) ==
  CASE reported = "successful" -> "SUCCESS"
    [] reported = "failed"     -> "FAILED"
    [] OTHER                   -> current

StatusAfter(current, reported) ==
  CASE reported = "successful" -> "SUCCESS"
    [] reported = "failed"     -> "FAILED"
    [] reported = "expired"    -> "EXPIRED"
    [] reported = "pending"    -> current

\* Faulty: sells to a customer who has walked away.
TakesItem_despiteCancellation(p) == p.paymentStatus = "SUCCESS"

\* A row that has just become SUCCESS takes its slot's item.
TakesItem(p) == p.paymentStatus = "SUCCESS" /\ ~ p.cancelled

\* Faulty: relies on what cancelPayment read before it asked the provider.
MayAbandon_unchecked(p) == ~ p.cancelled

MayAbandon(p) == ~ p.cancelled /\ p.paymentStatus # "SUCCESS"

IsCompletedSale(p) == p.paymentStatus = "SUCCESS" /\ ~ p.cancelled

\* notifyCompletedSale goes on only with a completed sale.
NotificationDue(p, slot) == IsCompletedSale(p) /\ slot = "SOLD_OUT"

\* Faulty: does not look whether another handler has claimed it.
MayClaimNotification_again(p) == IsCompletedSale(p)

MayClaimNotification(p) == IsCompletedSale(p) /\ ~ p.notifyAttempted

MayMarkCreationFailed(p) == p.paymentStatus = "PENDING" /\ ~ p.chargeSaved

\* Row p with a new status and the report it comes from.
Recorded(p, status, report) ==
  [p EXCEPT !.paymentStatus = status, !.providerStatus = report]

\* Row p with its charge.
Saved(p, report) ==
  [p EXCEPT !.chargeSaved = TRUE, !.providerStatus = report]

Abandoned(p) == [p EXCEPT !.cancelled = TRUE]

Claimed(p) == [p EXCEPT !.notifyAttempted = TRUE]

-----------------------------------------------------------------------------
(* Handlers *)

Start(r, op, at, t) ==
  /\ request[r] = Idle
  /\ request' = [request EXCEPT ![r] =
                   [op |-> op, at |-> at, tx |-> t, provider |-> "none"]]

\* Handler r goes on to the await `at`, holding the provider's report.
Proceed(r, at, report) ==
  request' = [request EXCEPT ![r] =
                IF at = "idle" THEN Idle
                ELSE [op |-> request[r].op, at |-> at,
                      tx |-> request[r].tx, provider |-> report]]

Finish(r) == Proceed(r, "idle", "none")

(* createPromptPayPayment *)

CreatePendingPayment(r, s, t) ==
  /\ ~ Exists(t)
  /\ SlotIsFree(s)
  /\ payment' = [payment EXCEPT ![t] =
       [ slotId |-> s, paymentStatus |-> "PENDING", chargeSaved |-> FALSE,
         providerStatus |-> "none", cancelled |-> FALSE,
         notifyAttempted |-> FALSE ]]
  /\ Start(r, "create", "createCharge", t)
  /\ UNCHANGED <<slotStatus, charge, settled, notices>>

\* The provider makes a charge and its reply arrives.  A PromptPay charge
\* may be born failed, never paid: nobody has seen its QR.
ProviderAccepts(r, reply) ==
  /\ request[r].at = "createCharge"
  /\ charge' = [charge EXCEPT ![request[r].tx] = reply]
  /\ Proceed(r, "save", reply)
  /\ UNCHANGED <<slotStatus, payment, settled, notices>>

\* The charge is made, but the reply is lost or the call times out.
ProviderReplyLost(r) ==
  /\ request[r].at = "createCharge"
  /\ charge' = [charge EXCEPT ![request[r].tx] = "pending"]
  /\ Proceed(r, "creationFailed", "none")
  /\ UNCHANGED <<slotStatus, payment, settled, notices>>

\* No charge is made: the call failed, or the amount is outside PromptPay's
\* range and the provider is not called at all.
ProviderRefuses(r) ==
  /\ request[r].at = "createCharge"
  /\ Proceed(r, "creationFailed", "none")
  /\ UNCHANGED <<slotStatus, payment, charge, settled, notices>>

MarkProviderCreationFailed(r) ==
  /\ request[r].at = "creationFailed"
  /\ LET t == request[r].tx IN
       payment' = IF MayMarkCreationFailed(payment[t])
                  THEN [payment EXCEPT ![t] =
                          Recorded(payment[t], "FAILED", "creation_failed")]
                  ELSE payment
  /\ Finish(r)
  /\ UNCHANGED <<slotStatus, charge, settled, notices>>

SaveProviderPayment(r) ==
  /\ request[r].at = "save"
  /\ payment' = [payment EXCEPT ![request[r].tx] =
       Saved(payment[request[r].tx], request[r].provider)]
  /\ IF request[r].provider = "pending"
     THEN Finish(r)
     ELSE Proceed(r, "apply", request[r].provider)
  /\ UNCHANGED <<slotStatus, charge, settled, notices>>

(* getPaymentStatus and the webhook: reconcilePaymentRecord *)

\* A finished payment is only notified, an open one is verified.  A pending
\* payment without a charge answers 503 and changes nothing.
Reconcile(r, t) ==
  /\ \/ /\ NotificationDue(payment[t], slotStatus[payment[t].slotId])
        /\ Start(r, "reconcile", "claim", t)
     \/ /\ payment[t].paymentStatus = "PENDING"
        /\ payment[t].chargeSaved
        /\ Start(r, "reconcile", "retrieve", t)
  /\ UNCHANGED <<slotStatus, payment, charge, settled, notices>>

GetPaymentStatus(r, t) == Exists(t) /\ Reconcile(r, t)

\* charge.complete is sent, and signed, when a charge is final; it may come
\* late, more than once, or never.
Announced(t) == charge[t] \in FinalProviderStatuses

\* A charge that is not saved yet is unknown.
ReceiveWebhook(r, t) ==
  /\ Announced(t)
  /\ payment[t].chargeSaved
  /\ Reconcile(r, t)

\* Faulty: takes the failure of a provider call for a failed charge.
Report_failureOnError(t) ==
  IF charge[t] = "pending" THEN "failed" ELSE charge[t]

Report(t) == charge[t]

RetrievePayment(r) ==
  /\ request[r].at = "retrieve"
  /\ Proceed(r, "apply", Report(request[r].tx))
  /\ UNCHANGED <<slotStatus, payment, charge, settled, notices>>

\* Where a handler goes after applyProviderStatus returned row p.
AfterApply(op, p, slot) ==
  IF NotificationDue(p, slot) THEN "claim"
  ELSE IF op = "cancel" /\ p.paymentStatus # "SUCCESS" THEN "abandon"
  ELSE "idle"

ApplyProviderStatus(r) ==
  LET t == request[r].tx
      s == payment[t].slotId
      report == request[r].provider
  IN
  /\ request[r].at = "apply"
  /\ \/ /\ payment[t].paymentStatus = "SUCCESS"
        /\ UNCHANGED <<payment, slotStatus>>
     \/ /\ payment[t].paymentStatus # "SUCCESS"
        /\ payment' = [payment EXCEPT ![t] =
             Recorded(payment[t],
                      StatusAfter(payment[t].paymentStatus, report), report)]
        /\ slotStatus' = IF TakesItem(payment'[t])
                         THEN [slotStatus EXCEPT ![s] = "SOLD_OUT"]
                         ELSE slotStatus
  /\ Proceed(r, AfterApply(request[r].op, payment'[t], slotStatus'[s]), "none")
  /\ UNCHANGED <<charge, settled, notices>>

(* cancelPayment *)

BeginCancel(r, t) ==
  /\ Exists(t)
  /\ MayAbandon(payment[t])
  /\ Start(r, "cancel",
           IF payment[t].chargeSaved THEN "retrieve" ELSE "abandon", t)
  /\ UNCHANGED <<slotStatus, payment, charge, settled, notices>>

AbandonPayment(r) ==
  /\ request[r].at = "abandon"
  /\ LET t == request[r].tx IN
       payment' = IF MayAbandon(payment[t])
                  THEN [payment EXCEPT ![t] = Abandoned(payment[t])]
                  ELSE payment
  /\ Finish(r)
  /\ UNCHANGED <<slotStatus, charge, settled, notices>>

(* notifyCompletedSale *)

\* The claim is the last thing awaited; the sending goes on by itself.
ClaimSaleNotification(r) ==
  /\ request[r].at = "claim"
  /\ LET t == request[r].tx IN
       \/ /\ MayClaimNotification(payment[t])
          /\ payment' = [payment EXCEPT ![t] = Claimed(payment[t])]
          /\ Proceed(r, "send", "none")
       \/ /\ ~ MayClaimNotification(payment[t])
          /\ Finish(r)
          /\ UNCHANGED payment
  /\ UNCHANGED <<slotStatus, charge, settled, notices>>

SendSaleNotification(r) ==
  /\ request[r].at = "send"
  /\ notices' = [notices EXCEPT ![request[r].tx] = @ + 1]
  /\ Finish(r)
  /\ UNCHANGED <<slotStatus, payment, charge, settled>>

\* The handler ends where it is: the process stops, a call throws, or a
\* returned charge is not the one the row describes.
Abort(r) ==
  /\ request[r] # Idle
  /\ Finish(r)
  /\ UNCHANGED <<slotStatus, payment, charge, settled, notices>>

-----------------------------------------------------------------------------
(* The rest of the world *)

\* The QR leaves the backend in a reply sent after the charge is saved.
CustomerPays(t) ==
  /\ charge[t] = "pending"
  /\ payment[t].chargeSaved
  /\ charge' = [charge EXCEPT ![t] = "successful"]
  /\ UNCHANGED <<slotStatus, payment, request, settled, notices>>

\* An unpaid charge fails, or expires after its three minutes.
ChargeEnds(t, outcome) ==
  /\ charge[t] = "pending"
  /\ charge' = [charge EXCEPT ![t] = outcome]
  /\ UNCHANGED <<slotStatus, payment, request, settled, notices>>

\* commitRestock fills every slot; it does not look at payments.
CommitRestock ==
  /\ slotStatus' = [s \in Slots |-> "AVAILABLE"]
  /\ settled' = {t \in Transactions : payment[t].paymentStatus = "SUCCESS"}
  /\ UNCHANGED <<payment, charge, request, notices>>

HandlerStep(r) ==
  \/ \E reply \in {"pending", "failed"} : ProviderAccepts(r, reply)
  \/ ProviderReplyLost(r)
  \/ ProviderRefuses(r)
  \/ MarkProviderCreationFailed(r)
  \/ SaveProviderPayment(r)
  \/ RetrievePayment(r)
  \/ ApplyProviderStatus(r)
  \/ AbandonPayment(r)
  \/ ClaimSaleNotification(r)
  \/ SendSaleNotification(r)

\* Everything but the opening of a payment.
Continue ==
  \/ \E r \in Requests, t \in Transactions :
       \/ GetPaymentStatus(r, t)
       \/ ReceiveWebhook(r, t)
       \/ BeginCancel(r, t)
  \/ \E r \in Requests : HandlerStep(r) \/ Abort(r)
  \/ \E t \in Transactions :
       \/ CustomerPays(t)
       \/ \E outcome \in {"failed", "expired"} : ChargeEnds(t, outcome)
  \/ CommitRestock

Next ==
  \/ \E r \in Requests, t \in Transactions, s \in Slots :
       CreatePendingPayment(r, s, t)
  \/ Continue

Spec == Init /\ [][Next]_vars

-----------------------------------------------------------------------------
(* Safety *)

\* t took the item that slot s has held since the last restock.
Took(t, s) ==
  /\ IsCompletedSale(payment[t])
  /\ payment[t].slotId = s
  /\ t \notin settled

\* At most one payment per slot can still be paid by a waiting customer: two
\* customers are never shown a QR for the same item (createPendingPayment).
OneOpenPaymentPerSlot ==
  \A t, u \in Transactions :
    IsOpen(t) /\ IsOpen(u) /\ payment[t].slotId = payment[u].slotId => t = u

\* A slot is SOLD_OUT exactly when a confirmed payment whose customer had not
\* left took its item since the last restock; a payment that is confirmed
\* after its customer cancelled never shows in the slot (applyProviderStatus
\* against cancelPayment, createPendingPayment and commitRestock).
SoldOutMeansSold ==
  \A s \in Slots :
    slotStatus[s] = "SOLD_OUT" <=> \E t \in Transactions : Took(t, s)

\* No item is sold twice: since a restock at most one payment takes it.
OneSalePerItem ==
  \A s \in Slots : \A t, u \in Transactions : Took(t, s) /\ Took(u, s) => t = u

\* Both: an item is sold once, and its slot tells the truth about it.
EveryItemIsSoldOnce == SoldOutMeansSold /\ OneSalePerItem

\* The row's outcome is the provider's outcome of the row's own charge,
\* whatever the order in which polls, webhooks and cancellations applied what
\* they had retrieved.
OutcomeIsTheProviders ==
  \A t \in Transactions :
    LET p == payment[t] IN
    /\ p.paymentStatus = "SUCCESS" =>
         p.chargeSaved /\ charge[t] = "successful"
    /\ p.paymentStatus = "EXPIRED" => p.chargeSaved /\ charge[t] = "expired"
    /\ p.paymentStatus = "FAILED" /\ p.chargeSaved => charge[t] = "failed"

\* The sale notification is sent at most once, and only for a sale, although
\* the poll, the webhook and the cancellation may all find it due.
NotifiedAtMostOnce ==
  \A t \in Transactions :
    /\ notices[t] <= 1
    /\ notices[t] = 1 => IsCompletedSale(payment[t])

\* An outcome is final: a late report never reopens or changes it, and a
\* confirmed payment can no longer be cancelled (abandonPayment reads the row
\* again after the provider was asked).
OutcomeIsFinal ==
  [][\A t \in Transactions :
       LET p == payment[t] IN
       /\ p.paymentStatus \in {"SUCCESS", "FAILED", "EXPIRED"} =>
            payment'[t].paymentStatus = p.paymentStatus
       /\ p.paymentStatus = "SUCCESS" =>
            payment'[t].cancelled = p.cancelled]_vars

\* opn-payments.md line 41: "Terminal results and duplicate notifications are
\* idempotent."  Read for the whole row: a report does not change the result
\* of a row that is already final.
TerminalResultIsIdempotent ==
  [][\A t \in Transactions :
       payment[t].paymentStatus \in {"SUCCESS", "FAILED", "EXPIRED"} =>
         payment'[t].providerStatus = payment[t].providerStatus]_vars

-----------------------------------------------------------------------------
(* The promise of module Sale *)

\* What row p means to the shop; isSettled: its slot was refilled since.
PurchaseState(p, isSettled) ==
  CASE p.paymentStatus = "NONE"                    -> "none"
    [] p.paymentStatus = "SUCCESS" /\ p.cancelled  -> "refundDue"
    [] p.paymentStatus = "SUCCESS" /\ ~ p.cancelled ->
         IF isSettled THEN "settled" ELSE "sold"
    [] p.paymentStatus \notin {"NONE", "SUCCESS"} /\ p.cancelled -> "abandoned"
    [] p.paymentStatus = "PENDING" /\ ~ p.cancelled -> "open"
    [] p.paymentStatus \in {"FAILED", "EXPIRED"} /\ ~ p.cancelled -> "closed"

PurchaseView ==
  [t \in Transactions |->
     [ slot  |-> payment[t].slotId,
       state |-> PurchaseState(payment[t], t \in settled) ]]

Promise == INSTANCE Sale WITH stock <- slotStatus, purchase <- PurchaseView

\* Every step of the backend is a step of Sale or does not show.
KeepsPromise == Promise!Spec

-----------------------------------------------------------------------------
(* Liveness *)

\* The handler steps for t that a client who keeps asking will see through.
AskAbout(t) == \E r \in Requests : IsOpen(t) /\ GetPaymentStatus(r, t)

RetrieveFor(t) ==
  \E r \in Requests : request[r].tx = t /\ RetrievePayment(r)

ApplyFor(t) ==
  \E r \in Requests : request[r].tx = t /\ ApplyProviderStatus(r)

\* The provider ends every charge, at the latest when its QR expires.  The
\* kiosk polls an open payment every two seconds for as long as it is open:
\* single polls may fail, but not all of them.  A handler's awaits return or
\* throw (provider calls time out after ten seconds).  Nothing is assumed of
\* webhooks, customers or restocks.
Fairness ==
  /\ \A r \in Requests : WF_vars(HandlerStep(r) \/ Abort(r))
  /\ \A t \in Transactions :
       /\ WF_vars(ChargeEnds(t, "expired"))
       /\ SF_vars(AskAbout(t))
       /\ SF_vars(RetrieveFor(t))
       /\ SF_vars(ApplyFor(t))

FairSpec == Spec /\ Fairness

\* A payment with a saved charge does not stay open: polling resolves it, and
\* with it the slot, the restock grant and configureSlot that wait for it.
EveryPaymentIsAnswered ==
  \A t \in Transactions :
    IsOpen(t) /\ payment[t].chargeSaved ~> ~ IsOpen(t)

\* Money that arrives while the customer waits becomes a sale, unless the
\* customer cancels in that moment.
MoneyBecomesASale ==
  \A t \in Transactions :
    IsOpen(t) /\ charge[t] = "successful" ~>
      \/ payment[t].paymentStatus = "SUCCESS"
      \/ payment[t].cancelled
=============================================================================
