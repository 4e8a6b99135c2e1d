--------------------------- MODULE Payment_proofs ---------------------------
(***************************************************************************)
(* Proofs about module Payment: its types, the invariant IInv of module    *)
(* PaymentInv and the safety properties that follow from it; then that no  *)
(* step takes back an outcome, and that every step is a step of module     *)
(* Sale or does not show there.                                            *)
(***************************************************************************)
EXTENDS PaymentInv, TLAPS

-----------------------------------------------------------------------------
(* What the two ways of writing request[r] do *)

LEMMA StartFacts ==
  ASSUME TypeOK, NEW r \in Requests, NEW op \in Operations, NEW at \in Awaits,
         NEW t \in Transactions, Start(r, op, at, t)
  PROVE  /\ request' \in [Requests -> RequestRecord]
         /\ request[r] = Idle
         /\ request'[r] = [op |-> op, at |-> at, tx |-> t, provider |-> "none"]
         /\ \A q \in Requests : q # r => request'[q] = request[q]
  BY DEF TypeOK, Start, RequestRecord, Reports

LEMMA ProceedFacts ==
  ASSUME TypeOK, NEW r \in Requests, NEW at \in Awaits, NEW report \in Reports,
         Proceed(r, at, report)
  PROVE  /\ request' \in [Requests -> RequestRecord]
         /\ at = "idle" => request'[r] = Idle
         /\ at # "idle" => request'[r] =
              [op |-> request[r].op, at |-> at, tx |-> request[r].tx,
               provider |-> report]
         /\ \A q \in Requests : q # r => request'[q] = request[q]
<1>1. request[r] \in RequestRecord
  BY DEF TypeOK
<1>2. Idle \in RequestRecord
  BY DEF Idle, RequestRecord, Operations, Awaits, Reports
<1>3. [op |-> request[r].op, at |-> at, tx |-> request[r].tx,
       provider |-> report] \in RequestRecord
  BY <1>1 DEF RequestRecord
<1> QED
  BY <1>2, <1>3 DEF TypeOK, Proceed

LEMMA FinishFacts ==
  ASSUME TypeOK, NEW r \in Requests, Finish(r)
  PROVE  /\ request' \in [Requests -> RequestRecord]
         /\ request'[r] = Idle
         /\ \A q \in Requests : q # r => request'[q] = request[q]
  BY ProceedFacts DEF Finish, Awaits, Reports

-----------------------------------------------------------------------------
(* What the ways of writing a row do *)

RowStatuses == PaymentStatuses \union {"NONE"}

RowReports == Reports \union {"creation_failed"}

LEMMA RecordedFacts ==
  ASSUME NEW p \in PaymentRecord, NEW status \in RowStatuses,
         NEW report \in RowReports
  PROVE  /\ Recorded(p, status, report) \in PaymentRecord
         /\ Recorded(p, status, report).slotId = p.slotId
         /\ Recorded(p, status, report).paymentStatus = status
         /\ Recorded(p, status, report).chargeSaved = p.chargeSaved
         /\ Recorded(p, status, report).cancelled = p.cancelled
         /\ Recorded(p, status, report).notifyAttempted = p.notifyAttempted
<1> DEFINE q == [p EXCEPT !.paymentStatus = status]
<1>1. /\ q \in PaymentRecord
      /\ q.slotId = p.slotId
      /\ q.paymentStatus = status
      /\ q.chargeSaved = p.chargeSaved
      /\ q.cancelled = p.cancelled
      /\ q.notifyAttempted = p.notifyAttempted
  BY DEF PaymentRecord, RowStatuses
<1>2. Recorded(p, status, report) = [q EXCEPT !.providerStatus = report]
  BY Zenon DEF Recorded
<1> HIDE DEF q
<1> QED
  BY <1>1, <1>2 DEF PaymentRecord, RowReports, Reports

LEMMA SavedFacts ==
  ASSUME NEW p \in PaymentRecord, NEW report \in RowReports
  PROVE  /\ Saved(p, report) \in PaymentRecord
         /\ Saved(p, report).slotId = p.slotId
         /\ Saved(p, report).paymentStatus = p.paymentStatus
         /\ Saved(p, report).chargeSaved = TRUE
         /\ Saved(p, report).cancelled = p.cancelled
         /\ Saved(p, report).notifyAttempted = p.notifyAttempted
<1> DEFINE q == [p EXCEPT !.chargeSaved = TRUE]
<1>1. /\ q \in PaymentRecord
      /\ q.slotId = p.slotId
      /\ q.paymentStatus = p.paymentStatus
      /\ q.chargeSaved = TRUE
      /\ q.cancelled = p.cancelled
      /\ q.notifyAttempted = p.notifyAttempted
  BY DEF PaymentRecord
<1>2. Saved(p, report) = [q EXCEPT !.providerStatus = report]
  BY Zenon DEF Saved
<1> HIDE DEF q
<1> QED
  BY <1>1, <1>2 DEF PaymentRecord, RowReports, Reports

LEMMA AbandonedFacts ==
  ASSUME NEW p \in PaymentRecord
  PROVE  /\ Abandoned(p) \in PaymentRecord
         /\ Abandoned(p).slotId = p.slotId
         /\ Abandoned(p).paymentStatus = p.paymentStatus
         /\ Abandoned(p).chargeSaved = p.chargeSaved
         /\ Abandoned(p).cancelled = TRUE
         /\ Abandoned(p).notifyAttempted = p.notifyAttempted
  BY DEF PaymentRecord, Abandoned

LEMMA ClaimedFacts ==
  ASSUME NEW p \in PaymentRecord
  PROVE  /\ Claimed(p) \in PaymentRecord
         /\ Claimed(p).slotId = p.slotId
         /\ Claimed(p).paymentStatus = p.paymentStatus
         /\ Claimed(p).chargeSaved = p.chargeSaved
         /\ Claimed(p).cancelled = p.cancelled
         /\ Claimed(p).notifyAttempted = TRUE
  BY DEF PaymentRecord, Claimed

LEMMA NewRowFacts ==
  ASSUME NEW s \in Slots
  PROVE  [ slotId |-> s, paymentStatus |-> "PENDING", chargeSaved |-> FALSE,
           providerStatus |-> "none", cancelled |-> FALSE,
           notifyAttempted |-> FALSE ] \in PaymentRecord
  BY DEF PaymentRecord, PaymentStatuses

LEMMA RowUpdate ==
  ASSUME TypeOK, NEW t \in Transactions, NEW p \in PaymentRecord,
         payment' = [payment EXCEPT ![t] = p]
  PROVE  /\ payment' \in [Transactions -> PaymentRecord]
         /\ payment'[t] = p
         /\ \A u \in Transactions : u # t => payment'[u] = payment[u]
  BY DEF TypeOK

-----------------------------------------------------------------------------
(* Steps that change no row: only the handler moves *)

LEMMA RowsUnchanged ==
  ASSUME IInv, UNCHANGED <<slotStatus, payment, charge, settled, notices>>
  PROVE  /\ RowInv'
         /\ OutcomeIsTheProviders'
         /\ OneOpenPaymentPerSlot'
         /\ OpenMeansAvailable'
         /\ SoldOutMeansSold'
         /\ OneSalePerItem'
         /\ NoticeInv'
  BY DEF IInv, RowInv, OutcomeIsTheProviders, OneOpenPaymentPerSlot,
         OpenMeansAvailable, SoldOutMeansSold, OneSalePerItem, NoticeInv,
         Exists, IsOpen, Took, IsCompletedSale

LEMMA OthersUnchanged ==
  ASSUME IInv, NEW r \in Requests,
         UNCHANGED <<slotStatus, payment, charge, settled, notices>>,
         \A q \in Requests : q # r => request'[q] = request[q],
         AwaitInv(r)',
         request'[r].at \in Creating \/ request'[r].at = "send" =>
           /\ request'[r].tx = request[r].tx
           /\ request'[r].at \in Creating => request[r].at \in Creating
           /\ request'[r].at = "send" => request[r].at = "send"
  PROVE  RequestInv' /\ OneCreatorOneSender'
<1>1. RequestInv'
  BY DEF IInv, RequestInv, AwaitInv, ReportHolds, Exists
<1>2. OneCreatorOneSender'
  BY DEF IInv, OneCreatorOneSender
<1> QED
  BY <1>1, <1>2

LEMMA GetPaymentStatusInv ==
  ASSUME IInv, NEW r \in Requests, NEW t \in Transactions,
         GetPaymentStatus(r, t) \/ ReceiveWebhook(r, t)
  PROVE  IInv'
<1>1. UNCHANGED <<slotStatus, payment, charge, settled, notices>>
  BY DEF GetPaymentStatus, ReceiveWebhook, Reconcile
<1>2. Exists(t)
  BY DEF GetPaymentStatus, ReceiveWebhook, Reconcile, NotificationDue,
         IsCompletedSale, Exists, IInv, RowInv, NoPayment
<1>3. PICK at \in {"claim", "retrieve"} :
        /\ at = "retrieve" => payment[t].chargeSaved
        /\ Start(r, "reconcile", at, t)
  BY DEF GetPaymentStatus, ReceiveWebhook, Reconcile
<1>4. /\ request' \in [Requests -> RequestRecord]
      /\ request'[r] = [op |-> "reconcile", at |-> at, tx |-> t,
                        provider |-> "none"]
      /\ \A q \in Requests : q # r => request'[q] = request[q]
  BY <1>3, StartFacts DEF IInv, Operations, Awaits
<1>5. AwaitInv(r)'
  BY <1>1, <1>2, <1>3, <1>4 DEF AwaitInv, Exists, Creating
<1>6. RequestInv' /\ OneCreatorOneSender'
  BY <1>1, <1>4, <1>5, OthersUnchanged DEF Creating
<1> QED
  BY <1>1, <1>4, <1>6, RowsUnchanged DEF IInv, TypeOK

LEMMA BeginCancelInv ==
  ASSUME IInv, NEW r \in Requests, NEW t \in Transactions, BeginCancel(r, t)
  PROVE  IInv'
<1>1. UNCHANGED <<slotStatus, payment, charge, settled, notices>>
  BY DEF BeginCancel
<1>2. PICK at \in {"abandon", "retrieve"} :
        /\ at = "retrieve" => payment[t].chargeSaved
        /\ Start(r, "cancel", at, t)
  BY DEF BeginCancel
<1>3. /\ request' \in [Requests -> RequestRecord]
      /\ request'[r] = [op |-> "cancel", at |-> at, tx |-> t,
                        provider |-> "none"]
      /\ \A q \in Requests : q # r => request'[q] = request[q]
  BY <1>2, StartFacts DEF IInv, Operations, Awaits
<1>4. AwaitInv(r)'
  BY <1>1, <1>2, <1>3 DEF AwaitInv, Exists, Creating, BeginCancel
<1>5. RequestInv' /\ OneCreatorOneSender'
  BY <1>1, <1>3, <1>4, OthersUnchanged DEF Creating
<1> QED
  BY <1>1, <1>3, <1>5, RowsUnchanged DEF IInv, TypeOK

LEMMA AbortInv ==
  ASSUME IInv, NEW r \in Requests, Abort(r)
  PROVE  IInv'
<1>1. UNCHANGED <<slotStatus, payment, charge, settled, notices>>
  BY DEF Abort
<1>2. /\ request' \in [Requests -> RequestRecord]
      /\ request'[r] = Idle
      /\ \A q \in Requests : q # r => request'[q] = request[q]
  BY FinishFacts DEF IInv, Abort
<1>3. AwaitInv(r)'
  BY <1>2 DEF AwaitInv, Creating, Idle
<1>4. RequestInv' /\ OneCreatorOneSender'
  BY <1>1, <1>2, <1>3, OthersUnchanged DEF Creating, Idle
<1> QED
  BY <1>1, <1>2, <1>4, RowsUnchanged DEF IInv, TypeOK

LEMMA ProviderRefusesInv ==
  ASSUME IInv, NEW r \in Requests, ProviderRefuses(r)
  PROVE  IInv'
<1>1. UNCHANGED <<slotStatus, payment, charge, settled, notices>>
  BY DEF ProviderRefuses
<1>2. /\ request' \in [Requests -> RequestRecord]
      /\ request'[r] = [op |-> request[r].op, at |-> "creationFailed",
                        tx |-> request[r].tx, provider |-> "none"]
      /\ \A q \in Requests : q # r => request'[q] = request[q]
  BY ProceedFacts DEF IInv, ProviderRefuses, Awaits, Reports
<1>3. AwaitInv(r)'
  BY <1>1, <1>2
  DEF IInv, RequestInv, AwaitInv, Creating, Exists, ProviderRefuses
<1>4. RequestInv' /\ OneCreatorOneSender'
  BY <1>1, <1>2, <1>3, OthersUnchanged DEF Creating, ProviderRefuses
<1> QED
  BY <1>1, <1>2, <1>4, RowsUnchanged DEF IInv, TypeOK

LEMMA RetrievePaymentInv ==
  ASSUME IInv, NEW r \in Requests, RetrievePayment(r)
  PROVE  IInv'
<1>1. UNCHANGED <<slotStatus, payment, charge, settled, notices>>
  BY DEF RetrievePayment
<1>2. /\ request[r].tx \in Transactions
      /\ Exists(request[r].tx)
      /\ payment[request[r].tx].chargeSaved
  BY DEF IInv, RequestInv, AwaitInv, RetrievePayment
<1>3. charge[request[r].tx] \in ProviderStatuses
  BY <1>2 DEF IInv, TypeOK, RowInv, Reports
<1>4. /\ request' \in [Requests -> RequestRecord]
      /\ request'[r] = [op |-> request[r].op, at |-> "apply",
                        tx |-> request[r].tx,
                        provider |-> charge[request[r].tx]]
      /\ \A q \in Requests : q # r => request'[q] = request[q]
  BY <1>3, ProceedFacts DEF IInv, RetrievePayment, Report, Awaits, Reports
<1>5. AwaitInv(r)'
  BY <1>1, <1>2, <1>3, <1>4
  DEF AwaitInv, ReportHolds, Creating, Exists, ProviderStatuses
<1>6. RequestInv' /\ OneCreatorOneSender'
  BY <1>1, <1>4, <1>5, OthersUnchanged DEF Creating
<1> QED
  BY <1>1, <1>4, <1>6, RowsUnchanged DEF IInv, TypeOK

-----------------------------------------------------------------------------
(* Steps that write a charge *)

\* A charge that is not final has decided no row and no report yet.
LEMMA ChargeStep ==
  ASSUME IInv, NEW t \in Transactions, NEW status \in ProviderStatuses,
         charge[t] \in {"none", "pending"}, Exists(t),
         charge' = [charge EXCEPT ![t] = status],
         UNCHANGED <<slotStatus, payment, settled, notices>>
  PROVE  /\ RowInv'
         /\ OutcomeIsTheProviders'
         /\ OneOpenPaymentPerSlot'
         /\ OpenMeansAvailable'
         /\ SoldOutMeansSold'
         /\ OneSalePerItem'
         /\ NoticeInv'
         /\ charge' \in [Transactions -> Reports]
<1>1. /\ charge' \in [Transactions -> Reports]
      /\ charge'[t] = status
      /\ \A u \in Transactions : u # t => charge'[u] = charge[u]
  BY DEF IInv, TypeOK, Reports
<1>2. RowInv'
  BY <1>1 DEF IInv, RowInv, Exists, ProviderStatuses
<1>3. OutcomeIsTheProviders'
  BY <1>1 DEF IInv, OutcomeIsTheProviders
<1>4. OneOpenPaymentPerSlot' /\ OpenMeansAvailable' /\ SoldOutMeansSold'
        /\ OneSalePerItem' /\ NoticeInv'
  BY DEF IInv, OneOpenPaymentPerSlot, OpenMeansAvailable, SoldOutMeansSold,
         OneSalePerItem, NoticeInv, IsOpen, Took, IsCompletedSale
<1> QED
  BY <1>1, <1>2, <1>3, <1>4

\* The world moves a pending charge on.
LEMMA ChargeMovesOn ==
  ASSUME IInv, NEW t \in Transactions, NEW status \in ProviderStatuses,
         charge[t] = "pending",
         charge' = [charge EXCEPT ![t] = status],
         UNCHANGED <<slotStatus, payment, request, settled, notices>>
  PROVE  IInv'
<1>1. Exists(t)
  BY DEF IInv, RowInv
<1>2. /\ charge'[t] = status
      /\ \A u \in Transactions : u # t => charge'[u] = charge[u]
  BY DEF IInv, TypeOK
<1>3. RequestInv'
  BY <1>2 DEF IInv, RequestInv, AwaitInv, ReportHolds, Exists,
              IsCompletedSale, ProviderStatuses
<1>4. OneCreatorOneSender'
  BY DEF IInv, OneCreatorOneSender
<1> QED
  BY <1>1, <1>3, <1>4, ChargeStep DEF IInv, TypeOK

\* The creation call that makes the charge of its row.
LEMMA ChargeIsMade ==
  ASSUME IInv, NEW r \in Requests, NEW status \in {"pending", "failed"},
         NEW at \in {"save", "creationFailed"},
         NEW report \in {status, "none"},
         at = "save" => report = status,
         request[r].at = "createCharge",
         charge' = [charge EXCEPT ![request[r].tx] = status],
         Proceed(r, at, report),
         UNCHANGED <<slotStatus, payment, settled, notices>>
  PROVE  IInv'
<1> DEFINE t == request[r].tx
<1>1. /\ t \in Transactions
      /\ Exists(t)
      /\ charge[t] = "none"
      /\ request[r].op = "create"
      /\ payment[t].paymentStatus = "PENDING"
      /\ ~ payment[t].chargeSaved
  BY DEF IInv, RequestInv, AwaitInv, Creating
<1>2. /\ charge'[t] = status
      /\ \A u \in Transactions : u # t => charge'[u] = charge[u]
  BY <1>1 DEF IInv, TypeOK
<1>3. /\ request' \in [Requests -> RequestRecord]
      /\ request'[r] = [op |-> request[r].op, at |-> at, tx |-> t,
                        provider |-> report]
      /\ \A q \in Requests : q # r => request'[q] = request[q]
  <2>1. TypeOK /\ at \in Awaits /\ at # "idle" /\ report \in Reports
    BY DEF IInv, Awaits, Reports, ProviderStatuses
  <2> QED
    BY <2>1, ProceedFacts
<1>4. AwaitInv(r)'
  BY <1>1, <1>2, <1>3 DEF AwaitInv, ReportHolds, Exists, Creating
<1>5. ASSUME NEW q \in Requests, q # r
      PROVE  AwaitInv(q)'
  <2>1. AwaitInv(q)
    BY DEF IInv, RequestInv
  <2>2. ~ (request[q].tx = t /\ request[q].at \in Creating)
    BY <1>5 DEF IInv, OneCreatorOneSender, Creating
  <2>3. request[q].at = "apply" => request[q].tx # t
    BY <1>1, <2>1 DEF AwaitInv
  <2> QED
    BY <1>2, <1>3, <1>5, <2>1, <2>2, <2>3
    DEF AwaitInv, ReportHolds, Exists, IsCompletedSale, Creating
<1>6. RequestInv'
  BY <1>4, <1>5 DEF RequestInv
<1>7. OneCreatorOneSender'
  BY <1>3 DEF IInv, OneCreatorOneSender, Creating
<1> QED
  BY <1>1, <1>3, <1>6, <1>7, ChargeStep DEF IInv, TypeOK, ProviderStatuses

-----------------------------------------------------------------------------
(* Steps that write a row *)

\* A row that neither takes an item nor opens keeps what is said of slots.
LEMMA QuietRow ==
  ASSUME IInv, NEW t \in Transactions, NEW p \in PaymentRecord,
         payment' = [payment EXCEPT ![t] = p],
         p.slotId = payment[t].slotId,
         IsCompletedSale(p) <=> IsCompletedSale(payment[t]),
         p.paymentStatus = "PENDING" /\ ~ p.cancelled => IsOpen(t),
         UNCHANGED <<slotStatus, settled>>
  PROVE  /\ OneOpenPaymentPerSlot'
         /\ OpenMeansAvailable'
         /\ SoldOutMeansSold'
         /\ OneSalePerItem'
<1>1. /\ payment'[t] = p
      /\ \A u \in Transactions : u # t => payment'[u] = payment[u]
  BY RowUpdate DEF IInv
<1>2. \A u \in Transactions : IsOpen(u)' => IsOpen(u)
  BY <1>1 DEF IsOpen
<1>3. \A u \in Transactions : payment'[u].slotId = payment[u].slotId
  BY <1>1
<1>4. \A u \in Transactions, s \in Slots : Took(u, s)' <=> Took(u, s)
  BY <1>1 DEF Took, IsCompletedSale
<1>5. OneOpenPaymentPerSlot' /\ OpenMeansAvailable'
  BY <1>2, <1>3 DEF IInv, OneOpenPaymentPerSlot, OpenMeansAvailable
<1>6. SoldOutMeansSold' /\ OneSalePerItem'
  BY <1>4 DEF IInv, SoldOutMeansSold, OneSalePerItem
<1> QED
  BY <1>5, <1>6

LEMMA CreatePendingPaymentInv ==
  ASSUME IInv, NEW r \in Requests, NEW s \in Slots, NEW t \in Transactions,
         CreatePendingPayment(r, s, t)
  PROVE  IInv'
<1>1. /\ payment' \in [Transactions -> PaymentRecord]
      /\ payment'[t] =
           [ slotId |-> s, paymentStatus |-> "PENDING", chargeSaved |-> FALSE,
             providerStatus |-> "none", cancelled |-> FALSE,
             notifyAttempted |-> FALSE ]
      /\ \A u \in Transactions : u # t => payment'[u] = payment[u]
  BY NewRowFacts, RowUpdate DEF IInv, CreatePendingPayment
<1>2. /\ request' \in [Requests -> RequestRecord]
      /\ request[r] = Idle
      /\ request'[r] = [op |-> "create", at |-> "createCharge", tx |-> t,
                        provider |-> "none"]
      /\ \A q \in Requests : q # r => request'[q] = request[q]
  BY StartFacts DEF IInv, CreatePendingPayment, Operations, Awaits
<1>3. /\ ~ Exists(t)
      /\ payment[t].paymentStatus = "NONE"
      /\ charge[t] = "none"
      /\ notices[t] = 0
      /\ t \notin settled
  BY DEF IInv, RowInv, CreatePendingPayment, Exists
<1>4. UNCHANGED <<slotStatus, charge, settled, notices>>
  BY DEF CreatePendingPayment
<1>5. \A q \in Requests : request[q].at # "idle" => request[q].tx # t
  BY <1>3 DEF IInv, RequestInv, AwaitInv
<1>6. TypeOK'
  BY <1>1, <1>2, <1>4 DEF IInv, TypeOK
<1>7. RowInv'
  BY <1>1, <1>3, <1>4 DEF IInv, RowInv, Exists
<1>8. RequestInv'
  <2>1. AwaitInv(r)'
    BY <1>1, <1>2, <1>3, <1>4 DEF AwaitInv, Exists, Creating
  <2>2. ASSUME NEW q \in Requests, q # r
        PROVE  AwaitInv(q)'
    <3>1. AwaitInv(q)
      BY DEF IInv, RequestInv
    <3>2. CASE request[q].at = "idle"
      BY <1>2, <2>2, <3>1, <3>2 DEF AwaitInv, Creating
    <3>3. CASE request[q].at # "idle"
      BY <1>1, <1>2, <1>4, <1>5, <2>2, <3>1, <3>3
      DEF AwaitInv, ReportHolds, Exists, IsCompletedSale
    <3> QED
      BY <3>2, <3>3
  <2> QED
    BY <2>1, <2>2 DEF RequestInv
<1>9. OneCreatorOneSender'
  BY <1>2, <1>5 DEF IInv, OneCreatorOneSender, Creating
<1>10. OutcomeIsTheProviders'
  BY <1>1, <1>4 DEF IInv, OutcomeIsTheProviders
<1>11. \A u \in Transactions : u # t =>
         /\ IsOpen(u)' <=> IsOpen(u)
         /\ payment'[u].slotId = payment[u].slotId
  BY <1>1 DEF IsOpen
<1>12. \A u \in Transactions, x \in Slots : Took(u, x)' <=> Took(u, x)
  BY <1>1, <1>3, <1>4 DEF Took, IsCompletedSale
<1>13. /\ slotStatus[s] = "AVAILABLE"
       /\ \A u \in Transactions : ~ (IsOpen(u) /\ payment[u].slotId = s)
  BY DEF CreatePendingPayment, SlotIsFree
<1>14. OneOpenPaymentPerSlot'
  BY <1>1, <1>11, <1>13 DEF IInv, OneOpenPaymentPerSlot
<1>15. OpenMeansAvailable'
  BY <1>1, <1>4, <1>11, <1>13 DEF IInv, OpenMeansAvailable
<1>16. SoldOutMeansSold' /\ OneSalePerItem'
  BY <1>4, <1>12 DEF IInv, SoldOutMeansSold, OneSalePerItem
<1>17. NoticeInv'
  BY <1>1, <1>3, <1>4 DEF IInv, NoticeInv, IsCompletedSale
<1> QED
  BY <1>6, <1>7, <1>8, <1>9, <1>10, <1>14, <1>15, <1>16, <1>17 DEF IInv

\* Only its creator writes the row while its charge is not saved.
LEMMA CreatorAlone ==
  ASSUME IInv, NEW r \in Requests, request[r].at \in Creating
  PROVE  LET t == request[r].tx IN
         /\ t \in Transactions
         /\ Exists(t)
         /\ payment[t] \in PaymentRecord
         /\ payment[t].paymentStatus = "PENDING"
         /\ ~ payment[t].chargeSaved
         /\ t \notin settled
         /\ \A q \in Requests : q # r /\ request[q].tx = t =>
              request[q].at \in {"idle", "abandon", "claim"}
<1> DEFINE t == request[r].tx
<1>1. /\ t \in Transactions
      /\ Exists(t)
      /\ payment[t].paymentStatus = "PENDING"
      /\ ~ payment[t].chargeSaved
  BY DEF IInv, RequestInv, AwaitInv, Creating
<1>2. payment[t] \in PaymentRecord /\ t \notin settled
  BY <1>1 DEF IInv, TypeOK, RowInv
<1>3. ASSUME NEW q \in Requests, q # r, request[q].tx = t
      PROVE  request[q].at \in {"idle", "abandon", "claim"}
  <2>1. request[q].at \in Awaits /\ request[q].at \notin Creating
    BY <1>3 DEF IInv, TypeOK, RequestRecord, OneCreatorOneSender
  <2>2. request[q].at \notin {"retrieve", "apply", "send"}
    BY <1>1, <1>3 DEF IInv, RequestInv, AwaitInv, IsCompletedSale
  <2> QED
    BY <2>1, <2>2 DEF Awaits, Creating
<1> QED
  BY <1>1, <1>2, <1>3

LEMMA MarkProviderCreationFailedInv ==
  ASSUME IInv, NEW r \in Requests, MarkProviderCreationFailed(r)
  PROVE  IInv'
<1> DEFINE t == request[r].tx
           p == Recorded(payment[t], "FAILED", "creation_failed")
<1>1. /\ t \in Transactions
      /\ Exists(t)
      /\ payment[t] \in PaymentRecord
      /\ payment[t].paymentStatus = "PENDING"
      /\ ~ payment[t].chargeSaved
      /\ t \notin settled
      /\ \A q \in Requests : q # r /\ request[q].tx = t =>
           request[q].at \in {"idle", "abandon", "claim"}
  BY CreatorAlone DEF MarkProviderCreationFailed, Creating
<1>2. /\ p \in PaymentRecord
      /\ p.slotId = payment[t].slotId
      /\ p.paymentStatus = "FAILED"
      /\ p.chargeSaved = payment[t].chargeSaved
      /\ p.cancelled = payment[t].cancelled
      /\ p.notifyAttempted = payment[t].notifyAttempted
  BY <1>1, RecordedFacts DEF RowStatuses, PaymentStatuses, RowReports
<1> HIDE DEF p
<1>3. payment' = [payment EXCEPT ![t] = p]
  BY <1>1 DEF MarkProviderCreationFailed, MayMarkCreationFailed, p
<1>4. UNCHANGED <<slotStatus, charge, settled, notices>>
  BY DEF MarkProviderCreationFailed
<1>5. /\ payment' \in [Transactions -> PaymentRecord]
      /\ payment'[t] = p
      /\ \A u \in Transactions : u # t => payment'[u] = payment[u]
  BY <1>1, <1>2, <1>3, RowUpdate DEF IInv
<1>6. /\ request' \in [Requests -> RequestRecord]
      /\ request'[r] = Idle
      /\ \A q \in Requests : q # r => request'[q] = request[q]
  BY FinishFacts DEF IInv, MarkProviderCreationFailed
<1>7. TypeOK'
  BY <1>4, <1>5, <1>6 DEF IInv, TypeOK
<1>8. RowInv'
  BY <1>1, <1>2, <1>4, <1>5 DEF IInv, RowInv, Exists
<1>9. RequestInv'
  <2>1. AwaitInv(r)'
    BY <1>6 DEF AwaitInv, Idle, Creating
  <2>2. ASSUME NEW q \in Requests, q # r
        PROVE  AwaitInv(q)'
    BY <1>1, <1>2, <1>4, <1>5, <1>6, <2>2
    DEF IInv, RequestInv, AwaitInv, ReportHolds, Exists, IsCompletedSale,
        Creating
  <2> QED
    BY <2>1, <2>2 DEF RequestInv
<1>10. OneCreatorOneSender'
  BY <1>6 DEF IInv, OneCreatorOneSender, Idle, Creating
<1>11. OutcomeIsTheProviders'
  BY <1>1, <1>2, <1>4, <1>5 DEF IInv, OutcomeIsTheProviders
<1>12. OneOpenPaymentPerSlot' /\ OpenMeansAvailable' /\ SoldOutMeansSold'
         /\ OneSalePerItem'
  BY <1>1, <1>2, <1>3, <1>4, QuietRow DEF IsCompletedSale, IsOpen
<1>13. NoticeInv'
  BY <1>1, <1>2, <1>4, <1>5 DEF IInv, NoticeInv, IsCompletedSale
<1> QED
  BY <1>7, <1>8, <1>9, <1>10, <1>11, <1>12, <1>13 DEF IInv

LEMMA SaveProviderPaymentInv ==
  ASSUME IInv, NEW r \in Requests, SaveProviderPayment(r)
  PROVE  IInv'
<1> DEFINE t == request[r].tx
           p == Saved(payment[t], request[r].provider)
<1>1. /\ t \in Transactions
      /\ Exists(t)
      /\ payment[t] \in PaymentRecord
      /\ payment[t].paymentStatus = "PENDING"
      /\ ~ payment[t].chargeSaved
      /\ t \notin settled
      /\ \A q \in Requests : q # r /\ request[q].tx = t =>
           request[q].at \in {"idle", "abandon", "claim"}
  BY CreatorAlone DEF SaveProviderPayment, Creating
<1>2. charge[t] # "none" /\ ReportHolds(r)
  BY DEF IInv, RequestInv, AwaitInv, SaveProviderPayment
<1>3. request[r].provider \in Reports
  BY DEF IInv, TypeOK, RequestRecord
<1>4. /\ p \in PaymentRecord
      /\ p.slotId = payment[t].slotId
      /\ p.paymentStatus = payment[t].paymentStatus
      /\ p.chargeSaved = TRUE
      /\ p.cancelled = payment[t].cancelled
      /\ p.notifyAttempted = payment[t].notifyAttempted
  BY <1>1, <1>3, SavedFacts DEF RowReports
<1> HIDE DEF p
<1>5. payment' = [payment EXCEPT ![t] = p]
  BY DEF SaveProviderPayment, p
<1>6. UNCHANGED <<slotStatus, charge, settled, notices>>
  BY DEF SaveProviderPayment
<1>7. /\ payment' \in [Transactions -> PaymentRecord]
      /\ payment'[t] = p
      /\ \A u \in Transactions : u # t => payment'[u] = payment[u]
  BY <1>1, <1>4, <1>5, RowUpdate DEF IInv
<1>8. /\ request' \in [Requests -> RequestRecord]
      /\ \/ request'[r] = Idle
         \/ request'[r] = [op |-> request[r].op, at |-> "apply", tx |-> t,
                           provider |-> request[r].provider]
      /\ \A q \in Requests : q # r => request'[q] = request[q]
  <2>1. CASE request[r].provider = "pending"
    BY <2>1, FinishFacts DEF IInv, SaveProviderPayment
  <2>2. CASE request[r].provider # "pending"
    BY <1>3, <2>2, ProceedFacts DEF IInv, SaveProviderPayment, Awaits
  <2> QED
    BY <2>1, <2>2
<1>9. TypeOK'
  BY <1>6, <1>7, <1>8 DEF IInv, TypeOK
<1>10. RowInv'
  BY <1>1, <1>2, <1>4, <1>6, <1>7 DEF IInv, RowInv, Exists
<1>11. RequestInv'
  <2>1. AwaitInv(r)'
    BY <1>1, <1>2, <1>4, <1>6, <1>7, <1>8
    DEF AwaitInv, ReportHolds, Exists, Idle, Creating
  <2>2. ASSUME NEW q \in Requests, q # r
        PROVE  AwaitInv(q)'
    BY <1>1, <1>4, <1>6, <1>7, <1>8, <2>2
    DEF IInv, RequestInv, AwaitInv, ReportHolds, Exists, IsCompletedSale,
        Creating
  <2> QED
    BY <2>1, <2>2 DEF RequestInv
<1>12. OneCreatorOneSender'
  BY <1>8 DEF IInv, OneCreatorOneSender, Idle, Creating
<1>13. OutcomeIsTheProviders'
  BY <1>1, <1>4, <1>6, <1>7 DEF IInv, OutcomeIsTheProviders
<1>14. OneOpenPaymentPerSlot' /\ OpenMeansAvailable' /\ SoldOutMeansSold'
         /\ OneSalePerItem'
  BY <1>1, <1>4, <1>5, <1>6, QuietRow DEF IsCompletedSale, IsOpen
<1>15. NoticeInv'
  BY <1>1, <1>4, <1>6, <1>7 DEF IInv, NoticeInv, IsCompletedSale
<1> QED
  BY <1>9, <1>10, <1>11, <1>12, <1>13, <1>14, <1>15 DEF IInv

\* A handler that is not idle has a row.
LEMMA HasRow ==
  ASSUME IInv, NEW r \in Requests, request[r].at # "idle"
  PROVE  LET t == request[r].tx IN
         /\ t \in Transactions
         /\ Exists(t)
         /\ payment[t] \in PaymentRecord
         /\ payment[t].slotId \in Slots
  BY DEF IInv, RequestInv, AwaitInv, TypeOK, RowInv

\* A handler keeps what it relies on when its row loses none of it.
LEMMA AwaitKept ==
  ASSUME NEW q \in Requests, AwaitInv(q), request'[q] = request[q],
         UNCHANGED <<charge, notices>>,
         request[q].at # "idle" =>
           LET u == request[q].tx IN
           /\ payment'[u].paymentStatus # "NONE"
           /\ payment[u].chargeSaved => payment'[u].chargeSaved
           /\ IsCompletedSale(payment[u]) => IsCompletedSale(payment'[u])
           /\ payment[u].notifyAttempted => payment'[u].notifyAttempted
           /\ request[q].at \in Creating =>
                /\ payment'[u].paymentStatus = payment[u].paymentStatus
                /\ ~ payment'[u].chargeSaved
  PROVE  AwaitInv(q)'
<1>1. CASE request[q].at = "idle"
  BY <1>1 DEF AwaitInv, Creating
<1>2. CASE request[q].at # "idle"
  BY <1>2 DEF AwaitInv, ReportHolds, Exists, Creating
<1> QED
  BY <1>1, <1>2

LEMMA AbandonPaymentInv ==
  ASSUME IInv, NEW r \in Requests, AbandonPayment(r)
  PROVE  IInv'
<1> DEFINE t == request[r].tx
           p == Abandoned(payment[t])
<1>1. /\ t \in Transactions
      /\ Exists(t)
      /\ payment[t] \in PaymentRecord
  BY HasRow DEF AbandonPayment
<1>2. UNCHANGED <<slotStatus, charge, settled, notices>>
  BY DEF AbandonPayment
<1>3. /\ request' \in [Requests -> RequestRecord]
      /\ request'[r] = Idle
      /\ \A q \in Requests : q # r => request'[q] = request[q]
  BY FinishFacts DEF IInv, AbandonPayment
<1>4. AwaitInv(r)'
  BY <1>3 DEF AwaitInv, Idle, Creating
<1>5. OneCreatorOneSender'
  BY <1>3 DEF IInv, OneCreatorOneSender, Idle, Creating
<1>6. CASE ~ MayAbandon(payment[t])
  <2>1. payment' = payment
    BY <1>6 DEF AbandonPayment
  <2>2. RequestInv'
    BY <1>2, <1>3, <1>4, <2>1, OthersUnchanged DEF Idle, Creating
  <2> QED
    BY <1>2, <1>3, <1>5, <2>1, <2>2, RowsUnchanged DEF IInv, TypeOK
<1>7. CASE MayAbandon(payment[t])
  <2>1. /\ p \in PaymentRecord
        /\ p.slotId = payment[t].slotId
        /\ p.paymentStatus = payment[t].paymentStatus
        /\ p.chargeSaved = payment[t].chargeSaved
        /\ p.cancelled = TRUE
        /\ p.notifyAttempted = payment[t].notifyAttempted
    BY <1>1, AbandonedFacts
  <2> HIDE DEF p
  <2>2. payment' = [payment EXCEPT ![t] = p]
    BY <1>7 DEF AbandonPayment, p
  <2>3. /\ payment' \in [Transactions -> PaymentRecord]
        /\ payment'[t] = p
        /\ \A u \in Transactions : u # t => payment'[u] = payment[u]
    BY <1>1, <2>1, <2>2, RowUpdate DEF IInv
  <2>4. payment[t].paymentStatus # "SUCCESS"
    BY <1>7 DEF MayAbandon
  <2>5. TypeOK'
    BY <1>2, <1>3, <2>3 DEF IInv, TypeOK
  <2>6. RowInv'
    BY <1>1, <1>2, <2>1, <2>3 DEF IInv, RowInv, Exists
  <2>7. ASSUME NEW q \in Requests, q # r
        PROVE  AwaitInv(q)'
    <3>1. AwaitInv(q)
      BY DEF IInv, RequestInv
    <3>2. \A u \in Transactions :
            /\ payment'[u].paymentStatus = payment[u].paymentStatus
            /\ payment'[u].chargeSaved = payment[u].chargeSaved
            /\ payment[u].notifyAttempted => payment'[u].notifyAttempted
            /\ IsCompletedSale(payment[u]) => IsCompletedSale(payment'[u])
      BY <2>1, <2>3, <2>4 DEF IsCompletedSale
    <3> QED
      BY <1>2, <1>3, <2>7, <3>1, <3>2, AwaitKept DEF AwaitInv, Exists
  <2>8. RequestInv'
    BY <1>4, <2>7 DEF RequestInv
  <2>9. OutcomeIsTheProviders'
    BY <1>2, <2>1, <2>3 DEF IInv, OutcomeIsTheProviders
  <2>10. OneOpenPaymentPerSlot' /\ OpenMeansAvailable' /\ SoldOutMeansSold'
           /\ OneSalePerItem'
    BY <1>1, <1>2, <2>1, <2>2, <2>4, QuietRow DEF IsCompletedSale
  <2>11. NoticeInv'
    BY <1>2, <2>1, <2>3, <2>4 DEF IInv, NoticeInv, IsCompletedSale
  <2> QED
    BY <1>5, <2>5, <2>6, <2>8, <2>9, <2>10, <2>11 DEF IInv
<1> QED
  BY <1>6, <1>7

LEMMA ClaimSaleNotificationInv ==
  ASSUME IInv, NEW r \in Requests, ClaimSaleNotification(r)
  PROVE  IInv'
<1> DEFINE t == request[r].tx
           p == Claimed(payment[t])
<1>1. /\ t \in Transactions
      /\ Exists(t)
      /\ payment[t] \in PaymentRecord
  BY HasRow DEF ClaimSaleNotification
<1>2. UNCHANGED <<slotStatus, charge, settled, notices>>
  BY DEF ClaimSaleNotification
<1>3. CASE ~ MayClaimNotification(payment[t])
  <2>1. UNCHANGED payment /\ Finish(r)
    BY <1>3 DEF ClaimSaleNotification
  <2>2. /\ request' \in [Requests -> RequestRecord]
        /\ request'[r] = Idle
        /\ \A q \in Requests : q # r => request'[q] = request[q]
    BY <2>1, FinishFacts DEF IInv
  <2>3. AwaitInv(r)'
    BY <2>2 DEF AwaitInv, Idle, Creating
  <2>4. RequestInv' /\ OneCreatorOneSender'
    BY <1>2, <2>1, <2>2, <2>3, OthersUnchanged DEF Idle, Creating
  <2> QED
    BY <1>2, <2>1, <2>2, <2>4, RowsUnchanged DEF IInv, TypeOK
<1>4. CASE MayClaimNotification(payment[t])
  <2>1. /\ p \in PaymentRecord
        /\ p.slotId = payment[t].slotId
        /\ p.paymentStatus = payment[t].paymentStatus
        /\ p.chargeSaved = payment[t].chargeSaved
        /\ p.cancelled = payment[t].cancelled
        /\ p.notifyAttempted = TRUE
    BY <1>1, ClaimedFacts
  <2>2. payment' = [payment EXCEPT ![t] = p] /\ Proceed(r, "send", "none")
    BY <1>4 DEF ClaimSaleNotification
  <2> HIDE DEF p
  <2>3. /\ payment' \in [Transactions -> PaymentRecord]
        /\ payment'[t] = p
        /\ \A u \in Transactions : u # t => payment'[u] = payment[u]
    BY <1>1, <2>1, <2>2, RowUpdate DEF IInv
  <2>4. /\ request' \in [Requests -> RequestRecord]
        /\ request'[r] = [op |-> request[r].op, at |-> "send", tx |-> t,
                          provider |-> "none"]
        /\ \A q \in Requests : q # r => request'[q] = request[q]
    BY <2>2, ProceedFacts DEF IInv, Awaits, Reports
  <2>5. /\ IsCompletedSale(payment[t])
        /\ ~ payment[t].notifyAttempted
        /\ notices[t] = 0
    BY <1>1, <1>4 DEF MayClaimNotification, IInv, NoticeInv
  <2>6. \A q \in Requests : request[q].at = "send" => request[q].tx # t
    BY <2>5 DEF IInv, RequestInv, AwaitInv
  <2>7. TypeOK'
    BY <1>2, <2>3, <2>4 DEF IInv, TypeOK
  <2>8. RowInv'
    BY <1>1, <1>2, <2>1, <2>3 DEF IInv, RowInv, Exists
  <2>9. AwaitInv(r)'
    BY <1>1, <1>2, <2>1, <2>3, <2>4, <2>5
    DEF AwaitInv, Exists, IsCompletedSale, Creating
  <2>10. ASSUME NEW q \in Requests, q # r
        PROVE  AwaitInv(q)'
    <3>1. AwaitInv(q)
      BY DEF IInv, RequestInv
    <3>2. \A u \in Transactions :
            /\ payment'[u].paymentStatus = payment[u].paymentStatus
            /\ payment'[u].chargeSaved = payment[u].chargeSaved
            /\ payment[u].notifyAttempted => payment'[u].notifyAttempted
            /\ IsCompletedSale(payment[u]) => IsCompletedSale(payment'[u])
      BY <2>1, <2>3 DEF IsCompletedSale
    <3> QED
      BY <1>2, <2>4, <2>10, <3>1, <3>2, AwaitKept DEF AwaitInv, Exists
  <2>11. RequestInv'
    BY <2>9, <2>10 DEF RequestInv
  <2>12. OneCreatorOneSender'
    BY <2>4, <2>6 DEF IInv, OneCreatorOneSender, Creating
  <2>13. OutcomeIsTheProviders'
    BY <1>2, <2>1, <2>3 DEF IInv, OutcomeIsTheProviders
  <2>14. OneOpenPaymentPerSlot' /\ OpenMeansAvailable' /\ SoldOutMeansSold'
           /\ OneSalePerItem'
    BY <1>1, <1>2, <2>1, <2>2, QuietRow DEF IsCompletedSale, IsOpen
  <2>15. NoticeInv'
    BY <1>2, <2>1, <2>3 DEF IInv, NoticeInv, IsCompletedSale
  <2> QED
    BY <2>7, <2>8, <2>11, <2>12, <2>13, <2>14, <2>15 DEF IInv
<1> QED
  BY <1>3, <1>4

LEMMA SendSaleNotificationInv ==
  ASSUME IInv, NEW r \in Requests, SendSaleNotification(r)
  PROVE  IInv'
<1> DEFINE t == request[r].tx
<1>1. /\ t \in Transactions
      /\ Exists(t)
      /\ IsCompletedSale(payment[t])
      /\ payment[t].notifyAttempted
      /\ notices[t] = 0
  BY DEF IInv, RequestInv, AwaitInv, SendSaleNotification
<1>2. /\ notices' \in [Transactions -> Nat]
      /\ notices'[t] = 1
      /\ \A u \in Transactions : u # t => notices'[u] = notices[u]
  BY <1>1 DEF IInv, TypeOK, SendSaleNotification
<1>3. UNCHANGED <<slotStatus, payment, charge, settled>>
  BY DEF SendSaleNotification
<1>4. /\ request' \in [Requests -> RequestRecord]
      /\ request'[r] = Idle
      /\ \A q \in Requests : q # r => request'[q] = request[q]
  BY FinishFacts DEF IInv, SendSaleNotification
<1>5. \A q \in Requests :
        q # r /\ request[q].at = "send" => request[q].tx # t
  BY DEF IInv, OneCreatorOneSender, SendSaleNotification
<1>6. TypeOK'
  BY <1>2, <1>3, <1>4 DEF IInv, TypeOK
<1>7. RowInv'
  BY <1>1, <1>2, <1>3 DEF IInv, RowInv, Exists
<1>8. AwaitInv(r)'
  BY <1>4 DEF AwaitInv, Idle, Creating
<1>9. ASSUME NEW q \in Requests, q # r
      PROVE  AwaitInv(q)'
  BY <1>2, <1>3, <1>4, <1>5, <1>9
  DEF IInv, RequestInv, AwaitInv, ReportHolds, Exists, IsCompletedSale
<1>10. RequestInv'
  BY <1>8, <1>9 DEF RequestInv
<1>11. OneCreatorOneSender'
  BY <1>4 DEF IInv, OneCreatorOneSender, Idle, Creating
<1>12. /\ OutcomeIsTheProviders'
       /\ OneOpenPaymentPerSlot'
       /\ OpenMeansAvailable'
       /\ SoldOutMeansSold'
       /\ OneSalePerItem'
  BY <1>3 DEF IInv, OutcomeIsTheProviders, OneOpenPaymentPerSlot,
    OpenMeansAvailable, SoldOutMeansSold, OneSalePerItem, IsOpen, Took,
    IsCompletedSale
<1>13. NoticeInv'
  BY <1>1, <1>2, <1>3 DEF IInv, NoticeInv, IsCompletedSale
<1> QED
  BY <1>6, <1>7, <1>10, <1>11, <1>12, <1>13 DEF IInv

-----------------------------------------------------------------------------
(* applyProviderStatus *)

\* Where the handler goes is no await that claims the row.
LEMMA AfterApplyFacts ==
  ASSUME NEW op, NEW p, NEW slot
  PROVE  /\ AfterApply(op, p, slot) \in {"claim", "abandon", "idle"}
         /\ AfterApply(op, p, slot) \in Awaits
  BY DEF AfterApply, Awaits

\* A report that changes an outcome is the provider's own.
LEMMA AppliedOutcome ==
  ASSUME IInv, NEW r \in Requests, request[r].at = "apply",
         payment[request[r].tx].paymentStatus # "SUCCESS"
  PROVE  LET p == payment[request[r].tx]
             report == request[r].provider
             new == StatusAfter(p.paymentStatus, report)
         IN
         /\ report \in ProviderStatuses
         /\ p.chargeSaved
         /\ new \in PaymentStatuses
         /\ new = "SUCCESS" =>
              p.paymentStatus = "PENDING" /\ charge[request[r].tx] = "successful"
         /\ new = "FAILED" => charge[request[r].tx] = "failed"
         /\ new = "EXPIRED" => charge[request[r].tx] = "expired"
         /\ new = "PENDING" => p.paymentStatus = "PENDING"
<1> DEFINE t == request[r].tx
           p == payment[t]
           report == request[r].provider
<1>1. /\ t \in Transactions
      /\ Exists(t)
      /\ p.chargeSaved
      /\ report # "none"
      /\ report # "pending" => report = charge[t]
  BY DEF IInv, RequestInv, AwaitInv, ReportHolds
<1>2. /\ report \in ProviderStatuses
      /\ p.paymentStatus \in {"PENDING", "FAILED", "EXPIRED"}
  BY <1>1 DEF IInv, TypeOK, RequestRecord, PaymentRecord, Reports, Exists,
              PaymentStatuses
<1>3. /\ p.paymentStatus = "FAILED" => charge[t] = "failed"
      /\ p.paymentStatus = "EXPIRED" => charge[t] = "expired"
  BY <1>1 DEF IInv, OutcomeIsTheProviders
<1> HIDE DEF t, p, report
<1>4. /\ StatusAfter(p.paymentStatus, report) \in PaymentStatuses
      /\ StatusAfter(p.paymentStatus, report) = "SUCCESS" =>
           p.paymentStatus = "PENDING" /\ charge[t] = "successful"
      /\ StatusAfter(p.paymentStatus, report) = "FAILED" => charge[t] = "failed"
      /\ StatusAfter(p.paymentStatus, report) = "EXPIRED" =>
           charge[t] = "expired"
      /\ StatusAfter(p.paymentStatus, report) = "PENDING" =>
           p.paymentStatus = "PENDING"
  BY <1>1, <1>2, <1>3 DEF StatusAfter, ProviderStatuses, PaymentStatuses
<1> QED
  BY <1>1, <1>2, <1>4 DEF t, p, report

\* A confirmed open payment takes the item its slot still has.
LEMMA SaleRow ==
  ASSUME IInv, NEW t \in Transactions, NEW p \in PaymentRecord,
         payment' = [payment EXCEPT ![t] = p],
         p.slotId = payment[t].slotId,
         IsOpen(t), IsCompletedSale(p), payment[t].slotId \in Slots,
         slotStatus' = [slotStatus EXCEPT ![payment[t].slotId] = "SOLD_OUT"],
         UNCHANGED settled
  PROVE  /\ slotStatus' \in [Slots -> SlotStatuses]
         /\ OneOpenPaymentPerSlot'
         /\ OpenMeansAvailable'
         /\ SoldOutMeansSold'
         /\ OneSalePerItem'
<1> DEFINE s == payment[t].slotId
<1>1. /\ payment'[t] = p
      /\ \A u \in Transactions : u # t => payment'[u] = payment[u]
  BY RowUpdate DEF IInv
<1>2. /\ slotStatus' \in [Slots -> SlotStatuses]
      /\ slotStatus'[s] = "SOLD_OUT"
      /\ \A x \in Slots : x # s => slotStatus'[x] = slotStatus[x]
  BY DEF IInv, TypeOK, SlotStatuses
<1>3. slotStatus[s] = "AVAILABLE"
  BY DEF IInv, OpenMeansAvailable
<1>4. t \notin settled
  BY DEF IInv, RowInv, IsOpen
<1>5. \A u \in Transactions : ~ Took(u, s)
  BY <1>3 DEF IInv, SoldOutMeansSold
<1>6. /\ Took(t, s)'
      /\ \A x \in Slots : Took(t, x)' => x = s
      /\ \A x \in Slots : ~ Took(t, x)
  BY <1>1, <1>4 DEF Took, IsCompletedSale, IsOpen
<1>7. \A u \in Transactions, x \in Slots :
        u # t => (Took(u, x)' <=> Took(u, x))
  BY <1>1 DEF Took, IsCompletedSale
<1>8. \A u \in Transactions : IsOpen(u)' =>
        u # t /\ IsOpen(u) /\ payment'[u].slotId = payment[u].slotId
  BY <1>1 DEF IsOpen, IsCompletedSale
<1>9. OneOpenPaymentPerSlot'
  BY <1>8 DEF IInv, OneOpenPaymentPerSlot
<1>10. OpenMeansAvailable'
  <2>1. SUFFICES ASSUME NEW u \in Transactions, IsOpen(u)'
                 PROVE  slotStatus'[payment'[u].slotId] = "AVAILABLE"
    BY DEF OpenMeansAvailable
  <2>2. /\ u # t
        /\ IsOpen(u)
        /\ payment'[u].slotId = payment[u].slotId
    BY <1>8, <2>1
  <2>3. payment[u].slotId # s
    BY <2>2 DEF IInv, OneOpenPaymentPerSlot
  <2>4. payment[u].slotId \in Slots
    BY <2>2 DEF IInv, RowInv, Exists, IsOpen
  <2> QED
    BY <1>2, <2>2, <2>3, <2>4 DEF IInv, OpenMeansAvailable
<1>11. SoldOutMeansSold'
  <2>1. SUFFICES ASSUME NEW x \in Slots
                 PROVE  slotStatus'[x] = "SOLD_OUT" <=>
                          \E u \in Transactions : Took(u, x)'
    BY DEF SoldOutMeansSold
  <2>2. CASE x = s
    BY <1>2, <1>6, <2>2
  <2>3. CASE x # s
    BY <1>2, <1>6, <1>7, <2>3 DEF IInv, SoldOutMeansSold
  <2> QED
    BY <2>2, <2>3
<1>12. OneSalePerItem'
  BY <1>5, <1>6, <1>7 DEF IInv, OneSalePerItem
<1> QED
  BY <1>2, <1>9, <1>10, <1>11, <1>12

LEMMA ApplyProviderStatusInv ==
  ASSUME IInv, NEW r \in Requests, ApplyProviderStatus(r)
  PROVE  IInv'
<1> DEFINE t == request[r].tx
           report == request[r].provider
           status == StatusAfter(payment[t].paymentStatus, report)
           p == Recorded(payment[t], status, report)
<1>1. /\ t \in Transactions
      /\ Exists(t)
      /\ payment[t] \in PaymentRecord
      /\ payment[t].slotId \in Slots
  BY HasRow DEF ApplyProviderStatus
<1>2. UNCHANGED <<charge, settled, notices>>
  BY DEF ApplyProviderStatus
<1>3. PICK at \in {"claim", "abandon", "idle"} :
        at \in Awaits /\ Proceed(r, at, "none")
  BY AfterApplyFacts DEF ApplyProviderStatus
<1>4. /\ request' \in [Requests -> RequestRecord]
      /\ \/ request'[r] = Idle
         \/ /\ request'[r] = [op |-> request[r].op, at |-> at, tx |-> t,
                              provider |-> "none"]
            /\ at # "idle"
      /\ \A q \in Requests : q # r => request'[q] = request[q]
  BY <1>3, ProceedFacts DEF IInv, Reports
<1>5. OneCreatorOneSender'
  BY <1>4 DEF IInv, OneCreatorOneSender, Idle, Creating
<1>6. payment'[t].paymentStatus # "NONE" => AwaitInv(r)'
  BY <1>1, <1>4 DEF AwaitInv, Idle, Creating, Exists
<1>7. CASE payment[t].paymentStatus = "SUCCESS"
  <2>1. UNCHANGED <<payment, slotStatus>>
    BY <1>7 DEF ApplyProviderStatus
  <2>2. AwaitInv(r)'
    BY <1>6, <1>7, <2>1
  <2>3. RequestInv'
    BY <1>2, <1>4, <2>1, <2>2, OthersUnchanged DEF Idle, Creating
  <2> QED
    BY <1>2, <1>4, <1>5, <2>1, <2>3, RowsUnchanged DEF IInv, TypeOK
<1>8. CASE payment[t].paymentStatus # "SUCCESS"
  <2>1. /\ report \in ProviderStatuses
        /\ payment[t].chargeSaved
        /\ status \in PaymentStatuses
        /\ status = "SUCCESS" =>
             payment[t].paymentStatus = "PENDING" /\ charge[t] = "successful"
        /\ status = "FAILED" => charge[t] = "failed"
        /\ status = "EXPIRED" => charge[t] = "expired"
        /\ status = "PENDING" => payment[t].paymentStatus = "PENDING"
    BY <1>8, AppliedOutcome DEF ApplyProviderStatus
  <2> HIDE DEF status
  <2>2. /\ p \in PaymentRecord
        /\ p.slotId = payment[t].slotId
        /\ p.paymentStatus = status
        /\ p.chargeSaved = payment[t].chargeSaved
        /\ p.cancelled = payment[t].cancelled
        /\ p.notifyAttempted = payment[t].notifyAttempted
    <3>1. status \in RowStatuses /\ report \in RowReports
      BY <2>1 DEF RowStatuses, RowReports, Reports
    <3> HIDE DEF report, t
    <3> QED
      BY <1>1, <3>1, RecordedFacts
  <2>3. payment' = [payment EXCEPT ![t] = p]
    BY <1>8 DEF ApplyProviderStatus, status
  <2> HIDE DEF p
  <2>4. /\ payment' \in [Transactions -> PaymentRecord]
        /\ payment'[t] = p
        /\ \A u \in Transactions : u # t => payment'[u] = payment[u]
    BY <1>1, <2>2, <2>3, RowUpdate DEF IInv
  <2>5. slotStatus' = IF IsCompletedSale(p)
                      THEN [slotStatus EXCEPT ![payment[t].slotId] = "SOLD_OUT"]
                      ELSE slotStatus
    BY <1>8, <2>4 DEF ApplyProviderStatus, TakesItem, IsCompletedSale
  <2>6. /\ slotStatus' \in [Slots -> SlotStatuses]
        /\ OneOpenPaymentPerSlot'
        /\ OpenMeansAvailable'
        /\ SoldOutMeansSold'
        /\ OneSalePerItem'
    <3>1. CASE IsCompletedSale(p)
      <4>1. IsOpen(t)
        BY <2>1, <2>2, <3>1 DEF IsOpen, IsCompletedSale
      <4> QED
        BY <1>1, <1>2, <2>2, <2>3, <2>5, <3>1, <4>1, SaleRow
    <3>2. CASE ~ IsCompletedSale(p)
      <4>1. slotStatus' = slotStatus
        BY <2>5, <3>2
      <4>2. p.paymentStatus = "PENDING" /\ ~ p.cancelled => IsOpen(t)
        BY <2>1, <2>2 DEF IsOpen
      <4>3. ~ IsCompletedSale(payment[t])
        BY <1>8 DEF IsCompletedSale
      <4> QED
        BY <1>1, <1>2, <2>2, <2>3, <3>2, <4>1, <4>2, <4>3, QuietRow
        DEF IInv, TypeOK
    <3> QED
      BY <3>1, <3>2
  <2>7. TypeOK'
    BY <1>2, <1>4, <2>4, <2>6 DEF IInv, TypeOK
  <2>8. RowInv'
    BY <1>1, <1>2, <1>8, <2>1, <2>2, <2>4
    DEF IInv, RowInv, Exists, PaymentStatuses
  <2>9. ASSUME NEW q \in Requests, q # r
        PROVE  AwaitInv(q)'
    <3>1. AwaitInv(q)
      BY DEF IInv, RequestInv
    <3>2. request[q].at \in Creating => request[q].tx # t
      BY <2>1, <3>1 DEF AwaitInv
    <3>3. request[q].tx = t =>
            /\ payment'[t].paymentStatus # "NONE"
            /\ payment'[t].chargeSaved
            /\ ~ IsCompletedSale(payment[t])
            /\ payment[t].notifyAttempted => payment'[t].notifyAttempted
      BY <1>8, <2>1, <2>2, <2>4 DEF IsCompletedSale, PaymentStatuses
    <3>4. request[q].at # "idle" =>
            request[q].tx \in Transactions /\ Exists(request[q].tx)
      BY <3>1 DEF AwaitInv
    <3>5. request[q].at \in Creating =>
            ~ payment[request[q].tx].chargeSaved
      BY <3>1 DEF AwaitInv
    <3> QED
      BY <1>2, <1>4, <2>4, <2>9, <3>1, <3>2, <3>3, <3>4, <3>5, AwaitKept
      DEF Exists
  <2>10. RequestInv'
    <3>1. AwaitInv(r)'
      BY <1>6, <2>1, <2>2, <2>4 DEF PaymentStatuses
    <3> QED
      BY <2>9, <3>1 DEF RequestInv
  <2>11. OutcomeIsTheProviders'
    BY <1>2, <2>1, <2>2, <2>4 DEF IInv, OutcomeIsTheProviders
  <2>12. NoticeInv'
    <3>1. ~ IsCompletedSale(payment[t])
      BY <1>8 DEF IsCompletedSale
    <3> QED
      BY <1>1, <1>2, <2>2, <2>4, <3>1 DEF IInv, NoticeInv, IsCompletedSale
  <2> QED
    BY <1>5, <2>6, <2>7, <2>8, <2>10, <2>11, <2>12 DEF IInv
<1> QED
  BY <1>7, <1>8

-----------------------------------------------------------------------------
(* The restock *)

LEMMA CommitRestockInv ==
  ASSUME IInv, CommitRestock
  PROVE  IInv'
<1>1. /\ \A s \in Slots : slotStatus'[s] = "AVAILABLE"
      /\ slotStatus' \in [Slots -> SlotStatuses]
      /\ settled' = {t \in Transactions : payment[t].paymentStatus = "SUCCESS"}
      /\ UNCHANGED <<payment, charge, request, notices>>
  BY DEF CommitRestock, SlotStatuses
<1>2. TypeOK'
  BY <1>1 DEF IInv, TypeOK
<1>3. RowInv'
  BY <1>1 DEF IInv, RowInv, Exists
<1>4. RequestInv' /\ OneCreatorOneSender'
  BY <1>1 DEF IInv, RequestInv, AwaitInv, ReportHolds, Exists,
              OneCreatorOneSender, IsCompletedSale
<1>5. OutcomeIsTheProviders' /\ OneOpenPaymentPerSlot' /\ NoticeInv'
  BY <1>1 DEF IInv, OutcomeIsTheProviders, OneOpenPaymentPerSlot, NoticeInv,
              IsOpen, IsCompletedSale
<1>6. OpenMeansAvailable'
  BY <1>1, <1>3 DEF OpenMeansAvailable, RowInv, Exists, IsOpen
<1>7. \A t \in Transactions, s \in Slots : ~ Took(t, s)'
  BY <1>1 DEF Took, IsCompletedSale
<1>8. SoldOutMeansSold' /\ OneSalePerItem'
  BY <1>1, <1>7 DEF SoldOutMeansSold, OneSalePerItem
<1> QED
  BY <1>2, <1>3, <1>4, <1>5, <1>6, <1>8 DEF IInv

-----------------------------------------------------------------------------
(* The invariant *)

LEMMA InitInv ==
  ASSUME Init
  PROVE  IInv
<1>1. NoPayment \in PaymentRecord /\ Idle \in RequestRecord
  BY DEF NoPayment, PaymentRecord, Idle, RequestRecord, Operations, Awaits,
         Reports
<1>2. TypeOK
  BY <1>1 DEF Init, TypeOK, SlotStatuses, Reports
<1>3. RowInv
  BY DEF Init, RowInv, Exists, NoPayment
<1>4. RequestInv /\ OneCreatorOneSender
  BY DEF Init, RequestInv, AwaitInv, OneCreatorOneSender, Idle, Creating
<1>5. /\ OutcomeIsTheProviders
      /\ OneOpenPaymentPerSlot
      /\ OpenMeansAvailable
      /\ SoldOutMeansSold
      /\ OneSalePerItem
      /\ NoticeInv
  BY DEF Init, OutcomeIsTheProviders, OneOpenPaymentPerSlot,
         OpenMeansAvailable, SoldOutMeansSold, OneSalePerItem, NoticeInv,
         IsOpen, Took, IsCompletedSale, NoPayment
<1> QED
  BY <1>2, <1>3, <1>4, <1>5 DEF IInv

LEMMA StutterInv ==
  ASSUME IInv, UNCHANGED vars
  PROVE  IInv'
<1>1. UNCHANGED <<slotStatus, payment, charge, request, settled, notices>>
  BY DEF vars
<1>2. TypeOK' /\ OneCreatorOneSender'
  BY <1>1 DEF IInv, TypeOK, OneCreatorOneSender
<1>3. RequestInv'
  BY <1>1 DEF IInv, RequestInv, AwaitInv, ReportHolds, Exists, IsCompletedSale
<1> QED
  BY <1>1, <1>2, <1>3, RowsUnchanged DEF IInv

LEMMA NextInv ==
  ASSUME IInv, Next
  PROVE  IInv'
<1>1. ASSUME NEW r \in Requests, NEW t \in Transactions,
             NEW s \in Slots, CreatePendingPayment(r, s, t)
      PROVE  IInv'
  BY <1>1, CreatePendingPaymentInv
<1>2. ASSUME NEW r \in Requests, NEW t \in Transactions,
             \/ GetPaymentStatus(r, t)
             \/ ReceiveWebhook(r, t)
      PROVE  IInv'
  BY <1>2, GetPaymentStatusInv
<1>3. ASSUME NEW r \in Requests, NEW t \in Transactions, BeginCancel(r, t)
      PROVE  IInv'
  BY <1>3, BeginCancelInv
<1>4. ASSUME NEW r \in Requests, HandlerStep(r)
      PROVE  IInv'
  <2>1. ASSUME NEW reply \in {"pending", "failed"}, ProviderAccepts(r, reply)
        PROVE  IInv'
    BY <2>1, ChargeIsMade DEF ProviderAccepts
  <2>2. CASE ProviderReplyLost(r)
    BY <2>2, ChargeIsMade DEF ProviderReplyLost
  <2>3. CASE ProviderRefuses(r)
    BY <2>3, ProviderRefusesInv
  <2>4. CASE MarkProviderCreationFailed(r)
    BY <2>4, MarkProviderCreationFailedInv
  <2>5. CASE SaveProviderPayment(r)
    BY <2>5, SaveProviderPaymentInv
  <2>6. CASE RetrievePayment(r)
    BY <2>6, RetrievePaymentInv
  <2>7. CASE ApplyProviderStatus(r)
    BY <2>7, ApplyProviderStatusInv
  <2>8. CASE AbandonPayment(r)
    BY <2>8, AbandonPaymentInv
  <2>9. CASE ClaimSaleNotification(r)
    BY <2>9, ClaimSaleNotificationInv
  <2>10. CASE SendSaleNotification(r)
    BY <2>10, SendSaleNotificationInv
  <2> QED
    BY <1>4, <2>1, <2>2, <2>3, <2>4, <2>5, <2>6, <2>7, <2>8, <2>9, <2>10
    DEF HandlerStep
<1>5. ASSUME NEW r \in Requests, Abort(r)
      PROVE  IInv'
  BY <1>5, AbortInv
<1>6. ASSUME NEW t \in Transactions, CustomerPays(t)
      PROVE  IInv'
  BY <1>6, ChargeMovesOn DEF CustomerPays, ProviderStatuses
<1>7. ASSUME NEW t \in Transactions, NEW outcome \in {"failed", "expired"},
             ChargeEnds(t, outcome)
      PROVE  IInv'
  BY <1>7, ChargeMovesOn DEF ChargeEnds, ProviderStatuses
<1>8. CASE CommitRestock
  BY <1>8, CommitRestockInv
<1> QED
  BY <1>1, <1>2, <1>3, <1>4, <1>5, <1>6, <1>7, <1>8 DEF Next, Continue

\* IInv is inductive, so it holds in every state of the specification.
THEOREM Invariance == Spec => []IInv
<1>1. Init => IInv
  BY InitInv
<1>2. IInv /\ [Next]_vars => IInv'
  BY NextInv, StutterInv
<1> QED
  BY <1>1, <1>2, PTL DEF Spec

\* Every variable keeps its type.
THEOREM TypeCorrect == Spec => []TypeOK
<1>1. IInv => TypeOK
  BY DEF IInv
<1> QED
  BY <1>1, Invariance, PTL

\* Two customers are never shown a QR for the same item.
THEOREM OneOpenPayment == Spec => []OneOpenPaymentPerSlot
<1>1. IInv => OneOpenPaymentPerSlot
  BY DEF IInv
<1> QED
  BY <1>1, Invariance, PTL

\* A slot shows SOLD_OUT exactly when a confirmed payment took its item, and
\* between two restocks no item is sold twice.
THEOREM ItemsAreSoldOnce == Spec => []EveryItemIsSoldOnce
<1>1. IInv => EveryItemIsSoldOnce
  BY DEF IInv, EveryItemIsSoldOnce
<1> QED
  BY <1>1, Invariance, PTL

\* What a row says of its charge is what the provider says of it.
THEOREM OutcomeIsTrue == Spec => []OutcomeIsTheProviders
<1>1. IInv => OutcomeIsTheProviders
  BY DEF IInv
<1> QED
  BY <1>1, Invariance, PTL

\* No sale is announced twice, and nothing else is announced.
THEOREM OneNotice == Spec => []NotifiedAtMostOnce
<1>1. IInv => NotifiedAtMostOnce
  BY DEF IInv, NoticeInv, NotifiedAtMostOnce
<1> QED
  BY <1>1, Invariance, PTL

-----------------------------------------------------------------------------
(* What a step does to the rows *)

\* The step writes p to row t and leaves slots and settlements alone.
WritesRow(t, p) ==
  /\ payment' = [payment EXCEPT ![t] = p]
  /\ UNCHANGED <<slotStatus, settled>>

\* Row t moves on to status, which is no sale, or becomes abandoned.
Moves(t, p) ==
  /\ p.slotId = payment[t].slotId
  /\ payment[t].paymentStatus # "NONE"
  /\ \/ /\ p.paymentStatus = payment[t].paymentStatus
        /\ p.cancelled = payment[t].cancelled
     \/ /\ payment[t].paymentStatus = "PENDING"
        /\ p.paymentStatus \in {"FAILED", "EXPIRED"}
        /\ p.cancelled = payment[t].cancelled
     \/ /\ payment[t].paymentStatus = "PENDING"
        /\ p.paymentStatus = "SUCCESS"
        /\ p.cancelled
        /\ payment[t].cancelled
     \/ /\ p.paymentStatus = payment[t].paymentStatus
        /\ payment[t].paymentStatus # "SUCCESS"
        /\ ~ payment[t].cancelled
        /\ p.cancelled

\* Row t becomes the sale of its slot's item.
Sells(t, p) ==
  /\ p.slotId = payment[t].slotId
  /\ IsOpen(t)
  /\ slotStatus[payment[t].slotId] = "AVAILABLE"
  /\ IsCompletedSale(p)
  /\ payment' = [payment EXCEPT ![t] = p]
  /\ slotStatus' = [slotStatus EXCEPT ![payment[t].slotId] = "SOLD_OUT"]
  /\ UNCHANGED settled

MovesARow ==
  \E t \in Transactions, p \in PaymentRecord : WritesRow(t, p) /\ Moves(t, p)

SellsAnItem == \E t \in Transactions, p \in PaymentRecord : Sells(t, p)

CreatesARow ==
  \E r \in Requests, t \in Transactions, s \in Slots :
    CreatePendingPayment(r, s, t)

RowsStay == UNCHANGED <<slotStatus, payment, settled>>

LEMMA CreationFailedRow ==
  ASSUME IInv, NEW r \in Requests, MarkProviderCreationFailed(r)
  PROVE  MovesARow
<1> DEFINE t == request[r].tx
           p == Recorded(payment[t], "FAILED", "creation_failed")
<1>1. /\ t \in Transactions
      /\ payment[t] \in PaymentRecord
      /\ payment[t].paymentStatus = "PENDING"
      /\ ~ payment[t].chargeSaved
  BY CreatorAlone DEF MarkProviderCreationFailed, Creating
<1>2. /\ p \in PaymentRecord
      /\ p.slotId = payment[t].slotId
      /\ p.paymentStatus = "FAILED"
      /\ p.cancelled = payment[t].cancelled
  BY <1>1, RecordedFacts DEF RowStatuses, PaymentStatuses, RowReports
<1> HIDE DEF p
<1>3. WritesRow(t, p)
  BY <1>1 DEF MarkProviderCreationFailed, MayMarkCreationFailed, WritesRow, p
<1>4. Moves(t, p)
  BY <1>1, <1>2 DEF Moves
<1> QED
  BY <1>1, <1>2, <1>3, <1>4 DEF MovesARow

LEMMA SavedRow ==
  ASSUME IInv, NEW r \in Requests, SaveProviderPayment(r)
  PROVE  MovesARow
<1> DEFINE t == request[r].tx
           p == Saved(payment[t], request[r].provider)
<1>1. /\ t \in Transactions
      /\ payment[t] \in PaymentRecord
      /\ payment[t].paymentStatus = "PENDING"
  BY CreatorAlone DEF SaveProviderPayment, Creating
<1>2. request[r].provider \in RowReports
  BY DEF IInv, TypeOK, RequestRecord, RowReports
<1>3. /\ p \in PaymentRecord
      /\ p.slotId = payment[t].slotId
      /\ p.paymentStatus = payment[t].paymentStatus
      /\ p.cancelled = payment[t].cancelled
  BY <1>1, <1>2, SavedFacts
<1> HIDE DEF p
<1>4. WritesRow(t, p)
  BY DEF SaveProviderPayment, WritesRow, p
<1>5. Moves(t, p)
  BY <1>1, <1>3 DEF Moves
<1> QED
  BY <1>1, <1>3, <1>4, <1>5 DEF MovesARow

LEMMA AbandonedRow ==
  ASSUME IInv, NEW r \in Requests, AbandonPayment(r)
  PROVE  MovesARow \/ RowsStay
<1> DEFINE t == request[r].tx
           p == Abandoned(payment[t])
<1>1. CASE ~ MayAbandon(payment[t])
  BY <1>1 DEF AbandonPayment, RowsStay
<1>2. CASE MayAbandon(payment[t])
  <2>1. /\ t \in Transactions
        /\ payment[t] \in PaymentRecord
        /\ payment[t].paymentStatus # "NONE"
    BY HasRow DEF AbandonPayment, Exists
  <2>2. /\ p \in PaymentRecord
        /\ p.slotId = payment[t].slotId
        /\ p.paymentStatus = payment[t].paymentStatus
        /\ p.cancelled
    BY <2>1, AbandonedFacts
  <2> HIDE DEF p
  <2>3. WritesRow(t, p)
    BY <1>2 DEF AbandonPayment, WritesRow, p
  <2>4. Moves(t, p)
    BY <1>2, <2>1, <2>2 DEF Moves, MayAbandon
  <2> QED
    BY <2>1, <2>2, <2>3, <2>4 DEF MovesARow
<1> QED
  BY <1>1, <1>2

LEMMA ClaimedRow ==
  ASSUME IInv, NEW r \in Requests, ClaimSaleNotification(r)
  PROVE  MovesARow \/ RowsStay
<1> DEFINE t == request[r].tx
           p == Claimed(payment[t])
<1>1. CASE UNCHANGED payment
  BY <1>1 DEF ClaimSaleNotification, RowsStay
<1>2. CASE payment' = [payment EXCEPT ![t] = p]
  <2>1. /\ t \in Transactions
        /\ payment[t] \in PaymentRecord
        /\ payment[t].paymentStatus # "NONE"
    BY HasRow DEF ClaimSaleNotification, Exists
  <2>2. /\ p \in PaymentRecord
        /\ p.slotId = payment[t].slotId
        /\ p.paymentStatus = payment[t].paymentStatus
        /\ p.cancelled = payment[t].cancelled
    BY <2>1, ClaimedFacts
  <2> HIDE DEF p
  <2>3. WritesRow(t, p)
    BY <1>2 DEF ClaimSaleNotification, WritesRow
  <2>4. Moves(t, p)
    BY <2>1, <2>2 DEF Moves
  <2> QED
    BY <2>1, <2>2, <2>3, <2>4 DEF MovesARow
<1> QED
  BY <1>1, <1>2 DEF ClaimSaleNotification

LEMMA AppliedRow ==
  ASSUME IInv, NEW r \in Requests, ApplyProviderStatus(r)
  PROVE  MovesARow \/ SellsAnItem \/ RowsStay
<1> DEFINE t == request[r].tx
           report == request[r].provider
           status == StatusAfter(payment[t].paymentStatus, report)
           p == Recorded(payment[t], status, report)
<1>1. CASE payment[t].paymentStatus = "SUCCESS"
  BY <1>1 DEF ApplyProviderStatus, RowsStay
<1>2. CASE payment[t].paymentStatus # "SUCCESS"
  <2>1. /\ t \in Transactions
        /\ Exists(t)
        /\ payment[t] \in PaymentRecord
    BY HasRow DEF ApplyProviderStatus
  <2>2. /\ report \in ProviderStatuses
        /\ payment[t].chargeSaved
        /\ status \in PaymentStatuses
        /\ status = "SUCCESS" =>
             payment[t].paymentStatus = "PENDING" /\ charge[t] = "successful"
        /\ status = "FAILED" => charge[t] = "failed"
        /\ status = "EXPIRED" => charge[t] = "expired"
        /\ status = "PENDING" => payment[t].paymentStatus = "PENDING"
    BY <1>2, AppliedOutcome DEF ApplyProviderStatus
  <2> HIDE DEF status
  <2>3. /\ p \in PaymentRecord
        /\ p.slotId = payment[t].slotId
        /\ p.paymentStatus = status
        /\ p.cancelled = payment[t].cancelled
    <3>1. status \in RowStatuses /\ report \in RowReports
      BY <2>2 DEF RowStatuses, RowReports, Reports
    <3> HIDE DEF report, t
    <3> QED
      BY <2>1, <3>1, RecordedFacts
  <2>4. /\ payment[t].paymentStatus = "FAILED" => charge[t] = "failed"
        /\ payment[t].paymentStatus = "EXPIRED" => charge[t] = "expired"
        /\ payment[t].paymentStatus \in {"PENDING", "FAILED", "EXPIRED"}
    BY <1>2, <2>1, <2>2
    DEF IInv, OutcomeIsTheProviders, PaymentRecord, PaymentStatuses, Exists
  <2>5. payment' = [payment EXCEPT ![t] = p]
    BY <1>2 DEF ApplyProviderStatus, status
  <2> HIDE DEF p
  <2>6. payment'[t] = p
    BY <2>1, <2>3, <2>5, RowUpdate DEF IInv
  <2>7. /\ slotStatus' = IF IsCompletedSale(p)
                         THEN [slotStatus EXCEPT
                                 ![payment[t].slotId] = "SOLD_OUT"]
                         ELSE slotStatus
        /\ UNCHANGED settled
    BY <1>2, <2>6 DEF ApplyProviderStatus, TakesItem, IsCompletedSale
  <2>8. CASE IsCompletedSale(p)
    <3>1. IsOpen(t)
      BY <2>2, <2>3, <2>8 DEF IsOpen, IsCompletedSale
    <3>2. Sells(t, p)
      BY <2>1, <2>3, <2>5, <2>7, <2>8, <3>1
      DEF Sells, IInv, OpenMeansAvailable
    <3> QED
      BY <2>1, <2>3, <3>2 DEF SellsAnItem
  <2>9. CASE ~ IsCompletedSale(p)
    <3>1. WritesRow(t, p)
      BY <2>5, <2>7, <2>9 DEF WritesRow
    <3>2. Moves(t, p)
      BY <2>1, <2>2, <2>3, <2>4, <2>9
      DEF Moves, IsCompletedSale, PaymentStatuses, Exists
    <3> QED
      BY <2>1, <2>3, <3>1, <3>2 DEF MovesARow
  <2> QED
    BY <2>8, <2>9
<1> QED
  BY <1>1, <1>2

\* What a step that opens no payment does to the rows.
LEMMA ContinueSteps ==
  ASSUME IInv, Continue
  PROVE  RowsStay \/ MovesARow \/ SellsAnItem \/ CommitRestock
<1>1. ASSUME NEW r \in Requests, HandlerStep(r)
      PROVE  RowsStay \/ MovesARow \/ SellsAnItem
  <2>1. ASSUME NEW reply \in {"pending", "failed"}, ProviderAccepts(r, reply)
        PROVE  RowsStay
    BY <2>1 DEF ProviderAccepts, RowsStay
  <2>2. CASE ProviderReplyLost(r)
    BY <2>2 DEF ProviderReplyLost, RowsStay
  <2>3. CASE ProviderRefuses(r)
    BY <2>3 DEF ProviderRefuses, RowsStay
  <2>4. CASE RetrievePayment(r)
    BY <2>4 DEF RetrievePayment, RowsStay
  <2>5. CASE SendSaleNotification(r)
    BY <2>5 DEF SendSaleNotification, RowsStay
  <2> QED
    BY <1>1, <2>1, <2>2, <2>3, <2>4, <2>5, CreationFailedRow, SavedRow,
       AppliedRow, AbandonedRow, ClaimedRow
    DEF HandlerStep
<1>2. ASSUME NEW r \in Requests, NEW t \in Transactions,
             \/ GetPaymentStatus(r, t)
             \/ ReceiveWebhook(r, t)
             \/ BeginCancel(r, t)
             \/ Abort(r)
             \/ CustomerPays(t)
      PROVE  RowsStay
  BY <1>2 DEF GetPaymentStatus, ReceiveWebhook, Reconcile, BeginCancel, Abort,
              CustomerPays, RowsStay
<1>3. ASSUME NEW r \in Requests, Abort(r)
      PROVE  RowsStay
  BY <1>3 DEF Abort, RowsStay
<1>4. ASSUME NEW t \in Transactions, NEW outcome \in {"failed", "expired"},
             ChargeEnds(t, outcome)
      PROVE  RowsStay
  BY <1>4 DEF ChargeEnds, RowsStay
<1>5. ASSUME NEW t \in Transactions, CustomerPays(t)
      PROVE  RowsStay
  BY <1>5 DEF CustomerPays, RowsStay
<1> QED
  BY <1>1, <1>2, <1>3, <1>4, <1>5 DEF Continue

\* What every step of the backend does to the rows.
LEMMA RowSteps ==
  ASSUME IInv, [Next]_vars
  PROVE  RowsStay \/ CreatesARow \/ MovesARow \/ SellsAnItem \/ CommitRestock
<1>1. CASE UNCHANGED vars
  BY <1>1 DEF vars, RowsStay
<1>2. CASE Continue
  BY <1>2, ContinueSteps
<1> QED
  BY <1>1, <1>2 DEF Next, CreatesARow

-----------------------------------------------------------------------------
(* Outcomes are final *)

\* No step takes back or changes the outcome of a payment.
THEOREM OutcomesAreFinal == Spec => OutcomeIsFinal
<1> DEFINE Keeps(t) ==
      /\ payment[t].paymentStatus \in {"SUCCESS", "FAILED", "EXPIRED"} =>
           payment'[t].paymentStatus = payment[t].paymentStatus
      /\ payment[t].paymentStatus = "SUCCESS" =>
           payment'[t].cancelled = payment[t].cancelled
<1>1. ASSUME IInv, [Next]_vars
      PROVE  \A t \in Transactions : Keeps(t)
  <2>1. CASE RowsStay \/ CommitRestock
    BY <2>1 DEF RowsStay, CommitRestock
  <2>2. CASE CreatesARow
    <3>1. PICK r \in Requests, t \in Transactions, s \in Slots :
            CreatePendingPayment(r, s, t)
      BY <2>2 DEF CreatesARow
    <3>2. /\ payment[t].paymentStatus = "NONE"
          /\ \A u \in Transactions : u # t => payment'[u] = payment[u]
      BY <1>1, <3>1, NewRowFacts, RowUpdate
      DEF IInv, CreatePendingPayment, Exists
    <3> QED
      BY <3>2
  <2>3. CASE MovesARow
    <3>1. PICK t \in Transactions, p \in PaymentRecord :
            WritesRow(t, p) /\ Moves(t, p)
      BY <2>3 DEF MovesARow
    <3>2. /\ payment'[t] = p
          /\ \A u \in Transactions : u # t => payment'[u] = payment[u]
      BY <1>1, <3>1, RowUpdate DEF IInv, WritesRow
    <3> QED
      BY <3>1, <3>2 DEF Moves
  <2>4. CASE SellsAnItem
    <3>1. PICK t \in Transactions, p \in PaymentRecord : Sells(t, p)
      BY <2>4 DEF SellsAnItem
    <3>2. \A u \in Transactions : u # t => payment'[u] = payment[u]
      BY <1>1, <3>1, RowUpdate DEF IInv, Sells
    <3> QED
      BY <3>1, <3>2 DEF Sells, IsOpen
  <2> QED
    BY <1>1, <2>1, <2>2, <2>3, <2>4, RowSteps
<1>2. IInv /\ [Next]_vars =>
        [\A t \in Transactions :
           LET p == payment[t] IN
           /\ p.paymentStatus \in {"SUCCESS", "FAILED", "EXPIRED"} =>
                payment'[t].paymentStatus = p.paymentStatus
           /\ p.paymentStatus = "SUCCESS" =>
                payment'[t].cancelled = p.cancelled]_vars
  BY <1>1
<1> QED
  BY <1>2, Invariance, PTL DEF Spec, OutcomeIsFinal

-----------------------------------------------------------------------------
(* Every step keeps the promise *)

LEMMA ViewFacts ==
  /\ DOMAIN PurchaseView = Transactions
  /\ \A t \in Transactions :
       PurchaseView[t] = [ slot  |-> payment[t].slotId,
                           state |-> PurchaseState(payment[t], t \in settled) ]
  BY DEF PurchaseView

\* The state of a row, by its status.
LEMMA StateOfRow ==
  ASSUME NEW p \in PaymentRecord, NEW isSettled
  PROVE  LET state == PurchaseState(p, isSettled) IN
         /\ p.paymentStatus = "NONE" => state = "none"
         /\ p.paymentStatus = "PENDING" =>
              state = IF p.cancelled THEN "abandoned" ELSE "open"
         /\ p.paymentStatus \in {"FAILED", "EXPIRED"} =>
              state = IF p.cancelled THEN "abandoned" ELSE "closed"
         /\ p.paymentStatus = "SUCCESS" =>
              state = IF p.cancelled THEN "refundDue"
                      ELSE IF isSettled THEN "settled" ELSE "sold"
         /\ p.paymentStatus \in
              {"NONE", "PENDING", "FAILED", "EXPIRED", "SUCCESS"}
         /\ p.cancelled \in BOOLEAN
<1>1. /\ p.paymentStatus \in
           {"NONE", "PENDING", "FAILED", "EXPIRED", "SUCCESS"}
      /\ p.cancelled \in BOOLEAN
  BY DEF PaymentRecord, PaymentStatuses
<1>2. CASE p.cancelled
  BY <1>1, <1>2 DEF PurchaseState
<1>3. CASE ~ p.cancelled
  BY <1>1, <1>3 DEF PurchaseState
<1> QED
  BY <1>1, <1>2, <1>3

LEMMA ViewUpdate ==
  ASSUME TypeOK, NEW t \in Transactions, NEW p \in PaymentRecord,
         payment' = [payment EXCEPT ![t] = p], UNCHANGED settled
  PROVE  PurchaseView' =
           [PurchaseView EXCEPT ![t] =
              [slot |-> p.slotId, state |-> PurchaseState(p, t \in settled)]]
<1>1. /\ payment'[t] = p
      /\ \A u \in Transactions : u # t => payment'[u] = payment[u]
  BY RowUpdate
<1> QED
  BY <1>1 DEF PurchaseView

LEMMA OpenRefines ==
  ASSUME IInv, NEW r \in Requests, NEW t \in Transactions, NEW s \in Slots,
         CreatePendingPayment(r, s, t)
  PROVE  Promise!Open(t, s)
<1> DEFINE p == [ slotId |-> s, paymentStatus |-> "PENDING",
                  chargeSaved |-> FALSE, providerStatus |-> "none",
                  cancelled |-> FALSE, notifyAttempted |-> FALSE ]
<1>1. p \in PaymentRecord
  BY NewRowFacts
<1>2. PurchaseState(p, t \in settled) = "open" /\ p.slotId = s
  BY DEF PurchaseState
<1>3. payment' = [payment EXCEPT ![t] = p] /\ UNCHANGED <<slotStatus, settled>>
  BY DEF CreatePendingPayment
<1> HIDE DEF p
<1>4. PurchaseView' =
        [PurchaseView EXCEPT ![t] = [slot |-> s, state |-> "open"]]
  BY <1>1, <1>2, <1>3, ViewUpdate DEF IInv
<1>5. PurchaseView[t].state = "none"
  BY ViewFacts DEF PurchaseState, CreatePendingPayment, Exists
<1>6. ASSUME NEW u \in Transactions
      PROVE  ~ (PurchaseView[u].state = "open" /\ PurchaseView[u].slot = s)
  <2>1. PurchaseView[u].state = "open" => IsOpen(u)
    <3>1. payment[u] \in PaymentRecord
      BY DEF IInv, TypeOK
    <3>2. PurchaseView[u].state = PurchaseState(payment[u], u \in settled)
      BY ViewFacts
    <3> QED
      BY <3>1, <3>2, StateOfRow DEF IsOpen
  <2> QED
    BY <2>1, ViewFacts DEF CreatePendingPayment, SlotIsFree
<1>7. slotStatus[s] = "AVAILABLE"
  BY DEF CreatePendingPayment, SlotIsFree
<1> QED
  BY <1>3, <1>4, <1>5, <1>6, <1>7 DEF Promise!Open

LEMMA MoveRefines ==
  ASSUME IInv, NEW t \in Transactions, NEW p \in PaymentRecord,
         WritesRow(t, p), Moves(t, p)
  PROVE  \/ UNCHANGED <<slotStatus, PurchaseView>>
         \/ Promise!Close(t)
         \/ Promise!Abandon(t)
         \/ Promise!PayTooLate(t)
<1> DEFINE old == PurchaseState(payment[t], t \in settled)
           new == PurchaseState(p, t \in settled)
<1>1. /\ PurchaseView' = [PurchaseView EXCEPT ![t] =
                            [slot |-> PurchaseView[t].slot, state |-> new]]
      /\ UNCHANGED slotStatus
  <2>1. /\ TypeOK
        /\ payment' = [payment EXCEPT ![t] = p]
        /\ UNCHANGED <<slotStatus, settled>>
    BY DEF IInv, WritesRow
  <2>2. PurchaseView' =
          [PurchaseView EXCEPT ![t] = [slot |-> p.slotId, state |-> new]]
    BY <2>1, ViewUpdate
  <2>3. p.slotId = PurchaseView[t].slot
    BY ViewFacts DEF Moves
  <2> QED
    BY <2>1, <2>2, <2>3
<1>2. PurchaseView[t] = [slot |-> PurchaseView[t].slot, state |-> old]
  BY ViewFacts
<1>3. payment[t] \in PaymentRecord
  BY DEF IInv, TypeOK
<1>4. \/ new = old
      \/ old = "open" /\ new = "closed"
      \/ old \in {"open", "closed"} /\ new = "abandoned"
      \/ old = "abandoned" /\ new = "refundDue"
  <2> DEFINE isSettled == t \in settled
  <2> HIDE DEF isSettled
  <2>1. old = PurchaseState(payment[t], isSettled)
    BY DEF isSettled
  <2>2. new = PurchaseState(p, isSettled)
    BY DEF isSettled
  <2> HIDE DEF old, new
  <2>3. CASE payment[t].paymentStatus = "SUCCESS"
    BY <1>3, <2>1, <2>2, <2>3, StateOfRow DEF Moves
  <2>4. CASE payment[t].paymentStatus = "PENDING"
    BY <1>3, <2>1, <2>2, <2>4, StateOfRow DEF Moves
  <2>5. CASE payment[t].paymentStatus \in {"FAILED", "EXPIRED"}
    BY <1>3, <2>1, <2>2, <2>5, StateOfRow DEF Moves
  <2> QED
    BY <1>3, <2>3, <2>4, <2>5, StateOfRow DEF Moves
<1> HIDE DEF new, old
<1>5. CASE new = old
  <2>1. PurchaseView' = [PurchaseView EXCEPT ![t] = PurchaseView[t]]
    BY <1>1, <1>2, <1>5
  <2>2. PurchaseView' = PurchaseView
    BY <2>1 DEF PurchaseView
  <2> QED
    BY <1>1, <2>2
<1>6. CASE old = "open" /\ new = "closed"
  BY <1>1, <1>2, <1>6 DEF Promise!Close, Promise!Move
<1>7. CASE old \in {"open", "closed"} /\ new = "abandoned"
  BY <1>1, <1>2, <1>7 DEF Promise!Abandon, Promise!Move
<1>8. CASE old = "abandoned" /\ new = "refundDue"
  BY <1>1, <1>2, <1>8 DEF Promise!PayTooLate, Promise!Move
<1> QED
  BY <1>4, <1>5, <1>6, <1>7, <1>8

LEMMA SaleRefines ==
  ASSUME IInv, NEW t \in Transactions, NEW p \in PaymentRecord, Sells(t, p)
  PROVE  Promise!Sell(t)
<1>1. t \notin settled
  BY DEF Sells, IInv, RowInv, IsOpen
<1>2. PurchaseState(payment[t], t \in settled) = "open"
  BY DEF Sells, IsOpen, PurchaseState
<1>3. PurchaseState(p, t \in settled) = "sold"
  BY <1>1 DEF Sells, IsCompletedSale, PurchaseState
<1>4. PurchaseView' = [PurchaseView EXCEPT ![t] =
                         [slot |-> p.slotId, state |-> "sold"]]
  BY <1>3, ViewUpdate DEF IInv, Sells
<1>5. PurchaseView[t] = [slot |-> payment[t].slotId, state |-> "open"]
  BY <1>2, ViewFacts
<1> QED
  BY <1>4, <1>5 DEF Sells, Promise!Sell, Promise!Move

LEMMA RestockRefines ==
  ASSUME IInv, CommitRestock
  PROVE  Promise!Restock
<1> DEFINE View(t, isSettled) ==
      [ slot |-> payment[t].slotId, state |-> PurchaseState(payment[t], isSettled) ]
<1>1. PurchaseView' = [t \in Transactions |-> View(t, t \in settled')]
  BY DEF PurchaseView, CommitRestock
<1>2. ASSUME NEW t \in Transactions
      PROVE  View(t, t \in settled') =
               IF PurchaseView[t].state = "sold"
               THEN [slot |-> PurchaseView[t].slot, state |-> "settled"]
               ELSE PurchaseView[t]
  <2>1. payment[t] \in PaymentRecord
    BY DEF IInv, TypeOK
  <2>2. t \in settled => payment[t].paymentStatus = "SUCCESS"
    BY DEF IInv, RowInv
  <2>3. t \in settled' <=> payment[t].paymentStatus = "SUCCESS"
    BY DEF CommitRestock
  <2>4. PurchaseState(payment[t], t \in settled') =
          IF PurchaseState(payment[t], t \in settled) = "sold" THEN "settled"
          ELSE PurchaseState(payment[t], t \in settled)
    BY <2>1, <2>2, <2>3 DEF PurchaseState, PaymentRecord, PaymentStatuses
  <2> QED
    BY <2>4, ViewFacts
<1>3. PurchaseView' =
        [t \in Transactions |->
           IF PurchaseView[t].state = "sold"
           THEN [slot |-> PurchaseView[t].slot, state |-> "settled"]
           ELSE PurchaseView[t]]
  <2> HIDE DEF View
  <2> QED
    BY <1>1, <1>2
<1> QED
  BY <1>3 DEF Promise!Restock, CommitRestock

LEMMA StepRefines ==
  ASSUME IInv, [Next]_vars
  PROVE  Promise!Next \/ UNCHANGED <<slotStatus, PurchaseView>>
<1>1. CASE RowsStay
  BY <1>1 DEF RowsStay, PurchaseView
<1>2. CASE CreatesARow
  BY <1>2, OpenRefines DEF CreatesARow, Promise!Next
<1>3. CASE MovesARow
  BY <1>3, MoveRefines DEF MovesARow, Promise!Next
<1>4. CASE SellsAnItem
  BY <1>4, SaleRefines DEF SellsAnItem, Promise!Next
<1>5. CASE CommitRestock
  BY <1>5, RestockRefines DEF Promise!Next
<1> QED
  BY <1>1, <1>2, <1>3, <1>4, <1>5, RowSteps

\* The backend implements the shop of module Sale: each item is sold at most
\* once per restock, and only by a confirmed payment that is still open.
THEOREM Refinement == Spec => KeepsPromise
<1>1. Init => Promise!Init
  BY DEF Init, Promise!Init, PurchaseView, PurchaseState, NoPayment
<1>2. IInv /\ [Next]_vars => [Promise!Next]_(Promise!vars)
  BY StepRefines DEF Promise!vars
<1> QED
  BY <1>1, <1>2, Invariance, PTL DEF Spec, KeepsPromise, Promise!Spec
=============================================================================
