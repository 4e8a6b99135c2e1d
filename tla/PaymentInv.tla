---------------------------- MODULE PaymentInv ----------------------------
(***************************************************************************)
(* The inductive invariant behind the safety properties of module Payment. *)
(* The properties themselves are not inductive: they say nothing of the    *)
(* reports that handlers carry across their awaits, nor of who may still   *)
(* write a row.                                                            *)
(***************************************************************************)
EXTENDS Payment

Creating == {"createCharge", "creationFailed", "save"}

\* A row that is not created yet is untouched, a created one has a slot, and
\* a saved charge exists.
RowInv ==
  \A t \in Transactions :
    /\ ~ Exists(t) =>
         /\ payment[t] = NoPayment
         /\ charge[t] = "none"
         /\ notices[t] = 0
    /\ Exists(t) => payment[t].slotId \in Slots
    /\ payment[t].chargeSaved => charge[t] # "none"
    /\ t \in settled => payment[t].paymentStatus = "SUCCESS"

\* A report that is not "pending" is still what the provider says, because
\* the provider never takes back a final status.
ReportHolds(r) ==
  /\ request[r].provider # "none"
  /\ request[r].provider # "pending" => request[r].provider = charge[request[r].tx]

\* What handler r may rely on at each await.
AwaitInv(r) ==
  LET q == request[r] IN
  /\ q.at = "idle" => q = Idle
  /\ q.at # "idle" => q.tx \in Transactions /\ Exists(q.tx)
  /\ q.at \in Creating =>
       /\ q.op = "create"
       /\ payment[q.tx].paymentStatus = "PENDING"
       /\ ~ payment[q.tx].chargeSaved
  /\ q.at = "createCharge" => charge[q.tx] = "none"
  /\ q.at = "save" => charge[q.tx] # "none" /\ ReportHolds(r)
  /\ q.at = "retrieve" => payment[q.tx].chargeSaved
  /\ q.at = "apply" => payment[q.tx].chargeSaved /\ ReportHolds(r)
  /\ q.at = "send" =>
       /\ IsCompletedSale(payment[q.tx])
       /\ payment[q.tx].notifyAttempted
       /\ notices[q.tx] = 0

RequestInv == \A r \in Requests : AwaitInv(r)

\* One handler creates a row's charge, and one sends its notification.
OneCreatorOneSender ==
  \A r, q \in Requests :
    /\ request[r].tx = request[q].tx
    /\ \/ request[r].at \in Creating /\ request[q].at \in Creating
       \/ request[r].at = "send" /\ request[q].at = "send"
    => r = q

\* While a customer may still pay, the item is there.
OpenMeansAvailable ==
  \A t \in Transactions :
    IsOpen(t) => slotStatus[payment[t].slotId] = "AVAILABLE"

NoticeInv ==
  \A t \in Transactions :
    /\ notices[t] \in {0, 1}
    /\ ~ payment[t].notifyAttempted => notices[t] = 0
    /\ notices[t] = 1 => IsCompletedSale(payment[t])

IInv ==
  /\ TypeOK
  /\ RowInv
  /\ RequestInv
  /\ OneCreatorOneSender
  /\ OutcomeIsTheProviders
  /\ OneOpenPaymentPerSlot
  /\ OpenMeansAvailable
  /\ SoldOutMeansSold
  /\ OneSalePerItem
  /\ NoticeInv
=============================================================================
