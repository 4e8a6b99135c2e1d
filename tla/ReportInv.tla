----------------------------- MODULE ReportInv -----------------------------
(***************************************************************************)
(* The inductive invariant of OwnerReport: what a job knows of the ledger, *)
(* and for how long its key is good.                                       *)
(***************************************************************************)
EXTENDS OwnerReport

\* The row a job has read is the row, but for its status and its claim.
SeenInv ==
  \A j \in Jobs :
    /\ job[j].seen # Nothing =>
         /\ row # Nothing
         /\ row.retryKey = job[j].seen.retryKey
         /\ row.payload = job[j].seen.payload
         /\ row.createdAt = job[j].seen.createdAt
    /\ job[j].at \in {"review", "take", "send", "mark"} => job[j].seen # Nothing
    /\ job[j].at = "create" => job[j].payload # Nothing
    /\ job[j].at = "review" => job[j].seen.status \notin Final
    /\ job[j].at = "mark" => job[j].reply # "none"

\* A job sends only with a key that was good when it began.
KeyInv ==
  \A j \in Jobs :
    /\ job[j].at # "idle" => job[j].now <= now
    /\ job[j].at \in {"take", "send"} => ~ KeyExpired(job[j].seen, job[j].now)

\* What LINE has broadcast is the ledger's report, and no older than its row.
LineInv ==
  /\ row # Nothing => row.createdAt <= now
  /\ \A b \in accepted : row # Nothing /\ row.createdAt <= b.at
  /\ IsFiniteSet(accepted)
  /\ \A j \in Jobs :
       job[j].at = "mark" /\ job[j].reply = "accepted" => accepted # {}

IInv == TypeOK /\ SeenInv /\ KeyInv /\ LineInv /\ OwnerSawTheLedger
=============================================================================
