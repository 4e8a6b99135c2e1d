------------------------- MODULE OwnerReport_proofs -------------------------
(***************************************************************************)
(* Proofs about the owner's report, for any number of jobs, any sales and  *)
(* any limits of time that ReportAssumption allows, the longest run being  *)
(* no part of it: the owner receives the report of the ledger, once while  *)
(* its key is good, what is settled stays settled, and daily and weekly    *)
(* reports account for the same sales.                                     *)
(***************************************************************************)
EXTENDS ReportInv, FiniteSetTheorems, TLAPS

LEMMA Limits ==
  /\ Ttl \in Nat /\ Validity \in Nat /\ KeyLife \in Nat /\ NextPeriod \in Nat
  /\ MaxRun \in Nat /\ Horizon \in Nat
  /\ 0 < Validity /\ Validity <= KeyLife
  /\ Moment \subseteq Nat
BY ReportAssumption DEF Moment

LEMMA NothingIsNoRow == \A r \in Row : r # Nothing
BY NothingAssumption

LEMMA NothingIsNoReport == \A sales \in SUBSET Sales : sales # Nothing
BY NothingAssumption

\* The beginning.
LEMMA InitInv == Init => IInv
<1> SUFFICES ASSUME Init PROVE IInv
  OBVIOUS
<1> USE DEF Init
<1>1. TypeOK
  <2>1. Idle \in Run /\ 0 \in Moment
    BY Limits DEF Idle, Run, Awaits, Moment
  <2> QED
    BY <2>1 DEF TypeOK
<1>2. SeenInv /\ KeyInv
  BY DEF SeenInv, KeyInv, Idle
<1>3. LineInv /\ OwnerSawTheLedger
  BY FS_EmptySet DEF LineInv, OwnerSawTheLedger, Idle
<1> QED
  BY <1>1, <1>2, <1>3 DEF IInv

-----------------------------------------------------------------------------
(* What a step of one job does *)

\* Job j goes on to the run r, and changes of the row at most its status and
\* its claim; nothing is broadcast.
LEMMA JobKeeps ==
  ASSUME IInv, NEW j \in Jobs, NEW r \in Run, job' = [job EXCEPT ![j] = r],
         UNCHANGED <<now, sold, accepted>>,
         row' \in {Nothing} \union Row,
         row = Nothing => row' = Nothing,
         row # Nothing =>
           /\ row' # Nothing
           /\ row'.retryKey = row.retryKey
           /\ row'.payload = row.payload
           /\ row'.createdAt = row.createdAt
           /\ row'.status = "SENT" => row.status = "SENT" \/ accepted # {},
         r.seen # Nothing =>
           /\ row # Nothing
           /\ row.retryKey = r.seen.retryKey
           /\ row.payload = r.seen.payload
           /\ row.createdAt = r.seen.createdAt,
         r.at \in {"review", "take", "send", "mark"} => r.seen # Nothing,
         r.at = "create" => r.payload # Nothing,
         r.at = "review" => r.seen.status \notin Final,
         r.at = "mark" => r.reply # "none",
         r.at # "idle" => r.now <= now,
         r.at \in {"take", "send"} => ~ KeyExpired(r.seen, r.now),
         r.at = "mark" /\ r.reply = "accepted" => accepted # {}
  PROVE  IInv'
<1> USE DEF IInv
<1>0. job'[j] = r /\ \A k \in Jobs : k # j => job'[k] = job[k]
  BY DEF TypeOK
<1>1. TypeOK'
  BY DEF TypeOK
<1>2. SeenInv'
  BY <1>0 DEF SeenInv
<1>3. KeyInv'
  BY <1>0 DEF KeyInv, KeyExpired
<1>4. LineInv'
  BY <1>0 DEF LineInv
<1>5. OwnerSawTheLedger'
  BY DEF OwnerSawTheLedger, KeyExpired
<1> QED
  BY <1>1, <1>2, <1>3, <1>4, <1>5

LEMMA IdleRun == Idle \in Run
BY Limits DEF Idle, Run, Awaits, Moment

\* A job that ends does nothing more.
LEMMA EndKeeps ==
  ASSUME IInv, NEW j \in Jobs, job' = [job EXCEPT ![j] = Idle],
         UNCHANGED <<now, sold, accepted>>,
         row' \in {Nothing} \union Row,
         row = Nothing => row' = Nothing,
         row # Nothing =>
           /\ row' # Nothing
           /\ row'.retryKey = row.retryKey
           /\ row'.payload = row.payload
           /\ row'.createdAt = row.createdAt
           /\ row'.status = "SENT" => row.status = "SENT" \/ accepted # {}
  PROVE  IInv'
<1>1. /\ Idle.seen = Nothing
      /\ Idle.at = "idle"
  BY DEF Idle
<1> QED
  BY <1>1, IdleRun, JobKeeps

-----------------------------------------------------------------------------
(* The steps *)

LEMMA ConfirmSaleKeeps ==
  ASSUME IInv, ConfirmSale
  PROVE  IInv'
BY ReportAssumption DEF ConfirmSale, IInv, TypeOK, SeenInv, KeyInv, KeyExpired, LineInv,
   OwnerSawTheLedger

LEMMA TickKeeps ==
  ASSUME IInv, Tick
  PROVE  IInv'
<1> USE DEF Tick, IInv
<1>1. TypeOK'
  BY Limits DEF TypeOK, Moment
<1>2. SeenInv' /\ OwnerSawTheLedger'
  <2>1. now \in Nat /\ (row # Nothing => row.createdAt \in Nat) /\ Validity \in Nat
    BY Limits DEF TypeOK, Row
  <2>2. row # Nothing /\ KeyExpired(row, now) => KeyExpired(row, now')
    BY <2>1 DEF KeyExpired
  <2>3. row = Nothing => Cardinality(accepted) = 0
    BY FS_EmptySet DEF LineInv
  <2> QED
    BY <2>2, <2>3 DEF SeenInv, OwnerSawTheLedger
<1>3. KeyInv'
  <2>1. \A j \in Jobs : job[j].now \in Nat
    BY Limits DEF TypeOK, Run
  <2>2. now \in Nat
    BY Limits DEF TypeOK
  <2> QED
    BY <2>1, <2>2 DEF KeyInv, KeyExpired
<1>4. LineInv'
  <2>1. now \in Nat /\ (row # Nothing => row.createdAt \in Nat)
    BY Limits DEF TypeOK, Row
  <2> QED
    BY <2>1 DEF LineInv
<1> QED
  BY <1>1, <1>2, <1>3, <1>4

LEMMA StartKeeps ==
  ASSUME IInv, NEW j \in Jobs, Start(j)
  PROVE  IInv'
<1> DEFINE r == [Idle EXCEPT !.at = "claim", !.now = now]
<1>1. /\ r \in Run /\ r.seen = Nothing /\ r.at = "claim" /\ r.now = now
  BY DEF IInv, TypeOK, Idle, Run, Awaits
<1>2. /\ row' \in {Nothing} \union Row
      /\ row = Nothing => row' = Nothing
      /\ row # Nothing =>
           /\ row' # Nothing
           /\ row'.retryKey = row.retryKey
           /\ row'.payload = row.payload
           /\ row'.createdAt = row.createdAt
           /\ row'.status = "SENT" => row.status = "SENT"
  BY NothingIsNoRow DEF Start, IInv, TypeOK, Row, Final
<1>3. UNCHANGED <<now, sold, accepted>>
  BY DEF Start
<1>4. r.now <= now
  <2>1. now \in Nat
    BY Limits DEF IInv, TypeOK
  <2> HIDE DEF r
  <2> QED
    BY <1>1, <2>1
<1> HIDE DEF r
<1>5. CASE job' = [job EXCEPT ![j] = r]
  BY <1>1, <1>2, <1>3, <1>4, <1>5, JobKeeps
<1>6. CASE job' = job
  <2>1. job[j] \in Run /\ job' = [job EXCEPT ![j] = job[j]]
    BY <1>6 DEF IInv, TypeOK
  <2> QED
    BY <1>2, <1>3, <2>1, JobKeeps DEF IInv, SeenInv, KeyInv, LineInv
<1> QED
  BY <1>5, <1>6 DEF Start, r

LEMMA ReadClaimKeeps ==
  ASSUME IInv, NEW j \in Jobs, ReadClaim(j)
  PROVE  IInv'
<1>0. /\ job[j] \in Run /\ job[j].at = "claim"
      /\ job[j].now <= now
      /\ row \in {Nothing} \union Row
      /\ UNCHANGED <<now, sold, row, accepted>>
  BY DEF ReadClaim, IInv, TypeOK, KeyInv
<1> DEFINE go(at) == [job[j] EXCEPT !.at = at, !.seen = row]
<1>1. CASE job' = [job EXCEPT ![j] = Idle]
  BY <1>0, <1>1, EndKeeps
<1>2. ASSUME NEW at \in {"collect", "create", "review", "take"},
             job' = [job EXCEPT ![j].at = at, ![j].seen = row],
             at = "create" => job[j].payload # Nothing,
             at \in {"review", "take"} => row # Nothing,
             at = "review" => row.status \notin Final,
             at = "take" => ~ KeyExpired(row, job[j].now)
      PROVE  IInv'
  <2>1. job' = [job EXCEPT ![j] = go(at)]
    BY <1>2 DEF IInv, TypeOK
  <2>2. /\ go(at) \in Run /\ go(at).at = at /\ go(at).seen = row
        /\ go(at).now = job[j].now /\ go(at).payload = job[j].payload
    BY <1>0, <1>2 DEF Run, Awaits
  <2> HIDE DEF go
  <2> QED
    BY <1>0, <1>2, <2>1, <2>2, JobKeeps
<1>3. CASE row = Nothing /\ job[j].payload = Nothing
           /\ job' = [job EXCEPT ![j].at = "collect", ![j].seen = row]
  BY <1>2, <1>3
<1>4. CASE row = Nothing /\ job[j].payload # Nothing
           /\ job' = [job EXCEPT ![j].at = "create", ![j].seen = row]
  BY <1>2, <1>4
<1>5. CASE /\ row # Nothing
           /\ row.status = "FAILED" \/ StaleClaim(row, job[j].now)
           /\ KeyExpired(row, job[j].now)
           /\ job' = [job EXCEPT ![j].at = "review", ![j].seen = row]
  BY <1>2, <1>5 DEF StaleClaim, Final
<1>6. CASE /\ row # Nothing
           /\ ~ KeyExpired(row, job[j].now)
           /\ job' = [job EXCEPT ![j].at = "take", ![j].seen = row]
  BY <1>2, <1>6
<1> QED
  BY <1>1, <1>3, <1>4, <1>5, <1>6 DEF ReadClaim

LEMMA CollectKeeps ==
  ASSUME IInv, NEW j \in Jobs, Collect(j)
  PROVE  IInv'
<1> DEFINE report == Reportable(sold, ReportPeriod)
           r == [job[j] EXCEPT !.at = "claim", !.payload = report]
<1>1. report \in SUBSET Sales
  BY DEF Reportable, IInv, TypeOK
<1> HIDE DEF report
<1>2. /\ job[j] \in Run /\ job[j].at = "collect"
      /\ job' = [job EXCEPT ![j] = r]
      /\ UNCHANGED <<now, sold, row, accepted>>
  BY DEF Collect, report, IInv, TypeOK
<1>3. /\ r \in Run /\ r.at = "claim" /\ r.seen = job[j].seen /\ r.now = job[j].now
  BY <1>1, <1>2 DEF Run, Awaits
<1>4. /\ row \in {Nothing} \union Row
      /\ r.now <= now
      /\ r.seen # Nothing =>
           /\ row # Nothing
           /\ row.retryKey = r.seen.retryKey
           /\ row.payload = r.seen.payload
           /\ row.createdAt = r.seen.createdAt
  BY <1>2, <1>3 DEF IInv, TypeOK, KeyInv, SeenInv
<1> HIDE DEF r
<1> QED
  BY <1>2, <1>3, <1>4, JobKeeps

\* The row is new; no job has seen one before.
LEMMA CreateRowKeeps ==
  ASSUME IInv, NEW j \in Jobs, CreateRow(j)
  PROVE  IInv'
<1> DEFINE fresh == [ status |-> "SENDING", claimedAt |-> job[j].now,
                      createdAt |-> job[j].now, retryKey |-> j,
                      payload |-> job[j].payload ]
<1>0. /\ job[j] \in Run /\ job[j].at = "create" /\ job[j].payload # Nothing
      /\ job[j].now <= now
      /\ UNCHANGED <<now, sold, accepted>>
  BY DEF CreateRow, IInv, TypeOK, KeyInv, SeenInv
<1>1. CASE /\ row = Nothing
           /\ row' = fresh
           /\ job' = [job EXCEPT ![j].at = "send", ![j].seen = fresh]
  <2>1. fresh \in Row
    BY <1>0 DEF Run, Row, Final
  <2>2. /\ fresh.createdAt = job[j].now /\ fresh.status = "SENDING"
    OBVIOUS
  <2>3. ~ KeyExpired(fresh, job[j].now)
    <3>1. job[j].now \in Nat /\ Validity \in Nat /\ 0 < Validity
      BY <1>0, Limits DEF Run
    <3> QED
      BY <3>1 DEF KeyExpired
  <2> HIDE DEF fresh
  <2> DEFINE r == [job[j] EXCEPT !.at = "send", !.seen = fresh]
  <2>4. /\ r \in Run /\ r.at = "send" /\ r.seen = fresh /\ r.now = job[j].now
    BY <1>0, <2>1 DEF Run, Awaits
  <2> HIDE DEF r
  <2>5. job' = [job EXCEPT ![j] = r]
    BY <1>1 DEF r, IInv, TypeOK
  <2>6. job'[j] = r /\ \A k \in Jobs : k # j => job'[k] = job[k]
    BY <2>5 DEF IInv, TypeOK
  <2>7. \A k \in Jobs : job[k].seen = Nothing
    BY <1>1 DEF IInv, SeenInv
  <2>8. accepted = {}
    BY <1>1 DEF IInv, LineInv
  <2>9. fresh # Nothing
    BY <2>1, NothingIsNoRow
  <2> USE <1>0, <1>1, <2>6, <2>7, <2>8, <2>9 DEF IInv
  <2>10. TypeOK'
    BY <2>1, <2>4, <2>5 DEF TypeOK
  <2>11. SeenInv'
    BY <2>4 DEF SeenInv
  <2>12. KeyInv'
    BY <2>3, <2>4 DEF KeyInv, KeyExpired
  <2>13. LineInv'
    BY <2>2, <2>4 DEF LineInv
  <2>14. OwnerSawTheLedger'
    BY <2>2, FS_EmptySet DEF OwnerSawTheLedger
  <2> QED
    BY <2>10, <2>11, <2>12, <2>13, <2>14
<1>2. CASE /\ ~ RowIsFree
           /\ job' = [job EXCEPT ![j].at = "claim", ![j].payload = Nothing]
           /\ UNCHANGED row
  <2> DEFINE r == [job[j] EXCEPT !.at = "claim", !.payload = Nothing]
  <2>1. /\ r \in Run /\ r.at = "claim" /\ r.seen = job[j].seen /\ r.now = job[j].now
    BY <1>0 DEF Run, Awaits
  <2>2. job' = [job EXCEPT ![j] = r]
    BY <1>2 DEF IInv, TypeOK
  <2>3. /\ row \in {Nothing} \union Row
        /\ r.seen # Nothing =>
             /\ row # Nothing
             /\ row.retryKey = r.seen.retryKey
             /\ row.payload = r.seen.payload
             /\ row.createdAt = r.seen.createdAt
    BY <2>1 DEF IInv, TypeOK, SeenInv
  <2> HIDE DEF r
  <2> QED
    BY <1>0, <1>2, <2>1, <2>2, <2>3, JobKeeps
<1> QED
  BY <1>1, <1>2 DEF CreateRow, RowIsFree

\* The row keeps what it is, whatever its status and its claim become.
LEMMA RowWith ==
  ASSUME row \in Row, NEW status \in Final \union {"SENDING", "FAILED"},
         NEW t \in Moment,
         \/ row' = [row EXCEPT !.status = status]
         \/ row' = [row EXCEPT !.status = status, !.claimedAt = t]
  PROVE  /\ row' \in Row
         /\ row'.status = status
         /\ row'.retryKey = row.retryKey
         /\ row'.payload = row.payload
         /\ row'.createdAt = row.createdAt
BY DEF Row

LEMMA ReviewExpiredKeeps ==
  ASSUME IInv, NEW j \in Jobs, ReviewExpired(j)
  PROVE  IInv'
<1>1. row \in Row /\ 0 \in Moment
  BY Limits DEF ReviewExpired, IInv, TypeOK, SeenInv, Moment
<1>2. /\ row' \in {row, [row EXCEPT !.status = "MANUAL_REVIEW"]}
      /\ job' = [job EXCEPT ![j] = Idle]
      /\ UNCHANGED <<now, sold, accepted>>
  BY DEF ReviewExpired
<1>3. /\ row' \in Row
      /\ row'.retryKey = row.retryKey
      /\ row'.payload = row.payload
      /\ row'.createdAt = row.createdAt
      /\ row'.status = "SENT" => row.status = "SENT"
  <2>1. CASE row' = row
    BY <1>1, <2>1
  <2>2. CASE row' = [row EXCEPT !.status = "MANUAL_REVIEW"]
    <3>1. "MANUAL_REVIEW" \in Final \union {"SENDING", "FAILED"}
      BY DEF Final
    <3> QED
      BY <1>1, <2>2, <3>1, RowWith
  <2> QED
    BY <1>2, <2>1, <2>2
<1> QED
  BY <1>1, <1>2, <1>3, NothingIsNoRow, EndKeeps

LEMMA TakeClaimKeeps ==
  ASSUME IInv, NEW j \in Jobs, TakeClaim(j)
  PROVE  IInv'
<1>0. /\ job[j] \in Run /\ job[j].at = "take" /\ row \in Row
      /\ job[j].now <= now
      /\ job[j].seen # Nothing /\ ~ KeyExpired(job[j].seen, job[j].now)
      /\ row.retryKey = job[j].seen.retryKey
      /\ row.payload = job[j].seen.payload
      /\ row.createdAt = job[j].seen.createdAt
      /\ UNCHANGED <<now, sold, accepted>>
  BY DEF TakeClaim, IInv, TypeOK, SeenInv, KeyInv
<1>1. CASE /\ row' = [row EXCEPT !.status = "SENDING", !.claimedAt = job[j].now]
           /\ job' = [job EXCEPT ![j].at = "send"]
  <2> DEFINE r == [job[j] EXCEPT !.at = "send"]
  <2>1. /\ r \in Run /\ r.at = "send" /\ r.seen = job[j].seen /\ r.now = job[j].now
    BY <1>0 DEF Run, Awaits
  <2>2. job' = [job EXCEPT ![j] = r]
    BY <1>1 DEF IInv, TypeOK
  <2> HIDE DEF r
  <2>3. /\ row' \in Row
        /\ row'.retryKey = row.retryKey
        /\ row'.payload = row.payload
        /\ row'.createdAt = row.createdAt
        /\ row'.status = "SENDING"
    <3>1. job[j].now \in Moment /\ "SENDING" \in Final \union {"SENDING", "FAILED"}
      BY <1>0 DEF Run
    <3> QED
      BY <1>0, <1>1, <3>1, RowWith
  <2> QED
    BY <1>0, <2>1, <2>2, <2>3, NothingIsNoRow, JobKeeps
<1>2. CASE job' = [job EXCEPT ![j] = Idle] /\ UNCHANGED row
  BY <1>0, <1>2, NothingIsNoRow, EndKeeps
<1> QED
  BY <1>1, <1>2 DEF TakeClaim

\* LINE broadcasts the report of the row, and if it has broadcast it before,
\* the key has run out by now.
LEMMA SendFacts ==
  ASSUME IInv, NEW j \in Jobs, Send(j)
  PROVE  LET new == [retryKey |-> row.retryKey, payload |-> row.payload, at |-> now] IN
         \/ UNCHANGED accepted
         \/ /\ accepted' = accepted \union {new}
            /\ Cardinality(accepted') = Cardinality(accepted) + 1
            /\ accepted = {} \/ KeyExpired(row, now)
<1>0. /\ job[j] \in Run /\ job[j].at = "send" /\ row \in Row
      /\ job[j].seen # Nothing
      /\ row.retryKey = job[j].seen.retryKey
      /\ row.payload = job[j].seen.payload
      /\ now \in Nat /\ IsFiniteSet(accepted)
  BY Limits DEF Send, IInv, TypeOK, SeenInv, LineInv
<1> DEFINE new == [retryKey |-> row.retryKey, payload |-> row.payload, at |-> now]
<1>1. accepted' = Broadcast(j) \/ UNCHANGED accepted
  BY DEF Send
<1>2. CASE ~ KnownToLine(KeyOf(j)) /\ accepted' = Broadcast(j)
  <2>1. accepted' = accepted \union {new}
    BY <1>0, <1>2 DEF Broadcast, KeyOf
  <2>2. ASSUME NEW b \in accepted
        PROVE  b.at # now /\ KeyExpired(row, now)
    <3>1. b.retryKey = KeyOf(j)
      BY <1>0 DEF KeyOf, IInv, OwnerSawTheLedger
    <3>2. ~ (now < b.at + KeyLife)
      BY <1>2, <3>1 DEF KnownToLine
    <3>3. /\ row.createdAt \in Nat /\ b.at \in Nat /\ row.createdAt <= b.at
          /\ Validity \in Nat /\ KeyLife \in Nat
          /\ 0 < Validity /\ Validity <= KeyLife
      BY <1>0, Limits DEF IInv, TypeOK, Row, LineInv
    <3> QED
      BY <1>0, <3>2, <3>3 DEF KeyExpired
  <2>3. new.at = now
    OBVIOUS
  <2> HIDE DEF new
  <2>4. new \notin accepted
    BY <2>2, <2>3
  <2>5. Cardinality(accepted') = Cardinality(accepted) + 1
    BY <1>0, <2>1, <2>4, FS_AddElement
  <2>6. accepted = {} \/ KeyExpired(row, now)
    BY <2>2
  <2> QED
    BY <2>1, <2>5, <2>6 DEF new
<1>3. CASE KnownToLine(KeyOf(j))
  BY <1>1, <1>3 DEF Broadcast
<1> QED
  BY <1>1, <1>2, <1>3

LEMMA SendKeeps ==
  ASSUME IInv, NEW j \in Jobs, Send(j)
  PROVE  IInv'
<1>0. /\ job[j] \in Run /\ job[j].at = "send" /\ row \in Row
      /\ job[j].now <= now
      /\ job[j].seen # Nothing /\ ~ KeyExpired(job[j].seen, job[j].now)
      /\ row.retryKey = job[j].seen.retryKey
      /\ row.payload = job[j].seen.payload
      /\ row.createdAt = job[j].seen.createdAt
      /\ row.createdAt <= now /\ now \in Moment
      /\ UNCHANGED <<now, sold, row>>
  BY DEF Send, IInv, TypeOK, SeenInv, KeyInv, LineInv
<1> DEFINE new == [retryKey |-> row.retryKey, payload |-> row.payload, at |-> now]
<1>1. new \in [retryKey : Jobs, payload : SUBSET Sales, at : Moment]
  BY <1>0 DEF Row
<1>2. new.retryKey = row.retryKey /\ new.payload = row.payload /\ new.at = now
  OBVIOUS
<1>3. \/ UNCHANGED accepted
      \/ /\ accepted' = accepted \union {new}
         /\ Cardinality(accepted') = Cardinality(accepted) + 1
         /\ accepted = {} \/ KeyExpired(row, now)
  BY SendFacts
<1>4. PICK reply \in {"accepted", "retryable", "refused"} :
        /\ job' = [job EXCEPT ![j].at = "mark", ![j].reply = reply]
        /\ \/ reply \in {"accepted", "retryable"} /\ accepted' = Broadcast(j)
           \/ reply \in {"retryable", "refused"} /\ UNCHANGED accepted
  BY DEF Send
<1> HIDE DEF new
<1>5. IsFiniteSet(accepted')
  BY <1>3, FS_AddElement DEF IInv, LineInv
<1>6. reply = "accepted" => accepted' # {}
  <2>1. CASE KnownToLine(KeyOf(j))
    BY <1>4, <2>1 DEF Broadcast, KnownToLine
  <2>2. CASE ~ KnownToLine(KeyOf(j))
    BY <1>4, <2>2 DEF Broadcast
  <2> QED
    BY <2>1, <2>2
<1> DEFINE r == [job[j] EXCEPT !.at = "mark", !.reply = reply]
<1>7. /\ r \in Run /\ r.at = "mark" /\ r.seen = job[j].seen /\ r.now = job[j].now
      /\ r.reply = reply
  BY <1>0 DEF Run, Awaits
<1>8. job' = [job EXCEPT ![j] = r]
  BY <1>4 DEF IInv, TypeOK
<1> HIDE DEF r
<1>9. job'[j] = r /\ \A k \in Jobs : k # j => job'[k] = job[k]
  BY <1>8 DEF IInv, TypeOK
<1>10. row # Nothing
  BY <1>0, NothingIsNoRow
<1> USE <1>0, <1>10 DEF IInv
<1>11. TypeOK'
  BY <1>1, <1>3, <1>7, <1>8 DEF TypeOK
<1>12. SeenInv'
  BY <1>7, <1>9 DEF SeenInv
<1>13. KeyInv'
  BY <1>7, <1>9 DEF KeyInv, KeyExpired
<1>14. LineInv'
  BY <1>2, <1>3, <1>5, <1>6, <1>7, <1>9 DEF LineInv
<1>15. OwnerSawTheLedger'
  <2>1. \A b \in accepted' : b.retryKey = row.retryKey /\ b.payload = row.payload
    BY <1>2, <1>3 DEF OwnerSawTheLedger
  <2>2. row.status = "SENT" => accepted' # {}
    BY <1>3 DEF OwnerSawTheLedger
  <2>3. Cardinality(accepted') > 1 => KeyExpired(row, now)
    BY <1>3, FS_EmptySet DEF OwnerSawTheLedger
  <2> QED
    BY <2>1, <2>2, <2>3 DEF OwnerSawTheLedger, KeyExpired
<1> QED
  BY <1>11, <1>12, <1>13, <1>14, <1>15

LEMMA MarkKeeps ==
  ASSUME IInv, NEW j \in Jobs, Mark(j)
  PROVE  IInv'
<1>0. /\ job[j] \in Run /\ job[j].at = "mark" /\ row \in Row /\ 0 \in Moment
      /\ job[j].reply = "accepted" => accepted # {}
      /\ job[j].reply # "none"
      /\ job' = [job EXCEPT ![j] = Idle]
      /\ UNCHANGED <<now, sold, accepted>>
  BY Limits DEF Mark, IInv, TypeOK, SeenInv, LineInv, Moment
<1>1. CASE UNCHANGED row
  BY <1>0, <1>1, NothingIsNoRow, EndKeeps
<1>2. CASE Markable(row) /\ row' = [row EXCEPT !.status = MarkFor(job[j].reply)]
  <2>1. PICK status \in Final \union {"SENDING", "FAILED"} :
          /\ row' = [row EXCEPT !.status = status]
          /\ status = "SENT" => accepted # {}
    <3>1. CASE job[j].reply = "accepted"
      BY <1>0, <1>2, <3>1 DEF MarkFor, Final
    <3>2. CASE job[j].reply = "retryable"
      BY <1>2, <3>2 DEF MarkFor, Final
    <3>3. CASE job[j].reply = "refused"
      BY <1>2, <3>3 DEF MarkFor, Final
    <3> QED
      BY <1>0, <3>1, <3>2, <3>3 DEF Run
  <2>2. /\ row' \in Row
        /\ row'.retryKey = row.retryKey
        /\ row'.payload = row.payload
        /\ row'.createdAt = row.createdAt
        /\ row'.status = "SENT" => accepted # {}
    BY <1>0, <2>1, RowWith
  <2> QED
    BY <1>0, <2>2, NothingIsNoRow, EndKeeps
<1> QED
  BY <1>1, <1>2 DEF Mark

LEMMA AbortKeeps ==
  ASSUME IInv, NEW j \in Jobs, Abort(j)
  PROVE  IInv'
BY EndKeeps DEF Abort, IInv, TypeOK

LEMMA StepKeeps == IInv /\ [Next]_vars => IInv'
<1> SUFFICES ASSUME IInv, [Next]_vars PROVE IInv'
  OBVIOUS
<1>1. CASE UNCHANGED vars
  BY <1>1 DEF vars, IInv, TypeOK, SeenInv, KeyInv, KeyExpired, LineInv,
     OwnerSawTheLedger
<1>2. ASSUME NEW j \in Jobs, Proceed(j) PROVE IInv'
  BY <1>2, ReadClaimKeeps, CollectKeeps, CreateRowKeeps, ReviewExpiredKeeps,
     TakeClaimKeeps, SendKeeps, MarkKeeps DEF Proceed
<1>3. ASSUME NEW j \in Jobs, Start(j) \/ Proceed(j) \/ Abort(j) PROVE IInv'
  BY <1>2, <1>3, StartKeeps, AbortKeeps
<1> QED
  BY <1>1, <1>3, ConfirmSaleKeeps, TickKeeps DEF Next

\* The invariant holds in every state of every behaviour.
THEOREM Invariance == Spec => []IInv
<1>1. Init => IInv
  BY InitInv
<1>2. IInv /\ [Next]_vars => IInv'
  BY StepKeeps
<1> QED
  BY <1>1, <1>2, PTL DEF Spec

-----------------------------------------------------------------------------
(* The properties *)

\* The variables keep their types.
THEOREM TypeCorrect == Spec => []TypeOK
<1>1. IInv => TypeOK
  BY DEF IInv
<1> QED
  BY <1>1, Invariance, PTL

\* What the owner receives is the report the ledger keeps, once while its key
\* is good, although runs overlap, stop and take over each other's claims; and
\* one the ledger calls sent was received.
THEOREM LedgerIsTrue == Spec => []OwnerSawTheLedger
<1>1. IInv => OwnerSawTheLedger
  BY DEF IInv
<1> QED
  BY <1>1, Invariance, PTL

\* No step takes a row out of SENT or MANUAL_REVIEW: not the claim of a job
\* that read the row before, and not the mark of one that claimed it before.
LEMMA FinalStep ==
  ASSUME IInv, [Next]_vars, row # Nothing, row.status \in Final
  PROVE  row' = row
<1>1. row \in Row
  BY DEF IInv, TypeOK
<1>2. CASE UNCHANGED row
  BY <1>2
<1>3. ASSUME NEW j \in Jobs, Start(j) PROVE UNCHANGED row
  BY <1>3 DEF Start, Unresolved, Final
<1>4. ASSUME NEW j \in Jobs, CreateRow(j) PROVE UNCHANGED row
  BY <1>4 DEF CreateRow, RowIsFree
<1>5. ASSUME NEW j \in Jobs, ReviewExpired(j) PROVE UNCHANGED row
  BY <1>5 DEF ReviewExpired, IInv, SeenInv
<1>6. ASSUME NEW j \in Jobs, TakeClaim(j) PROVE UNCHANGED row
  BY <1>6 DEF TakeClaim, Claimable, StaleClaim, Final
<1>7. ASSUME NEW j \in Jobs, Mark(j) PROVE UNCHANGED row
  BY <1>7 DEF Mark, Markable, Final
<1>8. ASSUME NEW j \in Jobs, ReadClaim(j) \/ Collect(j) \/ Send(j) \/ Abort(j)
      PROVE  UNCHANGED row
  BY <1>8 DEF ReadClaim, Collect, Send, Abort
<1>9. CASE ConfirmSale \/ Tick \/ UNCHANGED vars
  BY <1>9 DEF ConfirmSale, Tick, vars
<1> QED
  BY <1>2, <1>3, <1>4, <1>5, <1>6, <1>7, <1>8, <1>9 DEF Next, Proceed

-----------------------------------------------------------------------------
(* What the owner is promised *)

Heard == [m \in {Type} |-> Cardinality(accepted)]

Verdicts == [m \in {Type} |-> Verdict]

Expired == {m \in {Type} : row # Nothing /\ KeyExpired(row, now)}

\* Job j may still send, or make the row that it will send.
MaySend(j) == job[j].at # "idle" /\ (row = Nothing \/ ~ KeyExpired(row, job[j].now))

Underway == {m \in {Type} : \E j \in Jobs : MaySend(j)}

\* What becomes of the row while LINE broadcasts nothing.
LEMMA SettleRefines ==
  ASSUME IInv, IInv', [Next]_vars, UNCHANGED accepted
  PROVE  Promise!Settle
<1>1. Verdict' \in Promise!Verdicts
  BY DEF Verdict, Promise!Verdicts
<1>2. ASSUME Verdict' # Verdict
      PROVE  /\ Verdict = "open"
             /\ Verdict' = "sent" => Cardinality(accepted) > 0
  <2>1. row # Nothing => row.status \notin Final
    BY <1>2, FinalStep DEF Verdict
  <2>2. Verdict' = "sent" => accepted # {}
    BY DEF IInv, OwnerSawTheLedger, Verdict
  <2>3. accepted # {} => Cardinality(accepted) > 0
    <3>1. IsFiniteSet(accepted)
      BY DEF IInv, LineInv
    <3>2. Cardinality(accepted) \in Nat /\ (Cardinality(accepted) = 0 <=> accepted = {})
      BY <3>1, FS_CardinalityType, FS_EmptySet
    <3> QED
      BY <3>2
  <2> QED
    BY <2>1, <2>2, <2>3 DEF Verdict, Final
<1>3. Verdicts' = [m \in {Type} |-> Verdict']
  BY DEF Verdicts
<1>4. Verdicts' \in [{Type} -> Promise!Verdicts]
  BY <1>1, <1>3
<1>5. ASSUME NEW m \in {Type}, Verdicts'[m] # Verdicts[m]
      PROVE  /\ Verdicts[m] = "open"
             /\ Verdicts'[m] = "sent" => Heard[m] > 0
  BY <1>2, <1>3, <1>5 DEF Verdicts, Heard
<1> QED
  BY <1>4, <1>5 DEF Promise!Settle, Verdicts, Heard

\* A row keeps the time its key dates from.
LEMMA KeptKey ==
  ASSUME IInv, [Next]_vars, row # Nothing
  PROVE  row' # Nothing /\ row'.createdAt = row.createdAt
<1>1. row \in Row /\ 0 \in Moment
  BY Limits DEF IInv, TypeOK, Moment
<1>2. CASE UNCHANGED row
  BY <1>2
<1>3. ASSUME NEW status \in Final \union {"SENDING", "FAILED"}, NEW t \in Moment,
             \/ row' = [row EXCEPT !.status = status]
             \/ row' = [row EXCEPT !.status = status, !.claimedAt = t]
      PROVE  row' # Nothing /\ row'.createdAt = row.createdAt
  BY <1>1, <1>3, RowWith, NothingIsNoRow
<1>4. ASSUME NEW j \in Jobs, Start(j) \/ ReviewExpired(j)
      PROVE  UNCHANGED row \/ row' = [row EXCEPT !.status = "MANUAL_REVIEW"]
  BY <1>4 DEF Start, ReviewExpired
<1>5. ASSUME NEW j \in Jobs, TakeClaim(j)
      PROVE  \/ UNCHANGED row
             \/ \E t \in Moment : row' = [row EXCEPT !.status = "SENDING", !.claimedAt = t]
  BY <1>5 DEF TakeClaim, IInv, TypeOK, Run
<1>6. ASSUME NEW j \in Jobs, Mark(j)
      PROVE  \/ UNCHANGED row
             \/ \E status \in Final \union {"FAILED"} : row' = [row EXCEPT !.status = status]
  <2>1. job[j].reply \in {"accepted", "retryable", "refused"}
    BY <1>6 DEF Mark, IInv, TypeOK, SeenInv, Run
  <2>2. MarkFor(job[j].reply) \in Final \union {"FAILED"}
    BY <2>1 DEF MarkFor, Final
  <2> QED
    BY <1>6, <2>2 DEF Mark
<1>7. ASSUME NEW j \in Jobs,
             ReadClaim(j) \/ Collect(j) \/ CreateRow(j) \/ Send(j) \/ Abort(j)
      PROVE  UNCHANGED row
  BY <1>7 DEF ReadClaim, Collect, CreateRow, RowIsFree, Send, Abort
<1>8. CASE ConfirmSale \/ Tick \/ UNCHANGED vars
  BY <1>2, <1>8 DEF ConfirmSale, Tick, vars
<1>9. "MANUAL_REVIEW" \in Final
  BY DEF Final
<1> QED
  BY <1>1, <1>2, <1>3, <1>4, <1>5, <1>6, <1>7, <1>8, <1>9 DEF Next, Proceed

\* A job takes the time once, when it starts.
LEMMA KeptTime ==
  ASSUME IInv, [Next]_vars, NEW j \in Jobs, ~ Start(j), job'[j].at # "idle"
  PROVE  job[j].at # "idle" /\ job'[j].now = job[j].now
<1>1. job \in [Jobs -> Run] /\ job[j] \in Run /\ Idle.at = "idle"
  BY DEF IInv, TypeOK, Idle
<1>2. CASE job'[j] = job[j]
  BY <1>2
<1>3. CASE ReadClaim(j)
  BY <1>1, <1>3 DEF ReadClaim, Run
<1>4. CASE Collect(j) \/ CreateRow(j)
  BY <1>1, <1>4 DEF Collect, CreateRow, Run
<1>5. CASE ReviewExpired(j) \/ TakeClaim(j) \/ Mark(j) \/ Abort(j)
  BY <1>1, <1>5 DEF ReviewExpired, TakeClaim, Mark, Abort, Run
<1>6. CASE Send(j)
  BY <1>1, <1>6 DEF Send, Run
<1>7. ASSUME NEW k \in Jobs, k # j, Start(k) \/ Proceed(k) \/ Abort(k)
      PROVE  job'[j] = job[j]
  BY <1>1, <1>7 DEF Start, Proceed, ReadClaim, Collect, CreateRow, ReviewExpired,
     TakeClaim, Send, Mark, Abort
<1>8. CASE ConfirmSale \/ Tick \/ UNCHANGED vars
  BY <1>2, <1>8 DEF ConfirmSale, Tick, vars
<1> QED
  BY <1>2, <1>3, <1>4, <1>5, <1>6, <1>7, <1>8 DEF Next, Proceed

\* Time does not go back, and who starts a run takes the time as it is.
LEMMA KeysRunOutRefines ==
  ASSUME IInv, [Next]_vars
  PROVE  Promise!KeysRunOut
<1>1. now \in Nat /\ now' \in {now, now + 1}
  BY Limits DEF IInv, TypeOK, Next, ConfirmSale, Proceed, Start, ReadClaim, Collect,
     CreateRow, ReviewExpired, TakeClaim, Send, Mark, Abort, Tick, vars
<1>2. ASSUME row # Nothing, KeyExpired(row, now)
      PROVE  row' # Nothing /\ KeyExpired(row', now')
  <2>1. row.createdAt \in Nat /\ Validity \in Nat
    BY <1>2, Limits DEF IInv, TypeOK, Row
  <2> QED
    BY <1>1, <1>2, <2>1, KeptKey DEF KeyExpired
<1>3. ASSUME NEW j \in Jobs, MaySend(j)', row' # Nothing, KeyExpired(row', now')
      PROVE  MaySend(j)
  <2>1. CASE Start(j)
    <3>1. job' = job \/ (job'[j].now = now /\ now' = now)
      BY <2>1 DEF Start, Idle, IInv, TypeOK
    <3>2. job' # job
      BY <1>3, <2>1 DEF MaySend, Start
    <3> QED
      BY <1>3, <3>1, <3>2 DEF MaySend
  <2>2. CASE ~ Start(j)
    <3>1. job[j].at # "idle" /\ job'[j].now = job[j].now
      BY <1>3, <2>2, KeptTime DEF MaySend
    <3>2. row # Nothing => row'.createdAt = row.createdAt
      BY KeptKey
    <3> QED
      BY <1>3, <3>1, <3>2 DEF MaySend, KeyExpired
  <2> QED
    BY <2>1, <2>2
<1>4. Expired \subseteq Expired' /\ Expired' \subseteq {Type}
  BY <1>2 DEF Expired
<1>5. Underway' \subseteq {Type} /\ Underway' \intersect Expired' \subseteq Underway
  BY <1>3 DEF Underway, Expired
<1> QED
  BY <1>4, <1>5 DEF Promise!KeysRunOut, Expired, Underway, MaySend

\* LINE broadcasts what it has not broadcast, or whose key has run out since
\* the job began.
LEMMA SendRefines ==
  ASSUME IInv, NEW j \in Jobs, Send(j)
  PROVE  UNCHANGED accepted \/ Promise!Announce(Type)
<1>1. CASE ~ UNCHANGED accepted
  <2>1. /\ UNCHANGED <<now, row>> /\ row # Nothing /\ MaySend(j)
    <3>1. /\ UNCHANGED <<now, row>> /\ job[j].at = "send" /\ job[j].seen # Nothing
          /\ row # Nothing /\ row.createdAt = job[j].seen.createdAt
          /\ ~ KeyExpired(job[j].seen, job[j].now)
      BY DEF Send, IInv, SeenInv, KeyInv
    <3> QED
      BY <3>1 DEF MaySend, KeyExpired
  <2>2. /\ Cardinality(accepted') = Cardinality(accepted) + 1
        /\ Cardinality(accepted) = 0 \/ KeyExpired(row, now)
    BY <1>1, SendFacts, FS_EmptySet
  <2>3. Heard' = [Heard EXCEPT ![Type] = @ + 1]
    BY <2>2 DEF Heard
  <2>4. Verdicts' = Verdicts /\ Expired' = Expired
    BY <2>1 DEF Verdicts, Verdict, Expired
  <2>5. \A k \in Jobs : job'[k].now = job[k].now
                        /\ (job'[k].at # "idle" <=> job[k].at # "idle")
    BY DEF Send, IInv, TypeOK, Run
  <2>6. Underway' = Underway
    BY <2>1, <2>5 DEF Underway, MaySend, KeyExpired
  <2>7. Type \in Underway
    BY <2>1 DEF Underway
  <2>8. Heard[Type] = 0 \/ Type \in Expired
    BY <2>1, <2>2 DEF Heard, Expired
  <2> QED
    BY <2>3, <2>4, <2>6, <2>7, <2>8
    DEF Promise!Announce, Heard, Verdicts, Expired, Underway, MaySend
<1> QED
  BY <1>1

LEMMA StepRefines ==
  ASSUME IInv, IInv', [Next]_vars
  PROVE  Promise!Next
<1>1. CASE UNCHANGED accepted
  <2>1. Promise!Settle /\ Promise!KeysRunOut
    BY <1>1, SettleRefines, KeysRunOutRefines
  <2> QED
    BY <1>1, <2>1 DEF Promise!Next, Promise!Proceed
<1>2. CASE \E j \in Jobs : Send(j)
  <2>1. Type \in {Type}
    OBVIOUS
  <2> QED
    BY <1>1, <1>2, <2>1, SendRefines DEF Promise!Next
<1> QED
  BY <1>1, <1>2 DEF Next, Start, Proceed, ReadClaim, Collect, CreateRow,
     ReviewExpired, TakeClaim, Mark, Abort, ConfirmSale, Tick, vars

\* The delivery of a report implements module Notice: the owner hears of it
\* once while its key is good, and again only from a run that has outlasted
\* the key; and a row that is sent or left to a person is neither claimed again
\* nor marked otherwise, whatever a job read or claimed before.
THEOREM Refinement == Spec => KeepsPromise
<1>1. Init => Promise!Init
  BY FS_EmptySet DEF Init, Promise!Init, Verdict, Idle
<1>2. IInv /\ IInv' /\ [Next]_vars => [Promise!Next]_(Promise!vars)
  BY StepRefines
<1> QED
  BY <1>1, <1>2, Invariance, PTL DEF Spec, KeepsPromise, Promise!Spec

-----------------------------------------------------------------------------
(* Sums over finite sets, as the folds of the reports compute them *)

\* The element that a fold takes out of a set first.
Pick(s) == CHOOSE x \in s : TRUE

LEMMA PickFacts == ASSUME NEW s, s # {} PROVE Pick(s) \in s
BY DEF Pick

\* g is the recursive function that a sum of f over S is computed with.
IsSum(g, f, S) ==
  g = [s \in SUBSET S |-> IF s = {} THEN 0 ELSE f[Pick(s)] + g[s \ {Pick(s)}]]

\* The values of f over S added up.
Total(f, S) == SumFunctionOnSet(f, S)

LEMMA SumFacts ==
  ASSUME NEW g, NEW f, NEW S, IsSum(g, f, S), NEW s \in SUBSET S
  PROVE  /\ s = {} => g[s] = 0
         /\ s # {} => g[s] = f[Pick(s)] + g[s \ {Pick(s)}]
BY DEF IsSum

\* What the inductions over finite sets below rest on: among some subsets of
\* a finite set, one has none of the others within it.
LEMMA SmallestSet ==
  ASSUME NEW S, IsFiniteSet(S), NEW Bad \in SUBSET (SUBSET S), Bad # {}
  PROVE  \E T \in Bad : \A U \in Bad : U \subseteq T => U = T
<1>1. IsWellFoundedOn(StrictSubsetOrdering(S), SUBSET S)
  BY FS_StrictSubsetOrderingWellFounded, FS_FiniteSubsetsOfFinite
<1>2. PICK T \in Bad : \A U \in Bad : ~ (<<U, T>> \in StrictSubsetOrdering(S))
  BY <1>1, WFMin
<1>3. ASSUME NEW U \in Bad, U \subseteq T PROVE U = T
  BY <1>2, <1>3 DEF StrictSubsetOrdering
<1> QED
  BY <1>3

\* Two such functions agree where both are defined.
LEMMA SumsAgree ==
  ASSUME NEW S, IsFiniteSet(S), NEW T, NEW f, NEW g, NEW h,
         IsSum(g, f, S), IsSum(h, f, T),
         NEW U \in SUBSET S, U \subseteq T
  PROVE  g[U] = h[U]
<1> DEFINE Bad == {s \in SUBSET S : s \subseteq T /\ g[s] # h[s]}
<1> SUFFICES ASSUME Bad # {} PROVE FALSE
  OBVIOUS
<1>1. PICK s \in Bad : \A u \in Bad : u \subseteq s => u = s
  <2>1. Bad \in SUBSET (SUBSET S)
    OBVIOUS
  <2> HIDE DEF Bad
  <2> QED
    BY <2>1, SmallestSet
<1>2. s # {}
  BY <1>1, SumFacts
<1>3. Pick(s) \in s
  BY <1>2, PickFacts
<1>4. s \ {Pick(s)} \notin Bad
  BY <1>1, <1>3
<1> QED
  BY <1>1, <1>2, <1>4, SumFacts

\* There is one over every finite set.
LEMMA SumExists ==
  ASSUME NEW S, IsFiniteSet(S), NEW f
  PROVE  \E g : IsSum(g, f, S)
<1> DEFINE Bad == {s \in SUBSET S : ~ \E g : IsSum(g, f, s)}
<1> SUFFICES ASSUME Bad # {} PROVE FALSE
  OBVIOUS
<1>1. PICK T \in Bad : \A u \in Bad : u \subseteq T => u = T
  <2>1. Bad \in SUBSET (SUBSET S)
    OBVIOUS
  <2> HIDE DEF Bad
  <2> QED
    BY <2>1, SmallestSet
<1> DEFINE Below(s) == CHOOSE g : IsSum(g, f, s \ {Pick(s)})
           G == [s \in SUBSET T |->
                   IF s = {} THEN 0 ELSE f[Pick(s)] + Below(s)[s \ {Pick(s)}]]
<1>2. ASSUME NEW s \in SUBSET T, s # {}
      PROVE  IsSum(Below(s), f, s \ {Pick(s)})
  <2>1. s \ {Pick(s)} \in SUBSET S /\ s \ {Pick(s)} \subseteq T /\ s \ {Pick(s)} # T
    BY <1>2, PickFacts
  <2>2. \E g : IsSum(g, f, s \ {Pick(s)})
    BY <1>1, <2>1
  <2> HIDE DEF Bad
  <2> QED
    BY <2>2
<1> HIDE DEF Below
<1>3. ASSUME NEW s \in SUBSET T, s # {}
      PROVE  Below(s)[s \ {Pick(s)}] = G[s \ {Pick(s)}]
  <2> DEFINE u == s \ {Pick(s)}
  <2>1. u \in SUBSET T /\ u \in SUBSET u
    BY <1>3
  <2>2. IsSum(Below(s), f, u)
    BY <1>2, <1>3
  <2>3. CASE u = {}
    BY <2>1, <2>2, <2>3, SumFacts
  <2>4. CASE u # {}
    <3>1. Below(s)[u] = f[Pick(u)] + Below(s)[u \ {Pick(u)}]
      <4> HIDE DEF u
      <4> QED
        BY <2>1, <2>2, <2>4, SumFacts
    <3>2. IsSum(Below(u), f, u \ {Pick(u)})
      BY <1>2, <2>1, <2>4
    <3>3. IsFiniteSet(u)
      BY <2>1, <1>1, FS_Subset
    <3>4. Below(s)[u \ {Pick(u)}] = Below(u)[u \ {Pick(u)}]
      BY <2>2, <3>2, <3>3, SumsAgree
    <3> QED
      BY <2>1, <2>4, <3>1, <3>4
  <2> QED
    BY <2>3, <2>4
<1>4. IsSum(G, f, T)
  BY <1>3 DEF IsSum
<1> QED
  BY <1>1, <1>4

LEMMA TotalIsSum ==
  ASSUME NEW S, IsFiniteSet(S), NEW f, NEW g, IsSum(g, f, S)
  PROVE  Total(f, S) = g[S]
<1>1. Total(f, S) = (CHOOSE h : IsSum(h, f, S))[S]
  BY DEF Total, SumFunctionOnSet, FoldFunctionOnSet, MapThenFoldSet, IsSum, Pick
<1>2. IsSum(CHOOSE h : IsSum(h, f, S), f, S)
  OBVIOUS
<1> QED
  BY <1>1, <1>2, SumsAgree

\* What the fold computes, one element at a time.
LEMMA TotalFacts ==
  ASSUME NEW S, IsFiniteSet(S), NEW f
  PROVE  /\ S = {} => Total(f, S) = 0
         /\ S # {} => Total(f, S) = f[Pick(S)] + Total(f, S \ {Pick(S)})
<1>1. PICK g : IsSum(g, f, S)
  BY SumExists
<1>2. Total(f, S) = g[S]
  BY <1>1, TotalIsSum
<1>3. CASE S = {}
  BY <1>1, <1>2, <1>3, SumFacts
<1>4. CASE S # {}
  <2>1. IsFiniteSet(S \ {Pick(S)})
    BY FS_RemoveElement
  <2>2. PICK h : IsSum(h, f, S \ {Pick(S)})
    BY <2>1, SumExists
  <2>3. Total(f, S \ {Pick(S)}) = h[S \ {Pick(S)}]
    BY <2>1, <2>2, TotalIsSum
  <2>4. h[S \ {Pick(S)}] = g[S \ {Pick(S)}]
    BY <1>1, <2>1, <2>2, SumsAgree
  <2>5. g[S] = f[Pick(S)] + g[S \ {Pick(S)}]
    BY <1>1, <1>4, SumFacts
  <2> QED
    BY <1>2, <1>4, <2>3, <2>4, <2>5
<1> QED
  BY <1>3, <1>4

\* A total of natural numbers is one.
LEMMA TotalIsNat ==
  ASSUME NEW S, IsFiniteSet(S), NEW f, \A x \in S : f[x] \in Nat
  PROVE  \A s \in SUBSET S : Total(f, s) \in Nat
<1> DEFINE Bad == {s \in SUBSET S : Total(f, s) \notin Nat}
<1> SUFFICES ASSUME Bad # {} PROVE FALSE
  OBVIOUS
<1>1. PICK s \in Bad : \A u \in Bad : u \subseteq s => u = s
  <2>1. Bad \in SUBSET (SUBSET S)
    OBVIOUS
  <2> HIDE DEF Bad
  <2> QED
    BY <2>1, SmallestSet
<1>2. IsFiniteSet(s)
  BY FS_Subset
<1>3. s # {}
  <2>1. s = {} => Total(f, s) = 0
    BY <1>2, TotalFacts
  <2> QED
    BY <1>1, <2>1
<1>4. Pick(s) \in s
  BY <1>3, PickFacts
<1>5. Total(f, s \ {Pick(s)}) \in Nat
  BY <1>1, <1>4
<1>6. Total(f, s) = f[Pick(s)] + Total(f, s \ {Pick(s)})
  BY <1>2, <1>3, TotalFacts
<1> QED
  BY <1>1, <1>4, <1>5, <1>6

\* Any element may be taken out first.
LEMMA TakeOut ==
  ASSUME NEW S, IsFiniteSet(S), NEW f, \A x \in S : f[x] \in Nat
  PROVE  \A s \in SUBSET S : \A x \in s : Total(f, s) = f[x] + Total(f, s \ {x})
<1> DEFINE Bad == {s \in SUBSET S : \E x \in s : Total(f, s) # f[x] + Total(f, s \ {x})}
<1> SUFFICES ASSUME Bad # {} PROVE FALSE
  OBVIOUS
<1>1. PICK s \in Bad : \A u \in Bad : u \subseteq s => u = s
  <2>1. Bad \in SUBSET (SUBSET S)
    OBVIOUS
  <2> HIDE DEF Bad
  <2> QED
    BY <2>1, SmallestSet
<1>2. PICK x \in s : Total(f, s) # f[x] + Total(f, s \ {x})
  OBVIOUS
<1> DEFINE c == Pick(s)
<1>3. c \in s /\ IsFiniteSet(s)
  BY <1>2, PickFacts, FS_Subset
<1>4. Total(f, s) = f[c] + Total(f, s \ {c})
  BY <1>2, <1>3, TotalFacts
<1>5. x # c
  BY <1>2, <1>4
<1>6. Total(f, s \ {c}) = f[x] + Total(f, (s \ {c}) \ {x})
  <2>1. s \ {c} \in SUBSET S /\ s \ {c} \notin Bad /\ x \in s \ {c}
    BY <1>1, <1>2, <1>3, <1>5
  <2> HIDE DEF c
  <2> QED
    BY <2>1
<1>7. Total(f, s \ {x}) = f[c] + Total(f, (s \ {x}) \ {c})
  <2>1. s \ {x} \in SUBSET S /\ s \ {x} \notin Bad /\ c \in s \ {x}
    BY <1>1, <1>2, <1>3, <1>5
  <2> HIDE DEF c
  <2> QED
    BY <2>1
<1>8. (s \ {x}) \ {c} = (s \ {c}) \ {x}
  OBVIOUS
<1>9. /\ f[x] \in Nat /\ f[c] \in Nat
      /\ Total(f, (s \ {c}) \ {x}) \in Nat
  BY <1>1, <1>2, <1>3, TotalIsNat
<1> QED
  <2>1. Total(f, s \ {x}) = f[c] + Total(f, (s \ {c}) \ {x})
    BY <1>7, <1>8
  <2> DEFINE rest == Total(f, (s \ {c}) \ {x})
  <2>2. Total(f, s) = f[c] + (f[x] + rest) /\ Total(f, s \ {x}) = f[c] + rest
    BY <1>4, <1>6, <2>1
  <2>3. rest \in Nat
    BY <1>9
  <2> HIDE DEF rest, c, Bad
  <2> QED
    BY <1>2, <1>9, <2>2, <2>3

\* A total depends on the values over the set alone.
LEMMA SameTotal ==
  ASSUME NEW S, IsFiniteSet(S), NEW f, NEW g, \A x \in S : f[x] = g[x]
  PROVE  Total(f, S) = Total(g, S)
<1> DEFINE Bad == {s \in SUBSET S : Total(f, s) # Total(g, s)}
<1> SUFFICES ASSUME Bad # {} PROVE FALSE
  OBVIOUS
<1>1. PICK s \in Bad : \A u \in Bad : u \subseteq s => u = s
  <2>1. Bad \in SUBSET (SUBSET S)
    OBVIOUS
  <2> HIDE DEF Bad
  <2> QED
    BY <2>1, SmallestSet
<1>2. IsFiniteSet(s)
  BY FS_Subset
<1>3. s # {}
  BY <1>1, <1>2, TotalFacts
<1>4. Pick(s) \in s
  BY <1>3, PickFacts
<1>5. Total(f, s \ {Pick(s)}) = Total(g, s \ {Pick(s)})
  BY <1>1, <1>4
<1> QED
  BY <1>1, <1>2, <1>3, <1>4, <1>5, TotalFacts

\* Two totals that differ in one value.
LEMMA TotalPlus ==
  ASSUME NEW S, IsFiniteSet(S), NEW f, NEW g, NEW i \in S, NEW d \in Nat,
         \A x \in S : f[x] \in Nat /\ g[x] \in Nat,
         \A x \in S : x # i => f[x] = g[x],
         f[i] = g[i] + d
  PROVE  Total(f, S) = Total(g, S) + d
<1>1. IsFiniteSet(S \ {i})
  BY FS_RemoveElement
<1>2. Total(f, S \ {i}) = Total(g, S \ {i})
  BY <1>1, SameTotal
<1>3. Total(f, S) = f[i] + Total(f, S \ {i}) /\ Total(g, S) = g[i] + Total(g, S \ {i})
  BY TakeOut
<1>4. Total(g, S \ {i}) \in Nat
  BY TotalIsNat
<1> QED
  BY <1>2, <1>3, <1>4

LEMMA TotalOfZeros ==
  ASSUME NEW S, IsFiniteSet(S), NEW f, \A x \in S : f[x] = 0
  PROVE  Total(f, S) = 0
<1> DEFINE Bad == {s \in SUBSET S : Total(f, s) # 0}
<1> SUFFICES ASSUME Bad # {} PROVE FALSE
  OBVIOUS
<1>1. PICK s \in Bad : \A u \in Bad : u \subseteq s => u = s
  <2>1. Bad \in SUBSET (SUBSET S)
    OBVIOUS
  <2> HIDE DEF Bad
  <2> QED
    BY <2>1, SmallestSet
<1>2. IsFiniteSet(s)
  BY FS_Subset
<1>3. s # {}
  BY <1>1, <1>2, TotalFacts
<1>4. Pick(s) \in s
  BY <1>3, PickFacts
<1>5. Total(f, s \ {Pick(s)}) = 0
  BY <1>1, <1>4
<1>6. Total(f, s) = f[Pick(s)] + Total(f, s \ {Pick(s)})
  BY <1>2, <1>3, TotalFacts
<1>7. f[Pick(s)] = 0
  BY <1>1, <1>4
<1> QED
  BY <1>1, <1>5, <1>6, <1>7

\* The elements of s that are in part i.
Part(part, s, i) == {x \in s : part[x] = i}

\* The parts of a set add up to the set.
LEMMA PartsAddUp ==
  ASSUME NEW S, IsFiniteSet(S), NEW f, \A x \in S : f[x] \in Nat,
         NEW I, IsFiniteSet(I), NEW part, \A x \in S : part[x] \in I
  PROVE  Total(f, S) = Total([i \in I |-> Total(f, Part(part, S, i))], I)
<1> DEFINE Parts(s) == [i \in I |-> Total(f, Part(part, s, i))]
           Bad == {s \in SUBSET S : Total(f, s) # Total(Parts(s), I)}
<1> SUFFICES ASSUME Bad # {} PROVE FALSE
  OBVIOUS
<1>1. PICK s \in Bad : \A u \in Bad : u \subseteq s => u = s
  <2>1. Bad \in SUBSET (SUBSET S)
    OBVIOUS
  <2> HIDE DEF Bad
  <2> QED
    BY <2>1, SmallestSet
<1>2. IsFiniteSet(s)
  BY FS_Subset
<1>3. s # {}
  <2> SUFFICES ASSUME s = {} PROVE FALSE
    OBVIOUS
  <2>1. \A i \in I : Part(part, s, i) = {}
    BY DEF Part
  <2>2. \A i \in I : Parts(s)[i] = 0
    BY <2>1, FS_EmptySet, TotalFacts
  <2>3. Total(Parts(s), I) = 0
    <3> HIDE DEF Parts
    <3> QED
      BY <2>2, TotalOfZeros
  <2>4. Total(f, s) = 0
    BY <1>2, TotalFacts
  <2> QED
    BY <1>1, <2>3, <2>4
<1>4. PICK x \in s : TRUE
  BY <1>3
<1> DEFINE u == s \ {x}
<1>5. u \in SUBSET S /\ IsFiniteSet(u) /\ u \notin Bad
  BY <1>1, <1>2, <1>4, FS_Subset
<1>6. Total(f, u) = Total(Parts(u), I)
  BY <1>5
<1>7. part[x] \in I /\ f[x] \in Nat
  BY <1>1, <1>4
<1>8. ASSUME NEW i \in I
      PROVE  /\ Part(part, s, i) \in SUBSET S /\ Part(part, u, i) \in SUBSET S
             /\ i # part[x] => Part(part, u, i) = Part(part, s, i)
             /\ i = part[x] =>
                  x \in Part(part, s, i) /\ Part(part, u, i) = Part(part, s, i) \ {x}
  BY <1>1, <1>4 DEF Part
<1>9. \A i \in I : Parts(s)[i] \in Nat /\ Parts(u)[i] \in Nat
  BY <1>8, TotalIsNat
<1>10. \A i \in I : i # part[x] => Parts(s)[i] = Parts(u)[i]
  BY <1>8
<1>11. Parts(s)[part[x]] = Parts(u)[part[x]] + f[x]
  <2>1. Total(f, Part(part, s, part[x])) =
          f[x] + Total(f, Part(part, s, part[x]) \ {x})
    BY <1>7, <1>8, TakeOut
  <2>2. Part(part, u, part[x]) = Part(part, s, part[x]) \ {x}
    BY <1>7, <1>8
  <2>3. /\ Parts(s)[part[x]] = Total(f, Part(part, s, part[x]))
        /\ Parts(u)[part[x]] = Total(f, Part(part, u, part[x]))
    BY <1>7
  <2>4. Parts(s)[part[x]] \in Nat /\ Parts(u)[part[x]] \in Nat
    BY <1>7, <1>9
  <2>5. Parts(s)[part[x]] = f[x] + Parts(u)[part[x]]
    BY <2>1, <2>2, <2>3
  <2> HIDE DEF Parts, u, Bad
  <2> QED
    BY <1>7, <2>4, <2>5
<1>12. Total(Parts(s), I) = Total(Parts(u), I) + f[x]
  <2> HIDE DEF Parts, u
  <2> QED
    BY <1>7, <1>9, <1>10, <1>11, TotalPlus
<1>13. Total(f, s) = f[x] + Total(f, u) /\ Total(f, u) \in Nat
  <2>1. s \in SUBSET S
    BY <1>1
  <2>2. Total(f, s) = f[x] + Total(f, s \ {x})
    BY <1>4, <2>1, TakeOut
  <2>3. Total(f, u) \in Nat
    BY <1>5, TotalIsNat
  <2> QED
    BY <2>2, <2>3
<1> QED
  <2>1. Total(f, s) = Total(Parts(s), I)
    <3> HIDE DEF Parts, u, Bad
    <3> QED
      BY <1>6, <1>7, <1>12, <1>13
  <2> QED
    BY <1>1, <2>1

\* The number of elements is a total too.
LEMMA CardinalityIsTotal ==
  ASSUME NEW S, IsFiniteSet(S), NEW one, \A x \in S : one[x] = 1
  PROVE  \A s \in SUBSET S : Cardinality(s) = Total(one, s)
<1> DEFINE Bad == {s \in SUBSET S : Cardinality(s) # Total(one, s)}
<1> SUFFICES ASSUME Bad # {} PROVE FALSE
  OBVIOUS
<1>1. PICK s \in Bad : \A u \in Bad : u \subseteq s => u = s
  <2>1. Bad \in SUBSET (SUBSET S)
    OBVIOUS
  <2> HIDE DEF Bad
  <2> QED
    BY <2>1, SmallestSet
<1>2. IsFiniteSet(s)
  BY FS_Subset
<1>3. s # {}
  BY <1>1, <1>2, TotalFacts, FS_EmptySet
<1>4. Pick(s) \in s
  BY <1>3, PickFacts
<1>5. Cardinality(s \ {Pick(s)}) = Total(one, s \ {Pick(s)})
  BY <1>1, <1>4
<1>6. Cardinality(s \ {Pick(s)}) = Cardinality(s) - 1 /\ Cardinality(s) \in Nat
  BY <1>2, <1>4, FS_RemoveElement, FS_CardinalityType
<1>7. Total(one, s) = 1 + Total(one, s \ {Pick(s)})
  BY <1>1, <1>2, <1>3, <1>4, TotalFacts
<1> QED
  BY <1>1, <1>5, <1>6, <1>7

-----------------------------------------------------------------------------
(* The arithmetic of the reports *)

LEMMA RevenueIsTotal ==
  ASSUME NEW S, IsFiniteSet(S), NEW f, \A s \in S : f[s] = s.satang
  PROVE  Revenue(S) = Total(f, S)
<1> DEFINE R(g) == g = [s \in SUBSET S |->
                     IF s = {} THEN 0 ELSE Pick(s).satang + g[s \ {Pick(s)}]]
<1>1. Revenue(S) = (CHOOSE g : R(g))[S]
  BY DEF Revenue, MapThenSumSet, MapThenFoldSet, Pick
<1>2. ASSUME NEW g PROVE R(g) <=> IsSum(g, f, S)
  <2>1. \A s \in SUBSET S : s # {} => f[Pick(s)] = Pick(s).satang
    BY PickFacts
  <2>2. [s \in SUBSET S |->
           IF s = {} THEN 0 ELSE Pick(s).satang + g[s \ {Pick(s)}]] =
        [s \in SUBSET S |->
           IF s = {} THEN 0 ELSE f[Pick(s)] + g[s \ {Pick(s)}]]
    BY <2>1
  <2> QED
    BY <2>2 DEF IsSum
<1> HIDE DEF R
<1>3. \E g : R(g)
  BY <1>2, SumExists
<1>4. R(CHOOSE g : R(g))
  BY <1>3
<1> QED
  BY <1>1, <1>2, <1>4, TotalIsSum

\* Sales as they are made.
AreSales(S) ==
  /\ IsFiniteSet(S)
  /\ \A s \in S : s.satang \in Nat /\ s.paidAt \in Int

\* The buckets of the parts of S add up to the bucket of S.
LEMMA BucketsAddUp ==
  ASSUME NEW S, AreSales(S), NEW I, IsFiniteSet(I),
         NEW part, \A s \in S : part[s] \in I
  PROVE  SumOf([i \in I |-> Bucket(Part(part, S, i))]) = Bucket(S)
<1> DEFINE price == [s \in S |-> s.satang]
           one == [s \in S |-> 1]
           buckets == [i \in I |-> Bucket(Part(part, S, i))]
<1>1. /\ IsFiniteSet(S)
      /\ \A s \in S : price[s] \in Nat /\ price[s] = s.satang /\ one[s] \in Nat /\ one[s] = 1
  BY DEF AreSales
<1> HIDE DEF price, one
<1>2. \A i \in I : Part(part, S, i) \in SUBSET S /\ IsFiniteSet(Part(part, S, i))
  BY <1>1, FS_Subset DEF Part
<1>3. \A i \in I : buckets[i].revenueSatang = Total(price, Part(part, S, i))
  <2> SUFFICES ASSUME NEW i \in I
               PROVE  Revenue(Part(part, S, i)) = Total(price, Part(part, S, i))
    BY DEF Bucket
  <2>1. \A s \in Part(part, S, i) : price[s] = s.satang
    BY <1>1 DEF Part
  <2> QED
    BY <1>2, <2>1, RevenueIsTotal
<1>4. \A i \in I : buckets[i].units = Total(one, Part(part, S, i))
  BY <1>1, <1>2, CardinalityIsTotal DEF Bucket
<1>5. [i \in I |-> buckets[i].revenueSatang] = [i \in I |-> Total(price, Part(part, S, i))]
  BY <1>3
<1>6. [i \in I |-> buckets[i].units] = [i \in I |-> Total(one, Part(part, S, i))]
  BY <1>4
<1>7. Total([i \in I |-> buckets[i].revenueSatang], I) = Revenue(S)
  <2>1. Revenue(S) = Total(price, S)
    BY <1>1, RevenueIsTotal
  <2>2. Total(price, S) = Total([i \in I |-> Total(price, Part(part, S, i))], I)
    BY <1>1, PartsAddUp
  <2> QED
    BY <1>5, <2>1, <2>2
<1>8. Total([i \in I |-> buckets[i].units], I) = Cardinality(S)
  <2>1. Cardinality(S) = Total(one, S)
    BY <1>1, CardinalityIsTotal
  <2>2. Total(one, S) = Total([i \in I |-> Total(one, Part(part, S, i))], I)
    BY <1>1, PartsAddUp
  <2> QED
    BY <1>6, <2>1, <2>2
<1>9. DOMAIN buckets = I
  OBVIOUS
<1> HIDE DEF buckets
<1>10. SumOf(buckets) =
         [ revenueSatang |-> Total([i \in I |-> buckets[i].revenueSatang], I),
           units |-> Total([i \in I |-> buckets[i].units], I) ]
  BY <1>9 DEF SumOf, Total, SumFunctionOnSet, FoldFunction
<1>11. SumOf(buckets) = Bucket(S)
  BY <1>7, <1>8, <1>10 DEF Bucket
<1> QED
  BY <1>11 DEF buckets

\* A sale has one time band and one day of the week.
LEMMA FiveBandsSevenDays ==
  /\ IsFiniteSet(0 .. 4) /\ IsFiniteSet(0 .. 6)
  /\ \A t \in Int : TimeBand(t) \in 0 .. 4 /\ Weekday(t) \in 0 .. 6
<1>1. \A n \in Int : IsFiniteSet(0 .. n)
  BY FS_Interval
<1>2. ASSUME NEW t \in Int PROVE TimeBand(t) \in 0 .. 4
  BY DEF TimeBand
<1>3. ASSUME NEW t \in Int PROVE Weekday(t) \in 0 .. 6
  BY DEF Weekday, Local, BangkokOffset, Day
<1>4. IsFiniteSet(0 .. 4) /\ IsFiniteSet(0 .. 6)
  <2>1. 4 \in Int /\ 6 \in Int
    OBVIOUS
  <2> QED
    BY <1>1, <2>1, Zenon
<1> QED
  BY <1>2, <1>3, <1>4

LEMMA TimeBandsAddUp ==
  ASSUME NEW S, AreSales(S)
  PROVE  SumOf(TimeBands(S)) = Bucket(S)
<1> DEFINE part == [s \in S |-> TimeBand(s.paidAt)]
<1>1. \A s \in S : part[s] \in 0 .. 4
  BY FiveBandsSevenDays DEF AreSales
<1>2. \A i \in 0 .. 4 : {s \in S : TimeBand(s.paidAt) = i} = Part(part, S, i)
  BY DEF Part
<1>3. TimeBands(S) = [i \in 0 .. 4 |-> Bucket(Part(part, S, i))]
  BY <1>2 DEF TimeBands
<1> HIDE DEF part
<1> QED
  BY <1>1, <1>3, BucketsAddUp, FiveBandsSevenDays

LEMMA WeekdaysAddUp ==
  ASSUME NEW S, AreSales(S)
  PROVE  SumOf(Weekdays(S)) = Bucket(S)
<1> DEFINE part == [s \in S |-> Weekday(s.paidAt)]
<1>1. \A s \in S : part[s] \in 0 .. 6
  BY FiveBandsSevenDays DEF AreSales
<1>2. \A i \in 0 .. 6 : {s \in S : Weekday(s.paidAt) = i} = Part(part, S, i)
  BY DEF Part
<1>3. Weekdays(S) = [i \in 0 .. 6 |-> Bucket(Part(part, S, i))]
  BY <1>2 DEF Weekdays
<1> HIDE DEF part
<1> QED
  BY <1>1, <1>3, BucketsAddUp, FiveBandsSevenDays

\* Days and weeks of the local time, counted.
DayNumber(t) == Local(t) \div Day

LEMMA DailyPeriod ==
  ASSUME NEW t \in Int, NEW h \in Int
  PROVE  LET day == Period("DAILY", h) IN
         day.start <= t /\ t < day.end <=> DayNumber(t) = DayNumber(h) - 1
BY DEF Period, TodayStart, DayNumber, Local, BangkokOffset, Day, Week

LEMMA WeeklyPeriod ==
  ASSUME NEW t \in Int, NEW h \in Int
  PROVE  LET week == Period("WEEKLY", h) IN
         week.start <= t /\ t < week.end <=>
           DayNumber(t) \div 7 = DayNumber(h) \div 7 - 1
BY DEF Period, TodayStart, Weekday, DayNumber, Local, BangkokOffset, Day, Week

\* The report of the morning after day d of the week covers that day.
LEMMA DayOfTheWeek ==
  ASSUME NEW t \in Int, NEW d \in 0 .. 6
  PROVE  /\ ReportedDay(d).start <= t /\ t < ReportedDay(d).end
         <=> /\ ReportedWeek.start <= t /\ t < ReportedWeek.end
             /\ Weekday(t) = d
<1> DEFINE m == DayNumber(AsOf) \div 7 - 1
           h == ReportedWeek.start + (d + 1) * Day + 8
<1>1. DayNumber(AsOf) \in Int /\ m \in Int /\ DayNumber(t) \in Int
  BY SaleAssumption DEF DayNumber, Local, BangkokOffset, Day
<1>2. ReportedWeek.start = 168 * m - 7
  BY SaleAssumption
  DEF ReportedWeek, Period, TodayStart, Weekday, DayNumber, Local, BangkokOffset, Day, Week
<1>3. h \in Int /\ DayNumber(h) = 7 * m + d + 1
  BY <1>1, <1>2 DEF DayNumber, Local, BangkokOffset, Day
<1>4. ReportedDay(d).start <= t /\ t < ReportedDay(d).end <=> DayNumber(t) = 7 * m + d
  BY <1>1, <1>3, DailyPeriod DEF ReportedDay
<1>5. ReportedWeek.start <= t /\ t < ReportedWeek.end <=> DayNumber(t) \div 7 = m
  BY SaleAssumption, WeeklyPeriod DEF ReportedWeek
<1>6. Weekday(t) = DayNumber(t) % 7
  BY DEF Weekday, DayNumber
<1>7. DayNumber(t) = 7 * m + d <=> DayNumber(t) \div 7 = m /\ DayNumber(t) % 7 = d
  <2> HIDE DEF m
  <2> QED
    BY <1>1
<1> QED
  BY <1>4, <1>5, <1>6, <1>7

LEMMA ReportAddsUp ==
  ASSUME NEW sales \in SUBSET Sales
  PROVE  AddUp(sales)
<1> DEFINE week == Reportable(sales, ReportedWeek)
           day(d) == Reportable(sales, ReportedDay(d))
<1>1. AreSales(week) /\ \A d \in 0 .. 6 : AreSales(day(d))
  <2>1. \A s \in SUBSET Sales : AreSales(s)
    BY SaleAssumption, FS_Subset DEF AreSales
  <2>2. week \in SUBSET Sales /\ \A d \in 0 .. 6 : day(d) \in SUBSET Sales
    BY DEF Reportable
  <2> QED
    BY <2>1, <2>2
<1>2. \A d \in 0 .. 6 : day(d) = {s \in week : Weekday(s.paidAt) = d}
  <2>1. \A s \in sales : s.paidAt \in Int
    BY SaleAssumption
  <2> QED
    BY <2>1, DayOfTheWeek DEF Reportable, Within
<1>3. \A d \in 0 .. 6 : Bucket(day(d)) = Weekdays(week)[d]
  BY <1>2 DEF Weekdays
<1> HIDE DEF week, day
<1>4. /\ Aggregate("WEEKLY", sales, ReportedWeek).total = Bucket(week)
      /\ Aggregate("WEEKLY", sales, ReportedWeek).timeBands = TimeBands(week)
      /\ Aggregate("WEEKLY", sales, ReportedWeek).weekdays = Weekdays(week)
  BY DEF Aggregate, week
<1>5. \A d \in 0 .. 6 :
        /\ Aggregate("DAILY", sales, ReportedDay(d)).total = Bucket(day(d))
        /\ Aggregate("DAILY", sales, ReportedDay(d)).timeBands = TimeBands(day(d))
  BY DEF Aggregate, day
<1> QED
  BY <1>1, <1>3, <1>4, <1>5, TimeBandsAddUp, WeekdaysAddUp DEF AddUp

\* Every hour of local time falls into one daily and one weekly report: the
\* one that is derived at any hour of the next local day or week.
THEOREM EverySaleHasItsReport ==
  ASSUME NEW s, s.paidAt \in Int, NEW h \in Int
  PROVE  /\ Within(s, Period("DAILY", h)) <=>
              DayNumber(h) = DayNumber(s.paidAt) + 1
         /\ Within(s, Period("WEEKLY", h)) <=>
              DayNumber(h) \div 7 = DayNumber(s.paidAt) \div 7 + 1
<1> DEFINE t == s.paidAt
<1>1. DayNumber(t) \in Int /\ DayNumber(h) \in Int
  BY DEF DayNumber, Local, BangkokOffset, Day
<1>2. Within(s, Period("DAILY", h)) <=> DayNumber(t) = DayNumber(h) - 1
  BY DailyPeriod DEF Within
<1>3. Within(s, Period("WEEKLY", h)) <=>
        DayNumber(t) \div 7 = DayNumber(h) \div 7 - 1
  BY WeeklyPeriod DEF Within
<1> HIDE DEF t
<1> QED
  BY <1>1, <1>2, <1>3 DEF t

\* Whatever the set of sales, the daily reports of a week and its weekly report
\* count the same ones, each once.
THEOREM NothingLostOrCountedTwice == Spec => []ReportsAddUp
<1>1. TypeOK => ReportsAddUp
  BY ReportAddsUp DEF TypeOK, ReportsAddUp
<1> QED
  BY <1>1, TypeCorrect, PTL
=============================================================================
