-------------------------- MODULE Payments_proofs --------------------------
(***************************************************************************)
(* What holds of Payments for every set of requests, rows, invoices and    *)
(* handlers: its types, the backing of every credit, that the case only    *)
(* progresses on money, that no dead QR is offered, and that the handlers  *)
(* implement the ledger of module DebtLedger.                              *)
(*                                                                         *)
(* The invariant says of every request in flight what its step may rely    *)
(* on (`Good`).  The facts it relies on are never taken back by another    *)
(* request (`Progresses`), so a step has to be examined only for the       *)
(* request that takes it.                                                  *)
(***************************************************************************)
EXTENDS Payments, TLAPS

RowRecord ==
  [status : {"ABSENT", "PENDING", "FAILED", "EXPIRED"} \cup CreditedStatuses,
   method : {"QPAY", "MANUAL"},
   inv : Invoices \cup {None}, ref : Invoices \cup {None}, old : BOOLEAN]

QrRecord ==
  {NoQr} \cup [row : Rows, qr : {"minted", "shown", "dead"},
               paid : {"no", "short", "full"}]

ReqRecord ==
  [op : Ops, step : Steps, row : Rows \cup {None}, inv : Invoices \cup {None},
   from : CaseStage]

(* The steps that act on a row the request has read or written.            *)
RowSteps == {"update", "mint", "attach", "fail", "expire", "cancelQr", "ask",
             "claim", "progress", "thank", "refund"}

(* The steps of the one request that claimed a row.                        *)
Claimant == {"progress", "thank"}

(* What a request may rely on at its step.                                 *)
Good(r) ==
  /\ r.row # None => row[r.row].status # "ABSENT"
  /\ r.step \in RowSteps => r.row # None
  /\ r.step \in {"open", "insert"} => r.row = None /\ r.inv = None
  /\ r.inv # None => r.row # None /\ qpay[r.inv].row = r.row
  /\ r.step \in {"attach", "cancelQr", "ask"} => r.inv # None
  /\ r.step = "update" => r.op = "manual"
  /\ r.step \in {"ask", "expire"} => r.op # "manual"
  /\ r.step = "cancelQr" =>
       row[r.row].status # "PENDING" \/ row[r.row].method = "MANUAL"
  /\ r.step \in {"claim", "cancelQr"} /\ r.op = "manual" =>
       row[r.row].method = "MANUAL"
  /\ r.step = "claim" /\ r.op # "manual" =>
       r.inv # None /\ qpay[r.inv].paid = "full"
  /\ r.step \in Claimant =>
       row[r.row].status \in CreditedStatuses /\ thanked[r.row] = 0
  /\ r.step = "refund" => row[r.row].status \in CreditedStatuses

GoodAt(q) == Good(req[q])

OneClaimant ==
  \A p, q \in Requests :
    req[p].step \in Claimant /\ req[q].step \in Claimant /\ req[p].row = req[q].row
      => p = q

(* A row's own invoice was minted for it; what is ABSENT or unpaid was     *)
(* never confirmed; a row is refunded exactly when a REFUND row points at  *)
(* it.                                                                     *)
RowsAreSound ==
  \A i \in Rows :
    /\ row[i].inv # None => qpay[row[i].inv].row = i
    /\ row[i].status \notin CreditedStatuses => thanked[i] = 0
    /\ i \in refunded <=> row[i].status = "REFUNDED"

IInv ==
  /\ TypeOK
  /\ \A q \in Requests : Good(req[q])
  /\ OneClaimant
  /\ RowsAreSound
  /\ CreditIsBacked
  /\ ProgressIsPaid
  /\ NoDeadQrOffered

-----------------------------------------------------------------------------
(* TypeOK, said with the sets of records above.                            *)
LEMMA Types ==
  TypeOK <=> /\ row \in [Rows -> RowRecord]
             /\ qpay \in [Invoices -> QrRecord]
             /\ refunded \subseteq Rows
             /\ thanked \in [Rows -> 0 .. 2]
             /\ stage \in CaseStage
             /\ contract \in {"SIGNED", "ACTIVE", "TERMINATED"}
             /\ req \in [Requests -> ReqRecord]
BY DEF TypeOK, RowRecord, QrRecord, ReqRecord

(* The same of the next state.                                             *)
LEMMA TypesNext ==
  /\ row' \in [Rows -> RowRecord]
  /\ qpay' \in [Invoices -> QrRecord]
  /\ refunded' \subseteq Rows
  /\ thanked' \in [Rows -> 0 .. 2]
  /\ stage' \in CaseStage
  /\ contract' \in {"SIGNED", "ACTIVE", "TERMINATED"}
  /\ req' \in [Requests -> ReqRecord]
  => TypeOK'
BY DEF TypeOK, RowRecord, QrRecord, ReqRecord

(* None is neither a row nor an invoice.                                   *)
LEMMA NoneIsNothing == None \notin Rows /\ None \notin Invoices
BY RowsAssumption, InvoicesAssumption DEF None

(* A request that is not in flight relies on nothing.                      *)
LEMMA IdleIsSound == Idle \in ReqRecord /\ Good(Idle) /\ Idle.step \notin Claimant
BY DEF Idle, ReqRecord, Good, Ops, Steps, RowSteps, Claimant, FirstStage, CaseStage,
   None

(* A step that only reads: whatever the request means to do next, it may   *)
(* rely on what it needs.                                                  *)
LEMMA ReadStep ==
  ASSUME IInv, NEW q \in Requests, NEW r \in ReqRecord,
         req' = [req EXCEPT ![q] = r], OnlyReq,
         Good(r), r.step \notin Claimant
  PROVE  IInv'
<1> USE DEF IInv, OnlyReq
<1>1. TypeOK'
  BY Types DEF TypeOK, ReqRecord
<1>2. ASSUME NEW p \in Requests PROVE Good(req[p])'
  <2>1. req'[p] = IF p = q THEN r ELSE req[p]
    BY Types
  <2>2. Good(req'[p])
    BY <2>1
  <2> QED
    BY <2>2 DEF Good
<1>3. OneClaimant'
  <2>1. \A p \in Requests : req'[p] = IF p = q THEN r ELSE req[p]
    BY Types
  <2> QED
    BY <2>1 DEF OneClaimant
<1>4. RowsAreSound' /\ CreditIsBacked' /\ ProgressIsPaid' /\ NoDeadQrOffered'
  BY DEF RowsAreSound, CreditIsBacked, ProgressIsPaid, NoDeadQrOffered
<1> QED
  BY <1>1, <1>2, <1>3, <1>4

(* The moves of a request, as the record it becomes.                       *)
LEMMA Moving ==
  ASSUME TypeOK, NEW q \in Requests, NEW s \in Steps
  PROVE  /\ Finish(q) => req' = [req EXCEPT ![q] = Idle]
         /\ Goto(q, s) => req' = [req EXCEPT ![q] = [req[q] EXCEPT !.step = s]]
         /\ \A i \in Rows : Take(q, i, s) =>
              req' = [req EXCEPT ![q] =
                        [req[q] EXCEPT !.row = i, !.inv = row[i].inv, !.step = s]]
BY Types DEF Finish, Goto, Take, ReqRecord

(* A request that ends, or dies, relies on nothing.                        *)
LEMMA FinishStep ==
  ASSUME IInv, NEW q \in Requests, Finish(q), OnlyReq
  PROVE  IInv'
BY ReadStep, IdleIsSound DEF Finish

(* A request that moves on without reading a row.                          *)
LEMMA GotoStep ==
  ASSUME IInv, NEW q \in Requests, NEW s \in Steps \ Claimant, Goto(q, s), OnlyReq,
         Good([req[q] EXCEPT !.step = s])
  PROVE  IInv'
<1> DEFINE r == [req[q] EXCEPT !.step = s]
<1>1. req[q] \in ReqRecord
  BY Types DEF IInv
<1>2. r \in ReqRecord /\ r.step \notin Claimant
  BY <1>1 DEF ReqRecord
<1>3. req' = [req EXCEPT ![q] = r]
  BY Moving DEF IInv
<1>4. Good(r)
  OBVIOUS
<1> HIDE DEF r
<1> QED
  BY <1>2, <1>3, <1>4, ReadStep

(* A request that takes up a row it has just read.                         *)
LEMMA TakeStep ==
  ASSUME IInv, NEW q \in Requests, NEW i \in Rows,
         NEW s \in {"mint", "expire", "update", "ask"}, Take(q, i, s), OnlyReq,
         row[i].status = "PENDING",
         s = "ask" => row[i].inv # None,
         s = "update" <=> req[q].op = "manual"
  PROVE  IInv'
<1> DEFINE r == [req[q] EXCEPT !.row = i, !.inv = row[i].inv, !.step = s]
<1>1. row[i] \in RowRecord /\ req[q] \in ReqRecord
  BY Types DEF IInv
<1>2. r \in ReqRecord
  BY <1>1 DEF ReqRecord, RowRecord, Steps
<1>3. row[i].inv # None => qpay[row[i].inv].row = i
  BY DEF IInv, RowsAreSound
<1>4. Good(r)
  BY <1>1, <1>3, NoneIsNothing DEF Good, RowSteps, Claimant, ReqRecord
<1>5. s \in Steps /\ r.step \notin Claimant
  BY <1>1 DEF Steps, Claimant, ReqRecord
<1> HIDE DEF r
<1>6. req' = [req EXCEPT ![q] = r]
  BY <1>5, Moving DEF IInv, r
<1> QED
  BY <1>2, <1>4, <1>5, <1>6, ReadStep

-----------------------------------------------------------------------------
(* The steps that read, one by one.                                        *)

(* A request that arrives has read, and written nothing.                   *)
LEMMA ArrivalKeepsIInv ==
  ASSUME IInv, NEW q \in Requests, Arrival(q)
  PROVE  IInv'
<1>1. ASSUME NEW op \in {"create", "reissue", "manual"}, Begin(q, op)
      PROVE  IInv'
  <2> DEFINE r == [op |-> op, step |-> "open", row |-> None, inv |-> None, from |-> FirstStage]
  <2>1. req' = [req EXCEPT ![q] = r]
    BY <1>1, Types DEF Begin, Idle, IInv
  <2>2. r \in ReqRecord /\ Good(r) /\ r.step \notin Claimant
    BY DEF ReqRecord, Good, Ops, Steps, RowSteps, Claimant, FirstStage, CaseStage
  <2> HIDE DEF r
  <2> QED
    BY <1>1, <2>1, <2>2, ReadStep DEF Begin
<1>2. ASSUME NEW op \in {"webhook", "poll"}, NEW i \in Rows, Look(q, op, i)
      PROVE  IInv'
  <2> DEFINE r == [op |-> op, step |-> "ask", row |-> i, inv |-> row[i].inv, from |-> FirstStage]
  <2>1. req' = [req EXCEPT ![q] = r]
    BY <1>2 DEF Look
  <2>2. r \in ReqRecord /\ r.step \notin Claimant
    BY Types DEF IInv, RowRecord, ReqRecord, Ops, Steps, Claimant, FirstStage, CaseStage
  <2>3. Good(r)
    BY <1>2, NoneIsNothing DEF IInv, RowsAreSound, Look, Good, RowSteps, Claimant
  <2> HIDE DEF r
  <2> QED
    BY <1>2, <2>1, <2>2, <2>3, ReadStep DEF Look
<1>3. ASSUME NEW i \in Rows, RefundReads(q, i)
      PROVE  IInv'
  <2> DEFINE r == [op |-> "refund", step |-> "refund", row |-> i, inv |-> None, from |-> FirstStage]
  <2>1. req' = [req EXCEPT ![q] = r]
    BY <1>3, Types DEF RefundReads, Idle, IInv
  <2>2. r \in ReqRecord /\ r.step \notin Claimant
    BY DEF ReqRecord, Ops, Steps, Claimant, FirstStage, CaseStage
  <2>3. Good(r)
    BY <1>3, NoneIsNothing DEF RefundReads, Good, RowSteps, Claimant, CreditedStatuses
  <2> HIDE DEF r
  <2> QED
    BY <1>3, <2>1, <2>2, <2>3, ReadStep DEF RefundReads
<1>4. ASSUME SweepReads(q)
      PROVE  IInv'
  <2> DEFINE r == [op |-> "sweep", step |-> "open", row |-> None, inv |-> None, from |-> stage]
  <2>1. req' = [req EXCEPT ![q] = r]
    BY <1>4 DEF SweepReads
  <2>2. r \in ReqRecord /\ Good(r) /\ r.step \notin Claimant
    BY Types DEF IInv, ReqRecord, Good, Ops, Steps, RowSteps, Claimant
  <2> HIDE DEF r
  <2> QED
    BY <1>4, <2>1, <2>2, ReadStep DEF SweepReads
<1> QED
  BY <1>1, <1>2, <1>3, <1>4 DEF Arrival

(* The look at the open row, of whichever handler, writes nothing.         *)
LEMMA OpeningKeepsIInv ==
  ASSUME IInv, NEW q \in Requests,
         BeginAgain(q) \/ CreateOpens(q) \/ ReissueOpens(q) \/ ManualOpens(q) \/ SweepOpens(q)
  PROVE  IInv'
<1>r. req[q] \in ReqRecord /\ Good(req[q])
  BY Types DEF IInv
<1>1. CASE BeginAgain(q)
  <2> DEFINE r == [op |-> "create", step |-> "open", row |-> None, inv |-> None, from |-> FirstStage]
  <2>1. CASE Ready
    <3>1. req' = [req EXCEPT ![q] = r]
      BY <1>1, <2>1 DEF BeginAgain, Idle
    <3>2. r \in ReqRecord /\ Good(r) /\ r.step \notin Claimant
      BY DEF ReqRecord, Good, Ops, Steps, RowSteps, Claimant, FirstStage, CaseStage
    <3> HIDE DEF r
    <3> QED
      BY <1>1, <3>1, <3>2, ReadStep DEF BeginAgain
  <2>2. CASE ~ Ready
    BY <1>1, <2>2, FinishStep DEF BeginAgain
  <2> QED
    BY <2>1, <2>2
<1>2. ASSUME At(q, "open"), Goto(q, "insert"), OnlyReq
      PROVE  IInv'
  BY <1>2, <1>r, GotoStep DEF At, Good, ReqRecord, RowSteps, Steps, Claimant
<1>3. ASSUME At(q, "open"), Goto(q, "ready") \/ Goto(q, "cancelCase"), OnlyReq
      PROVE  IInv'
  BY <1>3, <1>r, GotoStep DEF At, Good, ReqRecord, RowSteps, Steps, Claimant
<1>4. CASE CreateOpens(q)
  <2>1. ASSUME NEW i \in Rows, row[i].status = "PENDING", Take(q, i, "mint"), OnlyReq
        PROVE  IInv'
    BY <1>4, <2>1, TakeStep DEF CreateOpens, Runs
  <2> QED
    BY <1>2, <1>4, <2>1, FinishStep DEF CreateOpens
<1>5. CASE ReissueOpens(q)
  <2>1. ASSUME NEW i \in Rows, row[i].status = "PENDING", Take(q, i, "expire"), OnlyReq
        PROVE  IInv'
    BY <1>5, <2>1, TakeStep DEF ReissueOpens, Runs
  <2> QED
    BY <1>3, <1>5, <2>1, FinishStep DEF ReissueOpens
<1>6. CASE ManualOpens(q)
  <2>1. ASSUME NEW i \in Rows, row[i].status = "PENDING", Take(q, i, "update"), OnlyReq
        PROVE  IInv'
    BY <1>6, <2>1, TakeStep DEF ManualOpens, Runs
  <2> QED
    BY <1>2, <1>6, <2>1, FinishStep DEF ManualOpens
<1>7. CASE SweepOpens(q)
  <2>1. ASSUME NEW i \in Rows, row[i].status = "PENDING", OnlyReq,
               Take(q, i, IF row[i].inv = None THEN "expire" ELSE "ask")
        PROVE  IInv'
    <3>1. CASE row[i].inv = None
      BY <1>7, <2>1, <3>1, TakeStep DEF SweepOpens, Runs
    <3>2. CASE row[i].inv # None
      BY <1>7, <2>1, <3>2, TakeStep DEF SweepOpens, Runs
    <3> QED
      BY <3>1, <3>2
  <2> QED
    BY <1>3, <1>7, <2>1 DEF SweepOpens
<1> QED
  BY <1>1, <1>4, <1>5, <1>6, <1>7

(* Asking QPay writes nothing, whatever QPay answers.                      *)
LEMMA AskingKeepsIInv ==
  ASSUME IInv, NEW q \in Requests, MintRefused(q) \/ Answer(q) \/ NoAnswer(q)
  PROVE  IInv'
<1>r. req[q] \in ReqRecord /\ Good(req[q])
  BY Types DEF IInv
<1>1. CASE MintRefused(q)
  BY <1>1, <1>r, GotoStep DEF MintRefused, At, Good, ReqRecord, RowSteps, Steps, Claimant
<1>2. CASE Answer(q)
  <2>1. ASSUME qpay[req[q].inv].paid = "full", Goto(q, "claim"), OnlyReq
        PROVE  IInv'
    BY <1>2, <2>1, <1>r, GotoStep DEF Answer, At, Good, ReqRecord, RowSteps, Steps, Claimant
  <2>2. ASSUME Goto(q, "expire"), OnlyReq
        PROVE  IInv'
    BY <1>2, <2>2, <1>r, GotoStep DEF Answer, At, Good, ReqRecord, RowSteps, Steps, Claimant
  <2> QED
    BY <1>2, <2>1, <2>2, FinishStep DEF Answer
<1>3. CASE NoAnswer(q)
  BY <1>3, FinishStep DEF NoAnswer
<1> QED
  BY <1>1, <1>2, <1>3

-----------------------------------------------------------------------------
(* The steps that write.                                                   *)

(* What no step takes back.                                                *)
Progresses ==
  /\ \A i \in Rows :
       /\ row[i].status # "ABSENT" => row'[i].status # "ABSENT"
       /\ row[i].status \notin {"ABSENT", "PENDING"} => row'[i].status # "PENDING"
       /\ row[i].status \in CreditedStatuses => row'[i].status \in CreditedStatuses
       /\ row[i].status # "ABSENT" /\ row[i].method = "MANUAL" => row'[i].method = "MANUAL"
  /\ \A n \in Invoices :
       /\ qpay[n].row # None => qpay'[n].row = qpay[n].row
       /\ qpay[n].paid = "full" => qpay'[n].paid = "full"

(* What a step leaves in the database and at QPay.                         *)
Sound == TypeOK /\ RowsAreSound /\ CreditIsBacked /\ ProgressIsPaid /\ NoDeadQrOffered

(* What a request relies on outlives the steps of the others.              *)
LEMMA OthersStayGood ==
  ASSUME IInv, NEW p \in Requests, Progresses, req'[p] = req[p],
         req[p].step \in Claimant => thanked'[req[p].row] = thanked[req[p].row]
  PROVE  Good(req[p])'
<1> DEFINE r == req[p]
<1>1. r \in ReqRecord /\ Good(r)
  BY Types DEF IInv
<1>2. CASE r.row = None
  BY <1>1, <1>2 DEF Good, RowSteps, Claimant
<1>3. CASE r.row # None
  <2>1. r.row \in Rows /\ (r.inv # None => r.inv \in Invoices)
    BY <1>1, <1>3 DEF ReqRecord
  <2>2. /\ row'[r.row].status # "ABSENT"
        /\ r.step = "cancelQr" => row'[r.row].status # "PENDING" \/ row'[r.row].method = "MANUAL"
        /\ r.step \in {"claim", "cancelQr"} /\ r.op = "manual" => row'[r.row].method = "MANUAL"
        /\ r.step \in Claimant => row'[r.row].status \in CreditedStatuses /\ thanked'[r.row] = 0
        /\ r.step = "refund" => row'[r.row].status \in CreditedStatuses
    BY <1>1, <1>3, <2>1 DEF Good, Progresses
  <2>3. /\ r.inv # None => qpay'[r.inv].row = r.row
        /\ r.step = "claim" /\ r.op # "manual" => r.inv # None /\ qpay'[r.inv].paid = "full"
    BY <1>1, <1>3, <2>1 DEF Good, Progresses
  <2> QED
    BY <1>1, <1>3, <2>2, <2>3 DEF Good
<1> QED
  BY <1>2, <1>3

(* No claimant but `q` is touched, and none appears beside another.         *)
OthersUndisturbed(q) ==
  /\ \A p \in Requests \ {q} :
       req[p].step \in Claimant => thanked'[req[p].row] = thanked[req[p].row]
  /\ OneClaimant'

(* A request writes, and moves on to a step it may rely on.                *)
LEMMA WriteStep ==
  ASSUME IInv, NEW q \in Requests, NEW r \in ReqRecord,
         req' = [req EXCEPT ![q] = r],
         Progresses, Sound', GoodAt(q)', OthersUndisturbed(q)
  PROVE  IInv'
<1>1. ASSUME NEW p \in Requests PROVE Good(req[p])'
  <2>1. CASE p = q
    BY <2>1 DEF GoodAt
  <2>2. CASE p # q
    <3>1. req'[p] = req[p]
      BY <2>2, Types DEF IInv
    <3>2. req[p].step \in Claimant => thanked'[req[p].row] = thanked[req[p].row]
      BY <2>2 DEF OthersUndisturbed
    <3> QED
      BY <3>1, <3>2, OthersStayGood
  <2> QED
    BY <2>1, <2>2
<1> QED
  BY <1>1 DEF IInv, Sound, OthersUndisturbed

(* A request writes, claims nothing and thanks nobody.                     *)
LEMMA PlainStep ==
  ASSUME IInv, NEW q \in Requests, NEW r \in ReqRecord,
         req' = [req EXCEPT ![q] = r], r.step \notin Claimant, thanked' = thanked,
         Progresses, Sound', GoodAt(q)'
  PROVE  IInv'
<1>1. OthersUndisturbed(q)
  BY Types DEF IInv, OneClaimant, OthersUndisturbed
<1> QED
  BY <1>1, WriteStep

(* The client, the clock or another writer of the case takes a step.       *)
LEMMA OutsideStep ==
  ASSUME IInv, UNCHANGED <<req, thanked>>, Progresses, Sound'
  PROVE  IInv'
<1>1. ASSUME NEW p \in Requests PROVE Good(req[p])'
  BY OthersStayGood
<1>2. OneClaimant'
  BY DEF IInv, OneClaimant
<1> QED
  BY <1>1, <1>2 DEF IInv, Sound

(* One row is written.                                                     *)
LEMMA RowWrite ==
  ASSUME IInv, NEW i \in Rows, NEW x \in RowRecord,
         row' = [row EXCEPT ![i] = x], UNCHANGED <<qpay, thanked, stage, contract>>,
         TypeOK',
         \A j \in Rows : j # i => (j \in refunded' <=> j \in refunded),
         i \in refunded' <=> x.status = "REFUNDED",
         x.status # "ABSENT",
         row[i].status \notin {"ABSENT", "PENDING"} => x.status # "PENDING",
         row[i].status \in CreditedStatuses => x.status \in CreditedStatuses,
         row[i].status # "ABSENT" /\ row[i].method = "MANUAL" => x.method = "MANUAL",
         x.inv # None => qpay[x.inv].row = i /\ (x.inv = row[i].inv \/ qpay[x.inv].qr # "dead"),
         x.status = "PENDING" /\ x.method = "QPAY" /\ x.inv # None
           => row[i].status = "PENDING" /\ row[i].method = "QPAY",
         x.status \in CreditedStatuses =>
           \/ x.ref = None /\ x.method = "MANUAL"
           \/ x.ref # None /\ qpay[x.ref].row = i /\ qpay[x.ref].paid = "full"
  PROVE  Progresses /\ Sound'
<1>1. \A j \in Rows : row'[j] = IF j = i THEN x ELSE row[j]
  BY Types DEF IInv
<1>2. Progresses
  BY <1>1 DEF Progresses
<1>3. RowsAreSound'
  <2>1. x.status \notin CreditedStatuses => thanked[i] = 0
    BY DEF IInv, RowsAreSound
  <2> QED
    BY <1>1, <2>1 DEF IInv, RowsAreSound
<1>4. CreditIsBacked'
  BY <1>1 DEF IInv, CreditIsBacked
<1>5. ProgressIsPaid'
  BY <1>1 DEF IInv, ProgressIsPaid
<1>6. NoDeadQrOffered'
  BY <1>1 DEF IInv, NoDeadQrOffered
<1> QED
  BY <1>2, <1>3, <1>4, <1>5, <1>6 DEF Sound

(* One invoice is written at QPay.                                         *)
LEMMA QrWrite ==
  ASSUME IInv, NEW n \in Invoices, NEW y \in QrRecord,
         qpay' = [qpay EXCEPT ![n] = y], UNCHANGED <<row, refunded, thanked, stage, contract>>,
         TypeOK',
         qpay[n].row # None => y.row = qpay[n].row,
         qpay[n].paid = "full" => y.paid = "full",
         y.qr = "dead" => \A i \in Rows :
           row[i].inv = n => row[i].status # "PENDING" \/ row[i].method = "MANUAL"
  PROVE  Progresses /\ Sound'
<1>1. \A m \in Invoices : qpay'[m] = IF m = n THEN y ELSE qpay[m]
  BY Types DEF IInv
<1>2. \A i \in Rows : /\ row[i].inv \in Invoices \cup {None}
                      /\ row[i].ref \in Invoices \cup {None}
  BY Types DEF IInv, RowRecord
<1>3. Progresses
  BY <1>1 DEF Progresses
<1>4. RowsAreSound'
  BY <1>1, <1>2, NoneIsNothing DEF IInv, RowsAreSound
<1>5. CreditIsBacked'
  BY <1>1, <1>2, NoneIsNothing DEF IInv, CreditIsBacked
<1>6. ProgressIsPaid'
  BY DEF IInv, ProgressIsPaid
<1>7. NoDeadQrOffered'
  BY <1>1, <1>2 DEF IInv, NoDeadQrOffered
<1> QED
  BY <1>3, <1>4, <1>5, <1>6, <1>7 DEF Sound

(* A row appears, or is converted, failed, retired, credited or refunded.  *)

(* payment.create: the row is new, so nobody relies on it yet.             *)
LEMMA InsertKeepsIInv ==
  ASSUME IInv, NEW q \in Requests, Insert(q)
  PROVE  IInv'
<1>r. req[q] \in ReqRecord /\ Good(req[q]) /\ req[q].step = "insert"
  BY Types DEF IInv, Insert, At
<1>1. CASE ~ SlotIsFree
  BY <1>1, FinishStep DEF Insert, OnlyReq
<1>2. ASSUME NEW i \in Rows, NextRow(i), NEW m \in {"QPAY", "MANUAL"}, NEW s \in {"claim", "mint"},
             s = "claim" => m = "MANUAL",
             s = "claim" <=> req[q].op = "manual",
             row' = [row EXCEPT ![i] = [NoRow EXCEPT !.status = "PENDING", !.method = m]],
             req' = [req EXCEPT ![q].row = i, ![q].step = s],
             UNCHANGED <<qpay, refunded, thanked, stage, contract>>
      PROVE  IInv'
  <2> DEFINE x == [NoRow EXCEPT !.status = "PENDING", !.method = m]
             r == [req[q] EXCEPT !.row = i, !.step = s]
  <2>1. x \in RowRecord /\ r \in ReqRecord
    BY <1>r DEF NoRow, RowRecord, ReqRecord, Steps
  <2>2. /\ x.status = "PENDING" /\ x.inv = None /\ x.method = m
        /\ r.row = i /\ r.step = s /\ r.inv = None /\ r.op = req[q].op
    BY <1>r DEF NoRow, ReqRecord, Good
  <2>3. req' = [req EXCEPT ![q] = r] /\ row' = [row EXCEPT ![i] = x]
    BY <1>2, <1>r, Types DEF IInv
  <2>4. req'[q] = r /\ row'[i] = x
    BY <2>3, Types DEF IInv
  <2> HIDE DEF x, r
  <2>5. TypeOK'
    <3>1. row' \in [Rows -> RowRecord] /\ req' \in [Requests -> ReqRecord]
      <4>1. row \in [Rows -> RowRecord] /\ req \in [Requests -> ReqRecord]
        BY Types DEF IInv
      <4> QED
        BY <2>1, <2>3, <4>1
    <3>2. /\ qpay' \in [Invoices -> QrRecord] /\ refunded' \subseteq Rows
          /\ thanked' \in [Rows -> 0 .. 2] /\ stage' \in CaseStage
          /\ contract' \in {"SIGNED", "ACTIVE", "TERMINATED"}
      BY <1>2, Types DEF IInv
    <3> QED
      BY <3>1, <3>2, TypesNext
  <2>6. row[i].status = "ABSENT" /\ i \notin refunded
    BY <1>2 DEF NextRow, IInv, RowsAreSound
  <2>7. Progresses /\ Sound'
    BY <1>2, <2>1, <2>2, <2>3, <2>5, <2>6, RowWrite DEF CreditedStatuses
  <2>8. GoodAt(q)' /\ r.step \notin Claimant
    BY <1>2, <2>2, <2>4, NoneIsNothing DEF GoodAt, Good, RowSteps, Claimant
  <2> QED
    BY <1>2, <2>1, <2>3, <2>7, <2>8, PlainStep
<1>3. CASE SlotIsFree
  BY <1>2, <1>3 DEF Insert, Runs
<1> QED
  BY <1>1, <1>3

(* registerManual's update changes the method and no status.               *)
LEMMA ConvertKeepsIInv ==
  ASSUME IInv, NEW q \in Requests, Convert(q)
  PROVE  IInv'
<1> DEFINE i == req[q].row
           s == IF req[q].inv # None THEN "cancelQr" ELSE "claim"
           x == [row[i] EXCEPT !.method = "MANUAL"]
           r == [req[q] EXCEPT !.step = s]
<1>r. req[q] \in ReqRecord /\ Good(req[q]) /\ req[q].step = "update"
  BY Types DEF IInv, Convert, At
<1>1. i \in Rows /\ req[q].op = "manual" /\ row[i].status # "ABSENT"
  BY <1>r DEF Good, RowSteps, ReqRecord
<1>2. row[i] \in RowRecord
  BY <1>1, Types DEF IInv
<1>3. x \in RowRecord /\ r \in ReqRecord
  BY <1>r, <1>2 DEF RowRecord, ReqRecord, Steps
<1>4. /\ x.status = row[i].status /\ x.method = "MANUAL" /\ x.inv = row[i].inv /\ x.ref = row[i].ref
      /\ r.row = i /\ r.step = s /\ r.inv = req[q].inv /\ r.op = "manual"
  BY <1>r, <1>1, <1>2 DEF RowRecord, ReqRecord
<1>5. row' = [row EXCEPT ![i] = x] /\ req' = [req EXCEPT ![q] = r]
  BY <1>1, Types DEF IInv, Convert, Goto
<1>6. req'[q] = r /\ row'[i] = x
  BY <1>1, <1>5, Types DEF IInv
<1>u. UNCHANGED <<qpay, refunded, thanked, stage, contract>>
  BY DEF Convert
<1> HIDE DEF x, r
<1>7. TypeOK'
  BY <1>u, <1>1, <1>3, <1>5, Types, TypesNext DEF IInv
<1>8. Progresses /\ Sound'
  <2>1. x.inv # None => qpay[x.inv].row = i
    BY <1>1, <1>4 DEF IInv, RowsAreSound
  <2>2. x.status \in CreditedStatuses =>
           \/ x.ref = None /\ x.method = "MANUAL"
           \/ x.ref # None /\ qpay[x.ref].row = i /\ qpay[x.ref].paid = "full"
    BY <1>1, <1>4 DEF IInv, CreditIsBacked
  <2>3. i \in refunded' <=> x.status = "REFUNDED"
    BY <1>u, <1>1, <1>4 DEF IInv, RowsAreSound
  <2>4. /\ x.status # "ABSENT"
        /\ row[i].status \notin {"ABSENT", "PENDING"} => x.status # "PENDING"
        /\ row[i].status \in CreditedStatuses => x.status \in CreditedStatuses
        /\ row[i].status # "ABSENT" /\ row[i].method = "MANUAL" => x.method = "MANUAL"
        /\ x.inv = row[i].inv /\ x.method # "QPAY"
    BY <1>1, <1>4
  <2>5. /\ \A j \in Rows : j # i => (j \in refunded' <=> j \in refunded)
        /\ UNCHANGED <<qpay, thanked, stage, contract>>
    BY <1>u
  <2> HIDE DEF i
  <2>6. i \in Rows /\ x \in RowRecord
    BY <1>1, <1>3
  <2> QED
    BY <1>5, <1>7, <2>1, <2>2, <2>3, <2>4, <2>5, <2>6, RowWrite
<1>9. GoodAt(q)' /\ r.step \notin Claimant
  BY <1>u, <1>r, <1>1, <1>4, <1>6, NoneIsNothing DEF GoodAt, Good, RowSteps, Claimant
<1> QED
  BY <1>u, <1>3, <1>5, <1>8, <1>9, PlainStep

(* The steps that write a row if it is still as they expect, or leave it.  *)

(* A row whose invoice was refused is failed only while it is PENDING.     *)
LEMMA FailKeepsIInv ==
  ASSUME IInv, NEW q \in Requests, Fail(q)
  PROVE  IInv'
<1> DEFINE i == req[q].row
           x == [row[i] EXCEPT !.status = "FAILED"]
<1>r. req[q] \in ReqRecord /\ Good(req[q]) /\ req[q].step = "fail"
  BY Types DEF IInv, Fail, At
<1>1. i \in Rows
  BY <1>r DEF Good, RowSteps, ReqRecord
<1>2. CASE row[i].status # "PENDING"
  BY <1>2, FinishStep DEF Fail, OnlyReq
<1>3. CASE row[i].status = "PENDING"
  <2>1. row[i] \in RowRecord
    BY <1>1, Types DEF IInv
  <2>2. x \in RowRecord
    BY <2>1 DEF RowRecord
  <2>3. x.status = "FAILED" /\ x.method = row[i].method /\ x.inv = row[i].inv
    BY <2>1 DEF RowRecord
  <2>4. row' = [row EXCEPT ![i] = x] /\ req' = [req EXCEPT ![q] = Idle]
    BY <1>1, <1>3, Types DEF IInv, Fail, Finish
  <2>u. UNCHANGED <<qpay, refunded, thanked, stage, contract>>
    BY DEF Fail
  <2> HIDE DEF x
  <2>5. TypeOK'
    BY <2>u, <1>1, <2>2, <2>4, IdleIsSound, Types, TypesNext DEF IInv
  <2>6. i \notin refunded /\ (x.inv # None => qpay[x.inv].row = i)
    BY <1>1, <1>3, <2>3 DEF IInv, RowsAreSound
  <2>7. Progresses /\ Sound'
    BY <2>u, <1>1, <1>3, <2>2, <2>3, <2>4, <2>5, <2>6, RowWrite DEF CreditedStatuses
  <2>8. GoodAt(q)'
    BY <2>4, Types DEF IInv, GoodAt, Good, Idle, RowSteps, Claimant, None
  <2> QED
    BY <2>u, <2>4, <2>7, <2>8, IdleIsSound, PlainStep
<1> QED
  BY <1>2, <1>3

(* expireInvoice writes only a PENDING row, before it turns to QPay.       *)
LEMMA ExpireKeepsIInv ==
  ASSUME IInv, NEW q \in Requests, Expire(q)
  PROVE  IInv'
<1> DEFINE i == req[q].row
           x == [row[i] EXCEPT !.status = "EXPIRED"]
<1>r. req[q] \in ReqRecord /\ Good(req[q]) /\ req[q].step = "expire"
  BY Types DEF IInv, Expire, At
<1>1. i \in Rows
  BY <1>r DEF Good, RowSteps, ReqRecord
<1>2. CASE row[i].status # "PENDING"
  <2>1. ASSUME NEW s \in {"ready", "cancelCase"}, Goto(q, s)
        PROVE  IInv'
    BY <1>2, <1>r, <2>1, GotoStep
       DEF Expire, OnlyReq, Good, ReqRecord, RowSteps, Steps, Claimant
  <2> QED
    BY <1>2, <2>1, FinishStep DEF Expire, OnlyReq
<1>3. CASE row[i].status = "PENDING"
  <2>1. row[i] \in RowRecord
    BY <1>1, Types DEF IInv
  <2>2. x \in RowRecord
    BY <2>1 DEF RowRecord
  <2>3. x.status = "EXPIRED" /\ x.method = row[i].method /\ x.inv = row[i].inv
    BY <2>1 DEF RowRecord
  <2>4. row' = [row EXCEPT ![i] = x]
    BY <1>1, <1>3, Types DEF IInv, Expire
  <2>u. UNCHANGED <<qpay, refunded, thanked, stage, contract>>
    BY DEF Expire
  <2>5. ASSUME NEW r \in ReqRecord, req' = [req EXCEPT ![q] = r]
        PROVE  Progresses /\ Sound'
    <3> HIDE DEF x
    <3>1. TypeOK'
      BY <2>u, <1>1, <2>2, <2>4, <2>5, Types, TypesNext DEF IInv
    <3>2. i \notin refunded /\ (x.inv # None => qpay[x.inv].row = i)
      BY <1>1, <1>3, <2>3 DEF IInv, RowsAreSound
    <3> QED
      BY <2>u, <1>1, <1>3, <2>2, <2>3, <2>4, <3>1, <3>2, RowWrite DEF CreditedStatuses
  <2>6. CASE Finish(q)
    <3>1. req' = [req EXCEPT ![q] = Idle]
      BY <2>6 DEF Finish
    <3>2. GoodAt(q)'
      BY <3>1, Types DEF IInv, GoodAt, Good, Idle, RowSteps, Claimant, None
    <3> QED
      BY <2>u, <2>5, <3>1, <3>2, IdleIsSound, PlainStep
  <2>7. ASSUME NEW s \in {"cancelQr", "ready", "cancelCase"}, Goto(q, s),
               s = "cancelQr" => req[q].inv # None
        PROVE  IInv'
    <3> DEFINE r == [req[q] EXCEPT !.step = s]
    <3>1. r \in ReqRecord /\ r.step = s /\ r.row = i /\ r.inv = req[q].inv /\ r.op = req[q].op
      BY <1>r DEF ReqRecord, Steps
    <3>s. s \in Steps
      BY DEF Steps
    <3>2. req' = [req EXCEPT ![q] = r]
      BY <2>7, <3>s, Moving DEF IInv
    <3>3. req'[q] = r /\ row'[i].status = "EXPIRED"
      BY <1>1, <2>3, <2>4, <3>2, Types DEF IInv
    <3> HIDE DEF r, x
    <3>4. GoodAt(q)'
      BY <1>r, <1>1, <2>u, <2>7, <3>1, <3>3, NoneIsNothing DEF GoodAt, Good, RowSteps, Claimant
    <3>5. r.step \notin Claimant
      BY <3>1 DEF Claimant
    <3> QED
      BY <2>u, <2>5, <3>1, <3>2, <3>4, <3>5, PlainStep
  <2> QED
    BY <1>3, <2>6, <2>7 DEF Expire
<1> QED
  BY <1>2, <1>3

(* confirmPayment's conditional update makes one claimant, with money      *)
(* behind it.                                                              *)
LEMMA ClaimKeepsIInv ==
  ASSUME IInv, NEW q \in Requests, Claim(q)
  PROVE  IInv'
<1> DEFINE i == req[q].row
           ref == IF req[q].op = "manual" THEN None ELSE req[q].inv
           x == [row[i] EXCEPT !.status = "PAID", !.ref = ref]
           r == [req[q] EXCEPT !.step = "progress"]
<1>r. req[q] \in ReqRecord /\ Good(req[q]) /\ req[q].step = "claim"
  BY Types DEF IInv, Claim, At
<1>1. i \in Rows
  BY <1>r DEF Good, RowSteps, ReqRecord
<1>2. CASE row[i].status # "PENDING"
  BY <1>2, FinishStep DEF Claim, OnlyReq
<1>3. CASE row[i].status = "PENDING"
  <2>1. row[i] \in RowRecord
    BY <1>1, Types DEF IInv
  <2>2. x \in RowRecord /\ r \in ReqRecord
    BY <1>r, <2>1 DEF RowRecord, ReqRecord, CreditedStatuses, Steps
  <2>3. /\ x.status = "PAID" /\ x.method = row[i].method /\ x.inv = row[i].inv /\ x.ref = ref
        /\ r.row = i /\ r.step = "progress" /\ r.inv = req[q].inv /\ r.op = req[q].op
    BY <1>r, <2>1 DEF RowRecord, ReqRecord
  <2>4. row' = [row EXCEPT ![i] = x]
    BY <1>1, <1>3, Types DEF IInv, Claim, Runs
  <2>5. req' = [req EXCEPT ![q] = r]
    BY <1>3, Types DEF IInv, Claim, Goto
  <2>6. req'[q] = r /\ row'[i] = x
    BY <1>1, <2>4, <2>5, Types DEF IInv
  <2>u. UNCHANGED <<qpay, refunded, thanked, stage, contract>>
    BY DEF Claim
  <2> HIDE DEF x, r
  <2>7. TypeOK'
    BY <2>u, <1>1, <2>2, <2>4, <2>5, Types, TypesNext DEF IInv
  <2>8. i \notin refunded /\ (x.inv # None => qpay[x.inv].row = i) /\ thanked[i] = 0
    BY <1>1, <1>3, <2>3 DEF IInv, RowsAreSound, CreditedStatuses
  <2>9. \/ x.ref = None /\ x.method = "MANUAL"
        \/ x.ref # None /\ qpay[x.ref].row = i /\ qpay[x.ref].paid = "full"
    BY <1>r, <2>3 DEF Good
  <2>10. Progresses /\ Sound'
    BY <2>u, <1>1, <1>3, <2>2, <2>3, <2>4, <2>7, <2>8, <2>9, RowWrite DEF CreditedStatuses
  <2>11. GoodAt(q)'
    BY <1>r, <1>1, <2>u, <2>3, <2>6, <2>8, NoneIsNothing
       DEF GoodAt, Good, RowSteps, Claimant, CreditedStatuses
  <2>12. OthersUndisturbed(q)
    <3>1. \A p \in Requests : req'[p] = IF p = q THEN r ELSE req[p]
      BY <2>5, Types DEF IInv
    <3>2. ASSUME NEW p \in Requests, p # q, req[p].step \in Claimant
          PROVE  req[p].row # i
      BY <1>3, <3>2 DEF IInv, Good, CreditedStatuses
    <3>3. OneClaimant'
      BY <2>3, <3>1, <3>2 DEF IInv, OneClaimant
    <3> QED
      BY <2>u, <3>3 DEF OthersUndisturbed
  <2> QED
    BY <2>2, <2>5, <2>10, <2>11, <2>12, WriteStep
<1> QED
  BY <1>2, <1>3

(* refund's transaction: the unique index lets one REFUND row through.     *)
LEMMA RefundWritesKeepsIInv ==
  ASSUME IInv, NEW q \in Requests, RefundWrites(q)
  PROVE  IInv'
<1> DEFINE i == req[q].row
           x == [row[i] EXCEPT !.status = "REFUNDED"]
<1>r. req[q] \in ReqRecord /\ Good(req[q]) /\ req[q].step = "refund"
  BY Types DEF IInv, RefundWrites, At
<1>1. i \in Rows /\ row[i].status \in CreditedStatuses
  BY <1>r DEF Good, RowSteps, ReqRecord
<1>2. CASE i \in refunded
  BY <1>2, FinishStep DEF RefundWrites, OnlyReq
<1>3. CASE i \notin refunded
  <2>1. row[i] \in RowRecord
    BY <1>1, Types DEF IInv
  <2>2. x \in RowRecord
    BY <2>1 DEF RowRecord, CreditedStatuses
  <2>3. x.status = "REFUNDED" /\ x.method = row[i].method /\ x.inv = row[i].inv /\ x.ref = row[i].ref
    BY <2>1 DEF RowRecord
  <2>4. /\ row' = [row EXCEPT ![i] = x]
        /\ req' = [req EXCEPT ![q] = Idle]
        /\ refunded' = refunded \cup {i}
    BY <1>1, <1>3, Types DEF IInv, RefundWrites, Finish
  <2>u. UNCHANGED <<qpay, thanked, stage, contract>>
    BY DEF RefundWrites
  <2> HIDE DEF x
  <2>5. TypeOK'
    BY <2>u, <1>1, <2>2, <2>4, IdleIsSound, Types, TypesNext DEF IInv
  <2>6. x.inv # None => qpay[x.inv].row = i
    BY <1>1, <2>3 DEF IInv, RowsAreSound
  <2>7. \/ x.ref = None /\ x.method = "MANUAL"
        \/ x.ref # None /\ qpay[x.ref].row = i /\ qpay[x.ref].paid = "full"
    BY <1>1, <2>3 DEF IInv, CreditIsBacked
  <2>8. Progresses /\ Sound'
    BY <2>u, <1>1, <2>2, <2>3, <2>4, <2>5, <2>6, <2>7, RowWrite DEF CreditedStatuses
  <2>9. GoodAt(q)'
    BY <2>4, Types DEF IInv, GoodAt, Good, Idle, RowSteps, Claimant, None
  <2> QED
    BY <2>u, <2>4, <2>8, <2>9, IdleIsSound, PlainStep
<1> QED
  BY <1>2, <1>3

-----------------------------------------------------------------------------
(* The claimant's two steps, and the sweep's last one.                     *)

(* A step that leaves rows and invoices alone progresses trivially.        *)
LEMMA SoundBesidesRows ==
  ASSUME IInv, UNCHANGED <<row, qpay, refunded, thanked>>, TypeOK', ProgressIsPaid'
  PROVE  Progresses /\ Sound'
BY DEF IInv, Progresses, Sound, RowsAreSound, CreditIsBacked, NoDeadQrOffered

(* applyPaymentProgress runs for a claimed row only.                       *)
LEMMA ProgressKeepsIInv ==
  ASSUME IInv, NEW q \in Requests, Progress(q)
  PROVE  IInv'
<1> DEFINE r == [req[q] EXCEPT !.step = "thank"]
<1>r. req[q] \in ReqRecord /\ Good(req[q]) /\ req[q].step = "progress"
  BY Types DEF IInv, Progress, At
<1>1. req[q].row \in Rows /\ row[req[q].row].status \in CreditedStatuses
  BY <1>r DEF Good, RowSteps, Claimant, ReqRecord
<1>2. r \in ReqRecord /\ r.row = req[q].row /\ r.inv = req[q].inv /\ r.op = req[q].op /\ r.step = "thank"
  BY <1>r DEF ReqRecord, Steps
<1>3. req' = [req EXCEPT ![q] = r]
  BY Types DEF IInv, Progress, Goto
<1>4. \A p \in Requests : req'[p] = IF p = q THEN r ELSE req[p]
  BY <1>3, Types DEF IInv
<1>u. UNCHANGED <<row, qpay, refunded, thanked>>
  BY DEF Progress
<1>s. stage' \in CaseStage /\ contract' \in {"SIGNED", "ACTIVE", "TERMINATED"}
  BY Types DEF IInv, Progress, TARGET, CaseStage
<1> HIDE DEF r
<1>5. TypeOK'
  BY <1>u, <1>s, <1>2, <1>3, Types, TypesNext DEF IInv
<1>6. ProgressIsPaid'
  BY <1>u, <1>1 DEF ProgressIsPaid
<1>7. GoodAt(q)'
  BY <1>r, <1>u, <1>2, <1>4 DEF GoodAt, Good, RowSteps, Claimant
<1>8. OthersUndisturbed(q)
  <2>1. OneClaimant'
    BY <1>r, <1>2, <1>4 DEF IInv, OneClaimant, Claimant
  <2> QED
    BY <1>u, <2>1 DEF OthersUndisturbed
<1> QED
  BY <1>u, <1>2, <1>3, <1>5, <1>6, <1>7, <1>8, SoundBesidesRows, WriteStep

(* The claimant thanks once and is done.                                   *)
LEMMA ThankKeepsIInv ==
  ASSUME IInv, NEW q \in Requests, Thank(q)
  PROVE  IInv'
<1> DEFINE i == req[q].row
<1>r. req[q] \in ReqRecord /\ Good(req[q]) /\ req[q].step = "thank"
  BY Types DEF IInv, Thank, At
<1>1. i \in Rows /\ row[i].status \in CreditedStatuses /\ thanked[i] = 0
  BY <1>r DEF Good, RowSteps, Claimant, ReqRecord
<1>2. thanked' = [thanked EXCEPT ![i] = 1] /\ req' = [req EXCEPT ![q] = Idle]
  BY <1>1, Types DEF IInv, Thank, Finish
<1>3. \A j \in Rows : thanked'[j] = IF j = i THEN 1 ELSE thanked[j]
  BY <1>2, Types DEF IInv
<1>4. \A p \in Requests : req'[p] = IF p = q THEN Idle ELSE req[p]
  BY <1>2, Types DEF IInv
<1>u. UNCHANGED <<row, qpay, refunded, stage, contract>>
  BY DEF Thank
<1>5. TypeOK'
  BY <1>u, <1>2, <1>1, IdleIsSound, Types, TypesNext DEF IInv
<1>6. Progresses /\ Sound'
  <2>1. Progresses
    BY <1>u DEF Progresses
  <2>2. RowsAreSound'
    BY <1>u, <1>1, <1>3 DEF IInv, RowsAreSound
  <2>3. CreditIsBacked' /\ ProgressIsPaid' /\ NoDeadQrOffered'
    BY <1>u DEF IInv, CreditIsBacked, ProgressIsPaid, NoDeadQrOffered
  <2> QED
    BY <1>5, <2>1, <2>2, <2>3 DEF Sound
<1>7. GoodAt(q)'
  BY <1>4 DEF GoodAt, Good, Idle, RowSteps, Claimant, None
<1>8. OthersUndisturbed(q)
  <2>1. ASSUME NEW p \in Requests \ {q}, req[p].step \in Claimant
        PROVE  thanked'[req[p].row] = thanked[req[p].row]
    <3>1. req[p].row \in Rows
      BY <2>1, Types DEF IInv, Good, RowSteps, Claimant, ReqRecord
    <3>2. req[p].row # i
      BY <1>r, <2>1 DEF IInv, OneClaimant, Claimant
    <3> QED
      BY <1>3, <3>1, <3>2
  <2>2. OneClaimant'
    BY <1>4, IdleIsSound DEF IInv, OneClaimant
  <2> QED
    BY <2>1, <2>2 DEF OthersUndisturbed
<1> QED
  BY <1>2, <1>6, <1>7, <1>8, IdleIsSound, WriteStep

(* The sweep's cancellation touches neither rows nor invoices.             *)
LEMMA CancelCaseKeepsIInv ==
  ASSUME IInv, NEW q \in Requests, CancelCase(q)
  PROVE  IInv'
<1>1. req' = [req EXCEPT ![q] = Idle] /\ UNCHANGED <<row, qpay, refunded, thanked>>
  BY DEF CancelCase, Finish
<1>2. stage' \in CaseStage /\ contract' \in {"SIGNED", "ACTIVE", "TERMINATED"}
  BY Types DEF IInv, CancelCase, CaseStage, ESCAPE_STAGES
<1>3. TypeOK'
  BY <1>1, <1>2, IdleIsSound, Types, TypesNext DEF IInv
<1>4. ProgressIsPaid'
  BY <1>1 DEF IInv, ProgressIsPaid, CancelCase, TARGET
<1>5. GoodAt(q)'
  BY <1>1, Types DEF IInv, GoodAt, Good, Idle, RowSteps, Claimant, None
<1> QED
  BY <1>1, <1>3, <1>4, <1>5, IdleIsSound, SoundBesidesRows, PlainStep

-----------------------------------------------------------------------------
(* The steps at QPay.                                                      *)

(* createInvoice mints for the row it was asked for.                       *)
LEMMA MintKeepsIInv ==
  ASSUME IInv, NEW q \in Requests, Mint(q)
  PROVE  IInv'
<1>r. req[q] \in ReqRecord /\ Good(req[q]) /\ req[q].step = "mint"
  BY Types DEF IInv, Mint, At
<1>1. req[q].row \in Rows /\ row[req[q].row].status # "ABSENT"
  BY <1>r DEF Good, RowSteps, ReqRecord
<1>u. UNCHANGED <<row, refunded, thanked, stage, contract>>
  BY DEF Mint
<1> DEFINE y == [NoQr EXCEPT !.row = req[q].row, !.qr = "minted"]
<1>2. y \in QrRecord /\ y.row = req[q].row /\ y.qr = "minted"
  BY <1>1 DEF NoQr, QrRecord
<1>3. SUFFICES ASSUME NEW n \in Invoices, qpay[n] = NoQr, qpay' = [qpay EXCEPT ![n] = y],
                      \/ req' = [req EXCEPT ![q].inv = n, ![q].step = "attach"]
                      \/ Goto(q, "fail")
               PROVE  IInv'
  BY DEF Mint
<1> DEFINE a == [req[q] EXCEPT !.inv = n, !.step = "attach"]
           f == [req[q] EXCEPT !.step = "fail"]
<1>4. /\ a \in ReqRecord /\ a.row = req[q].row /\ a.inv = n /\ a.step = "attach" /\ a.op = req[q].op
      /\ f \in ReqRecord /\ f.row = req[q].row /\ f.inv = req[q].inv /\ f.step = "fail" /\ f.op = req[q].op
  BY <1>r DEF ReqRecord, Steps
<1>5. qpay'[n] = y /\ \A m \in Invoices \ {n} : qpay'[m] = qpay[m]
  BY <1>3, Types DEF IInv
<1> HIDE DEF y
<1>6. ASSUME NEW r \in ReqRecord, req' = [req EXCEPT ![q] = r]
      PROVE  Progresses /\ Sound'
  <2>1. TypeOK'
    BY <1>u, <1>2, <1>3, <1>6, Types, TypesNext DEF IInv
  <2>2. qpay[n].row = None /\ qpay[n].paid = "no"
    BY <1>3 DEF NoQr
  <2> QED
    BY <1>u, <1>2, <1>3, <2>1, <2>2, QrWrite
<1>7. CASE req' = [req EXCEPT ![q].inv = n, ![q].step = "attach"]
  <2>1. req' = [req EXCEPT ![q] = a]
    BY <1>7, Types DEF IInv
  <2>2. req'[q] = a
    BY <2>1, Types DEF IInv
  <2> HIDE DEF a
  <2>3. GoodAt(q)' /\ a.step \notin Claimant
    BY <1>u, <1>1, <1>2, <1>4, <1>5, <2>2, NoneIsNothing DEF GoodAt, Good, RowSteps, Claimant
  <2> QED
    BY <1>u, <1>4, <1>6, <2>1, <2>3, PlainStep
<1>8. CASE Goto(q, "fail")
  <2>1. req' = [req EXCEPT ![q] = f]
    BY <1>8, Types DEF IInv, Goto
  <2>2. req'[q] = f
    BY <2>1, Types DEF IInv
  <2>3. req[q].inv # None => req[q].inv \in Invoices \ {n}
    BY <1>3, <1>r, <1>1, NoneIsNothing DEF Good, NoQr, ReqRecord
  <2> HIDE DEF f
  <2>4. GoodAt(q)' /\ f.step \notin Claimant
    BY <1>u, <1>r, <1>1, <1>4, <1>5, <2>2, <2>3, NoneIsNothing DEF GoodAt, Good, RowSteps, Claimant
  <2> QED
    BY <1>u, <1>4, <1>6, <2>1, <2>4, PlainStep
<1> QED
  BY <1>3, <1>7, <1>8

(* The invoice attached to a row was minted for it and is not dead.        *)
LEMMA AttachKeepsIInv ==
  ASSUME IInv, NEW q \in Requests, Attach(q)
  PROVE  IInv'
<1> DEFINE i == req[q].row
           n == req[q].inv
           x == [row[i] EXCEPT !.inv = n]
           y == [qpay[n] EXCEPT !.qr = "shown"]
<1>r. req[q] \in ReqRecord /\ Good(req[q]) /\ req[q].step = "attach"
  BY Types DEF IInv, Attach, At
<1>1. /\ i \in Rows /\ n \in Invoices /\ n # None
      /\ row[i].status # "ABSENT" /\ qpay[n].row = i
  BY <1>r DEF Good, RowSteps, ReqRecord
<1>2. row[i] \in RowRecord /\ qpay[n] \in QrRecord /\ qpay[n] # NoQr
  BY <1>1, NoneIsNothing, Types DEF IInv, NoQr
<1>3. x \in RowRecord /\ y \in QrRecord
  BY <1>1, <1>2 DEF RowRecord, QrRecord
<1>4. /\ x.status = row[i].status /\ x.method = row[i].method /\ x.ref = row[i].ref /\ x.inv = n
      /\ y.row = i /\ y.paid = qpay[n].paid /\ y.qr = "shown"
  BY <1>1, <1>2 DEF RowRecord, QrRecord
<1>5. /\ row' = [row EXCEPT ![i] = x]
      /\ qpay' = [qpay EXCEPT ![n] = y]
      /\ req' = [req EXCEPT ![q] = Idle]
  BY <1>1, Types DEF IInv, Attach, Finish
<1>6. /\ \A j \in Rows : row'[j] = IF j = i THEN x ELSE row[j]
      /\ \A m \in Invoices : qpay'[m] = IF m = n THEN y ELSE qpay[m]
  BY <1>5, Types DEF IInv
<1>7. \A j \in Rows : row[j].inv \in Invoices \cup {None} /\ row[j].ref \in Invoices \cup {None}
  BY Types DEF IInv, RowRecord
<1>u. UNCHANGED <<refunded, thanked, stage, contract>>
  BY DEF Attach
<1> HIDE DEF x, y
<1>8. TypeOK'
  BY <1>u, <1>3, <1>5, IdleIsSound, Types, TypesNext DEF IInv
<1>9. Progresses
  BY <1>1, <1>4, <1>6 DEF Progresses
<1>10. RowsAreSound'
  BY <1>u, <1>1, <1>4, <1>6, <1>7 DEF IInv, RowsAreSound
<1>11. CreditIsBacked'
  BY <1>1, <1>4, <1>6, <1>7 DEF IInv, CreditIsBacked
<1>12. ProgressIsPaid'
  BY <1>u, <1>1, <1>4, <1>6 DEF IInv, ProgressIsPaid
<1>13. NoDeadQrOffered'
  BY <1>1, <1>4, <1>6, <1>7 DEF IInv, NoDeadQrOffered
<1>14. GoodAt(q)'
  BY <1>5, Types DEF IInv, GoodAt, Good, Idle, RowSteps, Claimant, None
<1> QED
  BY <1>u, <1>5, <1>8, <1>9, <1>10, <1>11, <1>12, <1>13, <1>14, IdleIsSound, PlainStep DEF Sound

(* cancelInvoice comes after our row was retired or converted.             *)
LEMMA CancelQrKeepsIInv ==
  ASSUME IInv, NEW q \in Requests, CancelQr(q)
  PROVE  IInv'
<1> DEFINE i == req[q].row
           n == req[q].inv
           y == [qpay[n] EXCEPT !.qr = "dead"]
<1>r. req[q] \in ReqRecord /\ Good(req[q]) /\ req[q].step = "cancelQr"
  BY Types DEF IInv, CancelQr, At
<1>1. /\ i \in Rows /\ n \in Invoices /\ n # None /\ qpay[n].row = i
      /\ row[i].status # "ABSENT"
      /\ row[i].status # "PENDING" \/ row[i].method = "MANUAL"
  BY <1>r DEF Good, RowSteps, ReqRecord
<1>2. qpay[n] \in QrRecord /\ qpay[n] # NoQr
  BY <1>1, NoneIsNothing, Types DEF IInv, NoQr
<1>3. y \in QrRecord /\ y.row = i /\ y.paid = qpay[n].paid /\ y.qr = "dead"
  BY <1>2, <1>1 DEF QrRecord
<1>u. UNCHANGED <<row, refunded, thanked, stage, contract>>
  BY DEF CancelQr
<1> HIDE DEF y
<1>4. ASSUME NEW r \in ReqRecord, req' = [req EXCEPT ![q] = r]
      PROVE  Progresses /\ Sound'
  <2>1. CASE qpay' = [qpay EXCEPT ![n] = y]
    <3>1. TypeOK'
      BY <1>u, <1>3, <2>1, <1>4, Types, TypesNext DEF IInv
    <3>2. \A j \in Rows : row[j].inv = n => j = i
      BY <1>1 DEF IInv, RowsAreSound
    <3> QED
      BY <1>u, <1>1, <1>3, <2>1, <3>1, <3>2, QrWrite
  <2>2. CASE qpay' = qpay
    <3>1. TypeOK'
      BY <1>u, <2>2, <1>4, Types, TypesNext DEF IInv
    <3>2. ProgressIsPaid'
      BY <1>u DEF IInv, ProgressIsPaid
    <3> QED
      BY <1>u, <2>2, <3>1, <3>2, SoundBesidesRows
  <2>3. qpay' = [qpay EXCEPT ![n] = y] \/ qpay' = qpay
    BY <1>1, Types DEF IInv, CancelQr, y
  <2> QED
    BY <2>1, <2>2, <2>3
<1>p. qpay'[n].row = i /\ (qpay[n].paid = "full" => qpay'[n].paid = "full")
  <2>1. qpay'[n] = y \/ qpay'[n] = qpay[n]
    BY <1>1, Types DEF IInv, CancelQr, y
  <2> QED
    BY <1>1, <1>3, <2>1
<1>5. CASE Finish(q)
  <2>1. req' = [req EXCEPT ![q] = Idle]
    BY <1>5 DEF Finish
  <2>2. GoodAt(q)'
    BY <2>1, Types DEF IInv, GoodAt, Good, Idle, RowSteps, Claimant, None
  <2> QED
    BY <1>u, <1>4, <2>1, <2>2, IdleIsSound, PlainStep
<1>6. ASSUME NEW s \in {"claim", "ready", "cancelCase"}, Goto(q, s), s = "claim" <=> req[q].op = "manual"
      PROVE  IInv'
  <2> DEFINE r == [req[q] EXCEPT !.step = s]
  <2>1. r \in ReqRecord /\ r.step = s /\ r.row = i /\ r.inv = n /\ r.op = req[q].op
    BY <1>r DEF ReqRecord, Steps
  <2>2. req' = [req EXCEPT ![q] = r]
    BY <1>6, Types DEF IInv, Goto
  <2>3. req'[q] = r
    BY <2>2, Types DEF IInv
  <2>4. s = "claim" => row[i].method = "MANUAL"
    BY <1>6, <1>r DEF Good
  <2> HIDE DEF r
  <2>5. GoodAt(q)' /\ r.step \notin Claimant
    BY <1>u, <1>p, <1>1, <1>6, <2>1, <2>3, <2>4, NoneIsNothing DEF GoodAt, Good, RowSteps, Claimant
  <2> QED
    BY <1>u, <1>4, <2>1, <2>2, <2>5, PlainStep
<1> QED
  BY <1>5, <1>6 DEF CancelQr, Runs

-----------------------------------------------------------------------------
(* The steps nobody here takes.                                            *)

(* Money coming in takes nothing back from anybody.                        *)
LEMMA ClientPaysKeepsIInv ==
  ASSUME IInv, NEW n \in Invoices, ClientPays(n)
  PROVE  IInv'
<1> PICK amount \in {"full", "short"} : qpay' = [qpay EXCEPT ![n].paid = amount]
  BY DEF ClientPays
<1> DEFINE y == [qpay[n] EXCEPT !.paid = amount]
<1>1. qpay[n] \in QrRecord /\ qpay[n].qr = "shown" /\ qpay[n].paid = "no"
  BY Types DEF IInv, ClientPays
<1>2. y \in QrRecord /\ y.row = qpay[n].row /\ y.qr = "shown"
  BY <1>1 DEF QrRecord, NoQr
<1>3. qpay' = [qpay EXCEPT ![n] = y]
  BY Types DEF IInv
<1>u. UNCHANGED <<row, refunded, thanked, stage, contract, req>>
  BY DEF ClientPays
<1> HIDE DEF y
<1>4. TypeOK'
  BY <1>u, <1>2, <1>3, Types, TypesNext DEF IInv
<1>5. Progresses /\ Sound'
  BY <1>u, <1>1, <1>2, <1>3, <1>4, QrWrite
<1> QED
  BY <1>u, <1>5, OutsideStep

(* An invoice growing old changes no status.                               *)
LEMMA DayPassesKeepsIInv ==
  ASSUME IInv, NEW i \in Rows, DayPasses(i)
  PROVE  IInv'
<1> DEFINE x == [row[i] EXCEPT !.old = TRUE]
<1>1. row[i] \in RowRecord /\ row[i].status = "PENDING"
  BY Types DEF IInv, DayPasses
<1>2. x \in RowRecord /\ x.status = "PENDING" /\ x.method = row[i].method /\ x.inv = row[i].inv
  BY <1>1 DEF RowRecord
<1>3. row' = [row EXCEPT ![i] = x]
  BY Types DEF IInv, DayPasses
<1>u. UNCHANGED <<qpay, refunded, thanked, stage, contract, req>>
  BY DEF DayPasses
<1> HIDE DEF x
<1>4. TypeOK'
  BY <1>u, <1>2, <1>3, Types, TypesNext DEF IInv
<1>5. i \notin refunded /\ (x.inv # None => qpay[x.inv].row = i)
  BY <1>1, <1>2 DEF IInv, RowsAreSound
<1>6. Progresses /\ Sound'
  BY <1>u, <1>1, <1>2, <1>3, <1>4, <1>5, RowWrite DEF CreditedStatuses
<1> QED
  BY <1>u, <1>6, OutsideStep

(* Nobody else moves the case to PREPAYMENT_PAID.                          *)
LEMMA OtherMoveKeepsIInv ==
  ASSUME IInv, NEW to \in CaseStage, OtherMove(to)
  PROVE  IInv'
<1>u. UNCHANGED <<row, qpay, refunded, thanked, contract, req>> /\ stage' = to
  BY DEF OtherMove
<1>1. TypeOK'
  BY <1>u, Types, TypesNext DEF IInv
<1>2. ProgressIsPaid'
  BY <1>u DEF IInv, ProgressIsPaid, OtherMove, TARGET, SYSTEM_ONLY_TARGETS
<1> QED
  BY <1>u, <1>1, <1>2, SoundBesidesRows, OutsideStep

-----------------------------------------------------------------------------
(* The invariant.                                                          *)

(* A signed case without payments satisfies the invariant.                 *)
LEMMA InitIInv == Init => IInv
<1> SUFFICES ASSUME Init PROVE IInv
  OBVIOUS
<1> USE DEF Init
<1>1. NoRow \in RowRecord /\ NoQr \in QrRecord
  BY DEF NoRow, NoQr, RowRecord, QrRecord
<1>2. TypeOK
  BY <1>1, IdleIsSound, Types DEF CaseStage
<1>3. \A q \in Requests : Good(req[q]) /\ req[q].step \notin Claimant
  BY IdleIsSound
<1>4. \A i \in Rows : row[i].status = "ABSENT" /\ row[i].inv = None
  BY DEF NoRow
<1> QED
  BY <1>2, <1>3, <1>4
     DEF IInv, OneClaimant, RowsAreSound, CreditIsBacked, ProgressIsPaid, NoDeadQrOffered,
         CreditedStatuses, TARGET

(* No step breaks the invariant.                                           *)
LEMMA NextIInv == IInv /\ [Next]_vars => IInv'
<1> SUFFICES ASSUME IInv, [Next]_vars PROVE IInv'
  OBVIOUS
<1>1. ASSUME NEW q \in Requests, Step(q) PROVE IInv'
  BY <1>1, OpeningKeepsIInv, AskingKeepsIInv, InsertKeepsIInv, ConvertKeepsIInv,
     MintKeepsIInv, FailKeepsIInv, AttachKeepsIInv, ExpireKeepsIInv, CancelQrKeepsIInv,
     ClaimKeepsIInv, ProgressKeepsIInv, ThankKeepsIInv, RefundWritesKeepsIInv,
     CancelCaseKeepsIInv
     DEF Step
<1>2. ASSUME NEW q \in Requests, Crash(q) PROVE IInv'
  BY <1>2, FinishStep DEF Crash
<1>3. CASE UNCHANGED vars
  <2>1. /\ UNCHANGED <<req, thanked, row, qpay, refunded, stage, contract>>
        /\ TypeOK' /\ ProgressIsPaid'
    BY <1>3, Types, TypesNext DEF vars, IInv, ProgressIsPaid
  <2> QED
    BY <2>1, SoundBesidesRows, OutsideStep
<1> QED
  BY <1>1, <1>2, <1>3, ArrivalKeepsIInv, ClientPaysKeepsIInv, DayPassesKeepsIInv,
     OtherMoveKeepsIInv
     DEF Next

(* Whatever the handlers do to each other, the invariant holds.            *)
THEOREM Invariance == Spec => []IInv
BY InitIInv, NextIInv, PTL DEF Spec

(* The variables keep their types.                                         *)
THEOREM TypeCorrect == Spec => []TypeOK
<1>1. IInv => TypeOK
  BY DEF IInv
<1> QED
  BY <1>1, Invariance, PTL

(* Every credit is backed: by an invoice minted for that row and paid in   *)
(* full (the webhook, the polls and the sweep ask QPay before they claim), *)
(* or by the office's hand.                                                *)
THEOREM CreditIsBackedHolds == Spec => []CreditIsBacked
<1>1. IInv => CreditIsBacked
  BY DEF IInv
<1> QED
  BY <1>1, Invariance, PTL

(* The case and its contract progress only on credited money.              *)
THEOREM ProgressIsPaidHolds == Spec => []ProgressIsPaid
<1>1. IInv => ProgressIsPaid
  BY DEF IInv
<1> QED
  BY <1>1, Invariance, PTL

(* Our row is retired or converted before its QR is taken down at QPay, so *)
(* that a dead QR is never the one a waiting row offers.                   *)
THEOREM NoDeadQrOfferedHolds == Spec => []NoDeadQrOffered
<1>1. IInv => NoDeadQrOffered
  BY DEF IInv
<1> QED
  BY <1>1, Invariance, PTL

-----------------------------------------------------------------------------
(* The handlers implement the ledger.                                      *)

StatusOf == [i \in Rows |-> row[i].status]

LedgerStep == Ledger!LedgerNext \/ UNCHANGED <<StatusOf, thanked>>

(* What a write of a row does to the statuses the ledger sees.             *)
LEMMA StatusAfter ==
  ASSUME IInv, NEW i \in Rows, NEW x \in RowRecord, row' = [row EXCEPT ![i] = x]
  PROVE  StatusOf' = [StatusOf EXCEPT ![i] = x.status]
BY Types DEF IInv, StatusOf

(* A write that keeps the row's status leaves every status alone.          *)
LEMMA StatusKept ==
  ASSUME IInv, NEW i \in Rows, NEW x \in RowRecord, row' = [row EXCEPT ![i] = x],
         x.status = row[i].status
  PROVE  StatusOf' = StatusOf
BY Types DEF IInv, StatusOf

(* The writes of a status that the ledger allows.                          *)
LEMMA LedgerWrite ==
  ASSUME NEW i \in Rows, NEW s, StatusOf' = [StatusOf EXCEPT ![i] = s], UNCHANGED thanked,
         \/ row[i].status = "ABSENT" /\ s = "PENDING" /\ \A j \in Rows : row[j].status # "PENDING"
         \/ row[i].status = "PENDING" /\ s \in {"FAILED", "EXPIRED", "PAID"}
         \/ row[i].status = "PAID" /\ s = "REFUNDED"
  PROVE  LedgerStep
<1> USE DEF Ledger!Becomes, StatusOf
<1>1. Ledger!Open(i) \/ Ledger!Retire(i) \/ Ledger!Credit(i) \/ Ledger!Refund(i)
  BY DEF Ledger!Open, Ledger!Unwritten, Ledger!Retire, Ledger!Retired, Ledger!Credit,
         Ledger!Refund
<1> QED
  BY <1>1 DEF LedgerStep, Ledger!LedgerNext

(* The insert opens a row, or does nothing to the ledger.                  *)
LEMMA OpenStep ==
  ASSUME IInv, NEW q \in Requests, Insert(q)
  PROVE  LedgerStep
<1>1. CASE ~ SlotIsFree
  BY <1>1 DEF Insert, LedgerStep, StatusOf
<1>2. CASE SlotIsFree
  <2> DEFINE m == IF Runs(q, "manual") THEN "MANUAL" ELSE "QPAY"
             x == [NoRow EXCEPT !.status = "PENDING", !.method = m]
  <2>1. PICK i \in Rows : NextRow(i) /\ row' = [row EXCEPT ![i] = x]
    BY <1>2 DEF Insert
  <2>2. x \in RowRecord /\ x.status = "PENDING"
    BY DEF NoRow, RowRecord
  <2> HIDE DEF x
  <2>3. StatusOf' = [StatusOf EXCEPT ![i] = "PENDING"] /\ UNCHANGED thanked
    BY <2>1, <2>2, StatusAfter DEF Insert
  <2>4. row[i].status = "ABSENT" /\ \A j \in Rows : row[j].status # "PENDING"
    BY <1>2, <2>1 DEF NextRow, SlotIsFree
  <2> QED
    BY <2>3, <2>4, LedgerWrite
<1> QED
  BY <1>1, <1>2

(* Failing or expiring a row retires it, or does nothing.                  *)
LEMMA RetireStep ==
  ASSUME IInv, NEW q \in Requests, Fail(q) \/ Expire(q)
  PROVE  LedgerStep
<1> DEFINE i == req[q].row
<1>1. i \in Rows
  BY Types DEF IInv, Good, RowSteps, ReqRecord, Fail, Expire, At
<1>2. UNCHANGED thanked
  BY DEF Fail, Expire
<1>3. CASE row[i].status # "PENDING"
  BY <1>3, <1>2 DEF Fail, Expire, LedgerStep, StatusOf
<1>4. CASE row[i].status = "PENDING"
  <2>1. PICK s \in {"FAILED", "EXPIRED"} : row' = [row EXCEPT ![i].status = s]
    BY <1>4 DEF Fail, Expire
  <2> DEFINE x == [row[i] EXCEPT !.status = s]
  <2>2. row' = [row EXCEPT ![i] = x]
    BY <1>1, <2>1, Types DEF IInv
  <2>3. x \in RowRecord /\ x.status = s
    BY <1>1, Types DEF IInv, RowRecord
  <2> HIDE DEF x
  <2>4. StatusOf' = [StatusOf EXCEPT ![i] = s]
    BY <1>1, <2>2, <2>3, StatusAfter
  <2> QED
    BY <1>1, <1>2, <1>4, <2>4, LedgerWrite
<1> QED
  BY <1>3, <1>4

(* The claim credits a row, or does nothing.                               *)
LEMMA CreditStep ==
  ASSUME IInv, NEW q \in Requests, Claim(q)
  PROVE  LedgerStep
<1> DEFINE i == req[q].row
           ref == IF Runs(q, "manual") THEN None ELSE req[q].inv
           x == [row[i] EXCEPT !.status = "PAID", !.ref = ref]
<1>1. i \in Rows /\ ref \in Invoices \cup {None}
  BY Types DEF IInv, Good, RowSteps, ReqRecord, Claim, At
<1>2. UNCHANGED thanked
  BY DEF Claim
<1>3. CASE row[i].status # "PENDING"
  BY <1>3, <1>2 DEF Claim, LedgerStep, StatusOf
<1>4. CASE row[i].status = "PENDING"
  <2>0. row[i] \in RowRecord
    BY <1>1, Types DEF IInv
  <2>1. x \in RowRecord /\ x.status = "PAID"
    BY <1>1, <2>0 DEF RowRecord, CreditedStatuses
  <2>2. row' = [row EXCEPT ![i] = x]
    BY <1>1, <1>4, Types DEF IInv, Claim
  <2> HIDE DEF x
  <2>3. StatusOf' = [StatusOf EXCEPT ![i] = "PAID"]
    BY <1>1, <2>1, <2>2, StatusAfter
  <2> QED
    BY <1>1, <1>2, <1>4, <2>3, LedgerWrite
<1> QED
  BY <1>3, <1>4

(* The refund's transaction refunds a row, or does nothing.                *)
LEMMA RefundStep ==
  ASSUME IInv, NEW q \in Requests, RefundWrites(q)
  PROVE  LedgerStep
<1> DEFINE i == req[q].row
           x == [row[i] EXCEPT !.status = "REFUNDED"]
<1>1. i \in Rows /\ row[i].status \in CreditedStatuses
  BY Types DEF IInv, Good, RowSteps, ReqRecord, RefundWrites, At
<1>2. UNCHANGED thanked
  BY DEF RefundWrites
<1>3. CASE i \in refunded
  BY <1>3, <1>2 DEF RefundWrites, LedgerStep, StatusOf
<1>4. CASE i \notin refunded
  <2>1. x \in RowRecord /\ x.status = "REFUNDED"
    BY <1>1, Types DEF IInv, RowRecord, CreditedStatuses
  <2>2. row' = [row EXCEPT ![i] = x]
    BY <1>1, <1>4, Types DEF IInv, RefundWrites
  <2> HIDE DEF x
  <2>3. StatusOf' = [StatusOf EXCEPT ![i] = "REFUNDED"]
    BY <1>1, <2>1, <2>2, StatusAfter
  <2>4. row[i].status = "PAID"
    BY <1>1, <1>4 DEF IInv, RowsAreSound, CreditedStatuses
  <2> QED
    BY <1>1, <1>2, <2>3, <2>4, LedgerWrite
<1> QED
  BY <1>3, <1>4

(* PAYMENT_CONFIRMED is the row's first and only thanks.                   *)
LEMMA ThankStep ==
  ASSUME IInv, NEW q \in Requests, Thank(q)
  PROVE  LedgerStep
<1> DEFINE i == req[q].row
<1>1. i \in Rows /\ row[i].status \in CreditedStatuses /\ thanked[i] = 0
  BY Types DEF IInv, Good, RowSteps, Claimant, ReqRecord, Thank, At
<1>2. thanked' = [thanked EXCEPT ![i] = 1] /\ StatusOf' = StatusOf
  BY <1>1, Types DEF IInv, Thank, StatusOf
<1>3. Ledger!Thank(i)
  BY <1>1, <1>2 DEF Ledger!Thank, Ledger!Credited, CreditedStatuses, StatusOf
<1> QED
  BY <1>1, <1>3 DEF LedgerStep, Ledger!LedgerNext

(* Writes that the ledger does not see.                                    *)
LEMMA RowStutter ==
  ASSUME IInv,
         \/ \E q \in Requests : Convert(q) \/ Attach(q)
         \/ \E i \in Rows : DayPasses(i)
  PROVE  LedgerStep
<1>1. UNCHANGED thanked
  BY DEF Convert, Attach, DayPasses
<1>2. PICK i \in Rows, x \in RowRecord :
        row' = [row EXCEPT ![i] = x] /\ x.status = row[i].status
  <2>1. ASSUME NEW q \in Requests, Convert(q)
        PROVE  \E i \in Rows, x \in RowRecord :
                 row' = [row EXCEPT ![i] = x] /\ x.status = row[i].status
    <3> DEFINE i == req[q].row
               x == [row[i] EXCEPT !.method = "MANUAL"]
    <3>1. i \in Rows
      BY <2>1, Types DEF IInv, Good, RowSteps, ReqRecord, Convert, At
    <3>2. x \in RowRecord /\ x.status = row[i].status
      BY <3>1, Types DEF IInv, RowRecord
    <3>3. row' = [row EXCEPT ![i] = x]
      BY <2>1, <3>1, Types DEF IInv, Convert
    <3> QED
      BY <3>1, <3>2, <3>3
  <2>2. ASSUME NEW q \in Requests, Attach(q)
        PROVE  \E i \in Rows, x \in RowRecord :
                 row' = [row EXCEPT ![i] = x] /\ x.status = row[i].status
    <3> DEFINE i == req[q].row
               x == [row[i] EXCEPT !.inv = req[q].inv]
    <3>1. i \in Rows /\ req[q].inv \in Invoices
      BY <2>2, Types DEF IInv, Good, RowSteps, ReqRecord, Attach, At
    <3>2. x \in RowRecord /\ x.status = row[i].status
      BY <3>1, Types DEF IInv, RowRecord
    <3>3. row' = [row EXCEPT ![i] = x]
      BY <2>2, <3>1, Types DEF IInv, Attach
    <3> QED
      BY <3>1, <3>2, <3>3
  <2>3. ASSUME NEW i \in Rows, DayPasses(i)
        PROVE  \E j \in Rows, x \in RowRecord :
                 row' = [row EXCEPT ![j] = x] /\ x.status = row[j].status
    <3> DEFINE x == [row[i] EXCEPT !.old = TRUE]
    <3>1. x \in RowRecord /\ x.status = row[i].status
      BY Types DEF IInv, RowRecord
    <3>2. row' = [row EXCEPT ![i] = x]
      BY <2>3, Types DEF IInv, DayPasses
    <3> QED
      BY <3>1, <3>2
  <2> QED
    BY <2>1, <2>2, <2>3
<1> QED
  BY <1>1, <1>2, StatusKept DEF LedgerStep

(* Every step of a handler is one of the ledger, or does nothing to it.    *)
LEMMA NextIsLedgerStep == IInv /\ [Next]_vars => LedgerStep
<1> SUFFICES ASSUME IInv, [Next]_vars PROVE LedgerStep
  OBVIOUS
<1>1. ASSUME UNCHANGED <<row, thanked>> PROVE LedgerStep
  BY <1>1 DEF LedgerStep, StatusOf
<1>2. ASSUME NEW q \in Requests, Arrival(q) \/ Crash(q) PROVE LedgerStep
  BY <1>1, <1>2 DEF Arrival, Crash, Begin, Look, RefundReads, SweepReads, OnlyReq
<1>3. ASSUME NEW q \in Requests, Step(q) PROVE LedgerStep
  <2>1. CASE BeginAgain(q) \/ CreateOpens(q) \/ ReissueOpens(q) \/ ManualOpens(q) \/ SweepOpens(q)
    BY <1>1, <2>1 DEF BeginAgain, CreateOpens, ReissueOpens, ManualOpens, SweepOpens, OnlyReq
  <2>2. CASE MintRefused(q) \/ Answer(q) \/ NoAnswer(q)
    BY <1>1, <2>2 DEF MintRefused, Answer, NoAnswer, OnlyReq
  <2>3. CASE Mint(q) \/ CancelQr(q) \/ Progress(q) \/ CancelCase(q)
    BY <1>1, <2>3 DEF Mint, CancelQr, Progress, CancelCase
  <2> QED
    BY <1>3, <2>1, <2>2, <2>3, OpenStep, RetireStep, CreditStep, RefundStep, ThankStep,
       RowStutter
       DEF Step
<1>4. CASE (\E n \in Invoices : ClientPays(n)) \/ (\E to \in CaseStage : OtherMove(to))
  BY <1>1, <1>4 DEF ClientPays, OtherMove
<1>5. CASE UNCHANGED vars
  BY <1>1, <1>5 DEF vars
<1> QED
  BY <1>2, <1>3, <1>4, <1>5, RowStutter DEF Next

(* Through every race of its handlers the prepayment is kept like the      *)
(* ledger of module DebtLedger: one row waits at a time, each is credited  *)
(* or retired once, and the client is thanked once for money that came in. *)
THEOREM LedgerIsKept == Spec => KeepsTheLedger
<1>1. Init => Ledger!LedgerInit
  BY DEF Init, NoRow, Ledger!LedgerInit, Ledger!Unwritten
<1>2. IInv /\ [Next]_vars => [Ledger!LedgerNext]_(Ledger!ledger)
  BY NextIsLedgerStep DEF LedgerStep, StatusOf, Ledger!ledger
<1> QED
  BY <1>1, <1>2, Invariance, PTL DEF Spec, KeepsTheLedger, Ledger!LedgerSpec
=============================================================================
