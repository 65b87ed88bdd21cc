------------------------------ MODULE Payments ------------------------------
(***************************************************************************)
(* The prepayment of one case: the rows of `payments`, the invoices at     *)
(* QPay, and every handler that touches them: a client or the office       *)
(* raising a QR or asking for another one, the office booking money that   *)
(* came over the counter, QPay's webhook, the polling jobs, the sweep of   *)
(* unpaid cases, and refunds.                                              *)
(*                                                                         *)
(* A handler is a request that walks through the steps between which it    *)
(* awaits the database or QPay: one step per statement or transaction, and *)
(* what it has read so far is kept in `req`.  Requests overlap in every    *)
(* order and may die between any two steps.  The statements that re-check  *)
(* what they write (`updateMany` with a status) are conditional here, the  *)
(* others are not.                                                         *)
(***************************************************************************)
EXTENDS CaseFlow

CONSTANTS
  Requests,   \* handlers that may be in flight at once
  Rows,       \* the payment rows the debt may take up, in order of creation
  Invoices,   \* the invoices QPay may be asked for
  Service,    \* the case's service
  Handlers,   \* the handlers at work
  Moves,      \* the stages anybody else may move the case to meanwhile
  Outages     \* whether QPay may refuse, lose an answer or keep silent

ASSUME RowsAssumption     == Rows \subseteq Nat \ {0}
ASSUME InvoicesAssumption == Invoices \subseteq Nat \ {0}
ASSUME ServiceAssumption  == Service \in ServiceType
ASSUME MovesAssumption    == Moves \subseteq CaseStage
ASSUME OutagesAssumption  == Outages \in BOOLEAN

VARIABLES
  row,       \* payments: status, method, invoice, QPay payment credited, age
  qpay,      \* the invoices at QPay: the row named, the QR, the money in
  refunded,  \* the rows a REFUND row points at (unique index on refundOfId)
  thanked,   \* how often the client was told that a row is paid, up to 2
  stage,     \* Case.stage
  contract,  \* Contract.status
  req        \* the handler each request runs, its next step, what it has read

vars == <<row, qpay, refunded, thanked, stage, contract, req>>

TARGET        == "PREPAYMENT_PAID"
LIVE_STATUSES == {"PENDING", "PAID"}
None          == 0

Ops == {"none", "create", "reissue", "manual", "webhook", "poll", "sweep", "refund"}

Steps == {"idle", "ready", "open", "insert", "mint", "attach", "fail", "expire",
          "cancelQr", "update", "ask", "cancelCase", "claim", "progress",
          "thank", "refund"}

NoRow   == [status |-> "ABSENT", method |-> "QPAY", inv |-> None, ref |-> None,
            old |-> FALSE]
NoQr    == [row |-> None, qr |-> "none", paid |-> "no"]
Idle    == [op |-> "none", step |-> "idle", row |-> None, inv |-> None,
            from |-> FirstStage]

Init ==
  /\ row = [i \in Rows |-> NoRow]
  /\ qpay = [n \in Invoices |-> NoQr]
  /\ refunded = {}
  /\ thanked = [i \in Rows |-> 0]
  /\ stage = "CONTRACT_SIGNED"
  /\ contract = "SIGNED"
  /\ req = [q \in Requests |-> Idle]

-----------------------------------------------------------------------------
(* Reading the rows.                                                       *)

Live(i) == row[i].status \in LIVE_STATUSES

(* openPayment: the newest row that is settled or still owed.              *)
openPayment(i) == Live(i) /\ \A j \in Rows : j > i => ~ Live(j)
NothingOpen    == \A i \in Rows : ~ Live(i)

(* The partial unique index on (caseId, kind) WHERE PENDING.               *)
SlotIsFree == \A i \in Rows : row[i].status # "PENDING"

(* The id the next row gets: rows are numbered in order of creation.       *)
NextRow(i) ==
  /\ row[i].status = "ABSENT"
  /\ \A j \in Rows : j < i => row[j].status # "ABSENT"

(* assertReadyFor: the contract is signed throughout, so what is left is   *)
(* the system edge from where the case stands.                             *)
Ready == SystemEdge(Service, stage, TARGET)

(* Where a request stands.                                                 *)
At(q, step)     == req[q].step = step
Runs(q, op)     == req[q].op = op
Goto(q, step)   == req' = [req EXCEPT ![q].step = step]
Finish(q)       == req' = [req EXCEPT ![q] = Idle]
Take(q, i, step) ==
  req' = [req EXCEPT ![q].row = i, ![q].inv = row[i].inv, ![q].step = step]

OnlyReq == UNCHANGED <<row, qpay, refunded, thanked, stage, contract>>

-----------------------------------------------------------------------------
(* Variants of the steps below, each with a fault a careless edit could    *)
(* introduce; the properties are tried against them.                       *)

CreateOpensWithoutInsert(q) ==
  /\ At(q, "open") /\ Runs(q, "create")
  /\ \/ NothingOpen /\ Goto(q, "mint")
     \/ \E i \in Rows :
          /\ openPayment(i)
          /\ IF row[i].status = "PENDING" /\ row[i].inv = None
             THEN Take(q, i, "mint")
             ELSE Finish(q)
  /\ OnlyReq

ReissueCancelsOnlyTheQr(q) ==
  /\ At(q, "open") /\ Runs(q, "reissue")
  /\ \/ NothingOpen /\ Goto(q, "ready")
     \/ \E i \in Rows :
          /\ openPayment(i)
          /\ IF row[i].status = "PENDING" /\ row[i].method = "QPAY" /\ row[i].inv # None
             THEN Take(q, i, "cancelQr")
             ELSE Finish(q)
  /\ OnlyReq

AnswerIgnoresTheAmount(q) ==
  /\ At(q, "ask")
  /\ IF qpay[req[q].inv].paid # "no" THEN Goto(q, "claim")
     ELSE IF Runs(q, "sweep") \/ (Runs(q, "poll") /\ row[req[q].row].old)
          THEN Goto(q, "expire")
     ELSE Finish(q)
  /\ OnlyReq

AnswerNeverExpires(q) ==
  /\ At(q, "ask")
  /\ IF qpay[req[q].inv].paid = "full" THEN Goto(q, "claim")
     ELSE IF qpay[req[q].inv].paid = "no" /\ Runs(q, "sweep") THEN Goto(q, "expire")
     ELSE Finish(q)
  /\ OnlyReq

ExpireUnconditionally(q) ==
  /\ At(q, "expire")
  /\ row' = [row EXCEPT ![req[q].row].status = "EXPIRED"]
  /\ IF req[q].inv # None THEN Goto(q, "cancelQr")
     ELSE IF Runs(q, "reissue") THEN Goto(q, "ready")
     ELSE IF Runs(q, "sweep")   THEN Goto(q, "cancelCase")
     ELSE Finish(q)
  /\ UNCHANGED <<qpay, refunded, thanked, stage, contract>>

ClaimWithoutCount(q) ==
  LET i == req[q].row
  IN
  /\ At(q, "claim")
  /\ row' = IF row[i].status = "PENDING"
            THEN [row EXCEPT ![i].status = "PAID",
                             ![i].ref = IF Runs(q, "manual") THEN None ELSE req[q].inv]
            ELSE row
  /\ Goto(q, "progress")
  /\ UNCHANGED <<qpay, refunded, thanked, stage, contract>>

-----------------------------------------------------------------------------
(* createForCase, reissueForCase and registerManual look first whether the *)
(* case can take the payment.                                              *)
Begin(q, op) ==
  /\ req[q] = Idle
  /\ Ready
  /\ req' = [req EXCEPT ![q].op = op, ![q].step = "open"]
  /\ OnlyReq

(* reissueForCase hands over to createForCase, which looks again.          *)
BeginAgain(q) ==
  /\ At(q, "ready")
  /\ IF Ready
     THEN req' = [req EXCEPT ![q] = [Idle EXCEPT !.op = "create", !.step = "open"]]
     ELSE Finish(q)
  /\ OnlyReq

(* createForCase: a PENDING row with an invoice is handed back, one        *)
(* without is used again.                                                  *)
CreateOpens(q) ==
  /\ At(q, "open") /\ Runs(q, "create")
  /\ \/ /\ NothingOpen
        /\ Goto(q, "insert")
     \/ \E i \in Rows :
          /\ openPayment(i)
          /\ IF row[i].status = "PENDING" /\ row[i].inv = None
             THEN Take(q, i, "mint")
             ELSE Finish(q)
  /\ OnlyReq

(* reissueForCase: an unpaid QPay row is retired first.                    *)
ReissueOpens(q) ==
  /\ At(q, "open") /\ Runs(q, "reissue")
  /\ \/ /\ NothingOpen
        /\ Goto(q, "ready")
     \/ \E i \in Rows :
          /\ openPayment(i)
          /\ IF row[i].status = "PENDING" /\ row[i].method = "QPAY"
             THEN Take(q, i, "expire")
             ELSE Finish(q)
  /\ OnlyReq

(* registerManual: an unpaid row is converted rather than duplicated.      *)
ManualOpens(q) ==
  /\ At(q, "open") /\ Runs(q, "manual")
  /\ \/ /\ NothingOpen
        /\ Goto(q, "insert")
     \/ \E i \in Rows :
          /\ openPayment(i)
          /\ IF row[i].status = "PENDING" THEN Take(q, i, "update") ELSE Finish(q)
  /\ OnlyReq

(* The insert of either: it loses against the index when somebody else     *)
(* holds the slot, and the request ends with the winner's row or an error. *)
Insert(q) ==
  LET method == IF Runs(q, "manual") THEN "MANUAL" ELSE "QPAY"
      next   == IF Runs(q, "manual") THEN "claim" ELSE "mint"
  IN
  /\ At(q, "insert")
  /\ IF SlotIsFree
     THEN \E i \in Rows :
            /\ NextRow(i)
            /\ row' = [row EXCEPT ![i] =
                         [NoRow EXCEPT !.status = "PENDING", !.method = method]]
            /\ req' = [req EXCEPT ![q].row = i, ![q].step = next]
     ELSE Finish(q) /\ UNCHANGED row
  /\ UNCHANGED <<qpay, refunded, thanked, stage, contract>>

(* The unconditional update that converts a row.                           *)
Convert(q) ==
  /\ At(q, "update")
  /\ row' = [row EXCEPT ![req[q].row].method = "MANUAL"]
  /\ Goto(q, IF req[q].inv # None THEN "cancelQr" ELSE "claim")
  /\ UNCHANGED <<qpay, refunded, thanked, stage, contract>>

-----------------------------------------------------------------------------
(* QPay mints the invoice.  The answer may be lost; the handler then takes *)
(* it for a refusal.                                                       *)
Mint(q) ==
  /\ At(q, "mint")
  /\ \E n \in Invoices :
       /\ qpay[n] = NoQr
       /\ \A m \in Invoices : m < n => qpay[m] # NoQr
       /\ qpay' = [qpay EXCEPT ![n] = [NoQr EXCEPT !.row = req[q].row, !.qr = "minted"]]
       /\ \/ req' = [req EXCEPT ![q].inv = n, ![q].step = "attach"]
          \/ Outages /\ Goto(q, "fail")
  /\ UNCHANGED <<row, refunded, thanked, stage, contract>>

MintRefused(q) ==
  /\ Outages
  /\ At(q, "mint")
  /\ Goto(q, "fail")
  /\ OnlyReq

(* The failed row frees the slot.                                          *)
Fail(q) ==
  /\ At(q, "fail")
  /\ row' = IF row[req[q].row].status = "PENDING"
            THEN [row EXCEPT ![req[q].row].status = "FAILED"]
            ELSE row
  /\ Finish(q)
  /\ UNCHANGED <<qpay, refunded, thanked, stage, contract>>

(* The invoice is written onto the row, whatever the row holds by now, and *)
(* the client sees the QR.                                                 *)
Attach(q) ==
  LET n == req[q].inv
  IN
  /\ At(q, "attach")
  /\ row' = [row EXCEPT ![req[q].row].inv = n]
  /\ qpay' = [qpay EXCEPT ![n].qr = "shown"]
  /\ Finish(q)
  /\ UNCHANGED <<refunded, thanked, stage, contract>>

(* The client scans a QR that still works: for the whole amount or short.  *)
ClientPays(n) ==
  /\ qpay[n].qr = "shown" /\ qpay[n].paid = "no"
  /\ \E amount \in {"full", "short"} : qpay' = [qpay EXCEPT ![n].paid = amount]
  /\ UNCHANGED <<row, refunded, thanked, stage, contract, req>>

(* The invoice's day is up (QPAY_INVOICE_TTL_MS).                          *)
DayPasses(i) ==
  /\ row[i].status = "PENDING" /\ ~ row[i].old
  /\ row' = [row EXCEPT ![i].old = TRUE]
  /\ UNCHANGED <<qpay, refunded, thanked, stage, contract, req>>

-----------------------------------------------------------------------------
(* handleWebhook and pollOnce read the row; one that is not PENDING, or    *)
(* has no invoice, is left alone.                                          *)
Look(q, op, i) ==
  /\ req[q] = Idle
  /\ row[i].status = "PENDING" /\ row[i].inv # None
  /\ req' = [req EXCEPT ![q] =
       [op |-> op, step |-> "ask", row |-> i, inv |-> row[i].inv, from |-> FirstStage]]
  /\ OnlyReq

(* What each handler does with QPay's answer.  Money in full goes on to    *)
(* confirmPayment.  Money in part is reported to the office and left.      *)
Answer(q) ==
  LET paid == qpay[req[q].inv].paid
  IN
  /\ At(q, "ask")
  /\ \/ paid = "full"  /\ Goto(q, "claim")
     \/ paid = "short" /\ Finish(q)
     \/ /\ paid = "no"
        /\ IF Runs(q, "sweep") \/ (Runs(q, "poll") /\ row[req[q].row].old)
           THEN Goto(q, "expire")
           ELSE Finish(q)
  /\ OnlyReq

(* QPay's error ends the webhook, the poll, and the sweep's look at the    *)
(* case.                                                                   *)
NoAnswer(q) ==
  /\ Outages
  /\ At(q, "ask")
  /\ Finish(q)
  /\ OnlyReq

(* expireInvoice: our row first, and QPay's copy if that matched.  Then    *)
(* a reissue starts over, the sweep goes on, a poll is done.               *)
Expire(q) ==
  LET i       == req[q].row
      pending == row[i].status = "PENDING"
  IN
  /\ At(q, "expire")
  /\ row' = IF pending THEN [row EXCEPT ![i].status = "EXPIRED"] ELSE row
  /\ IF pending /\ req[q].inv # None
     THEN Goto(q, "cancelQr")
     ELSE IF Runs(q, "reissue") THEN Goto(q, "ready")
     ELSE IF Runs(q, "sweep")   THEN Goto(q, "cancelCase")
     ELSE Finish(q)
  /\ UNCHANGED <<qpay, refunded, thanked, stage, contract>>

(* cancelInvoice never throws: QPay may not have taken the QR down.        *)
CancelQr(q) ==
  /\ At(q, "cancelQr")
  /\ \/ qpay' = [qpay EXCEPT ![req[q].inv].qr = "dead"]
     \/ Outages /\ UNCHANGED qpay
  /\ IF Runs(q, "manual")       THEN Goto(q, "claim")
     ELSE IF Runs(q, "reissue") THEN Goto(q, "ready")
     ELSE IF Runs(q, "sweep")   THEN Goto(q, "cancelCase")
     ELSE Finish(q)
  /\ UNCHANGED <<row, refunded, thanked, stage, contract>>

-----------------------------------------------------------------------------
(* confirmPayment claims the row in one statement.  A caller that comes    *)
(* second finds it claimed and stops.                                      *)
Claim(q) ==
  LET i       == req[q].row
      pending == row[i].status = "PENDING"
      ref     == IF Runs(q, "manual") THEN None ELSE req[q].inv
  IN
  /\ At(q, "claim")
  /\ row' = IF pending THEN [row EXCEPT ![i].status = "PAID", ![i].ref = ref] ELSE row
  /\ IF pending THEN Goto(q, "progress") ELSE Finish(q)
  /\ UNCHANGED <<qpay, refunded, thanked, stage, contract>>

(* applyPaymentProgress: the contract and the stage move in one            *)
(* transaction, or neither does.                                           *)
Progress(q) ==
  /\ At(q, "progress")
  /\ IF Ready
     THEN stage' = TARGET /\ contract' = "ACTIVE"
     ELSE UNCHANGED <<stage, contract>>
  /\ Goto(q, "thank")
  /\ UNCHANGED <<row, qpay, refunded, thanked>>

(* PAYMENT_CONFIRMED, which only the claimant dispatches.                  *)
Thank(q) ==
  LET i == req[q].row
  IN
  /\ At(q, "thank")
  /\ thanked' = [thanked EXCEPT ![i] = IF @ = 2 THEN 2 ELSE @ + 1]
  /\ Finish(q)
  /\ UNCHANGED <<row, qpay, refunded, stage, contract>>

(* refund reads a PAID row ...                                             *)
RefundReads(q, i) ==
  /\ req[q] = Idle
  /\ row[i].status = "PAID"
  /\ req' = [req EXCEPT ![q].op = "refund", ![q].row = i, ![q].step = "refund"]
  /\ OnlyReq

(* ... and writes both rows in one transaction, which the unique index     *)
(* lets through once.                                                      *)
RefundWrites(q) ==
  LET i == req[q].row
  IN
  /\ At(q, "refund")
  /\ IF i \notin refunded
     THEN /\ refunded' = refunded \cup {i}
          /\ row' = [row EXCEPT ![i].status = "REFUNDED"]
     ELSE UNCHANGED <<refunded, row>>
  /\ Finish(q)
  /\ UNCHANGED <<qpay, thanked, stage, contract>>

-----------------------------------------------------------------------------
(* UnpaidCaseSweepService.sweep reads its candidates.  A REFUND row is     *)
(* PAID as well, so a refunded case is none.  Raising an invoice counts as *)
(* movement, and the days it waits are no shorter than an invoice's own.   *)
SweepReads(q) ==
  /\ req[q] = Idle
  /\ stage \in PRE_PREPAYMENT_STAGES
  /\ \A i \in Rows : row[i].status # "PAID"
  /\ refunded = {}
  /\ \A i \in Rows : row[i].status = "PENDING" => row[i].old
  /\ req' = [req EXCEPT ![q] =
       [op |-> "sweep", step |-> "open", row |-> None, inv |-> None, from |-> stage]]
  /\ OnlyReq

(* settleBeforeCancel reads the open row: there is at most one, and QPay   *)
(* is asked about its invoice if it has one.                               *)
SweepOpens(q) ==
  /\ At(q, "open") /\ Runs(q, "sweep")
  /\ \/ SlotIsFree /\ Goto(q, "cancelCase")
     \/ \E i \in Rows :
          /\ row[i].status = "PENDING"
          /\ Take(q, i, IF row[i].inv = None THEN "expire" ELSE "ask")
  /\ OnlyReq

(* The contract and the stage in one transaction, which a case that has    *)
(* left the stage the sweep read rolls back.                               *)
CancelCase(q) ==
  /\ At(q, "cancelCase")
  /\ IF stage = req[q].from
     THEN /\ stage' = "CANCELLED"
          /\ contract' = IF contract = "SIGNED" THEN "TERMINATED" ELSE contract
     ELSE UNCHANGED <<stage, contract>>
  /\ Finish(q)
  /\ UNCHANGED <<row, qpay, refunded, thanked>>

(* Everybody else who moves the case: staff, and events downstream.        *)
(* Module CaseLifecycle says which of these moves happen when.             *)
OtherMove(to) ==
  /\ to \in Moves \ SYSTEM_ONLY_TARGETS
  /\ Edge(Service, stage, to) \/ Ahead(Service, stage, to)
  /\ stage' = to
  /\ UNCHANGED <<row, qpay, refunded, thanked, contract, req>>

(* The process stops, or the request fails, with its handler half done.    *)
Crash(q) ==
  /\ req[q] # Idle
  /\ Finish(q)
  /\ OnlyReq

Step(q) ==
  \/ BeginAgain(q) \/ CreateOpens(q) \/ ReissueOpens(q) \/ ManualOpens(q)
  \/ Insert(q) \/ Convert(q) \/ Mint(q) \/ MintRefused(q) \/ Fail(q) \/ Attach(q)
  \/ Answer(q) \/ NoAnswer(q) \/ Expire(q) \/ CancelQr(q)
  \/ Claim(q) \/ Progress(q) \/ Thank(q) \/ RefundWrites(q)
  \/ SweepOpens(q) \/ CancelCase(q)

Arrival(q) ==
  \/ \E op \in Handlers \cap {"create", "reissue", "manual"} : Begin(q, op)
  \/ \E op \in Handlers \cap {"webhook", "poll"}, i \in Rows : Look(q, op, i)
  \/ "refund" \in Handlers /\ \E i \in Rows : RefundReads(q, i)
  \/ "sweep" \in Handlers /\ SweepReads(q)

Next ==
  \/ \E q \in Requests : Arrival(q) \/ Step(q) \/ Crash(q)
  \/ \E n \in Invoices : ClientPays(n)
  \/ \E i \in Rows : DayPasses(i)
  \/ \E to \in CaseStage : OtherMove(to)

Spec == Init /\ [][Next]_vars

(* A handler that is not cut off runs to its end.  The polling jobs come   *)
(* back to an open invoice again and again, QPay answers some of them, and *)
(* not every process dies between the answer and what follows from it.     *)
Fairness ==
  /\ \A i \in Rows : /\ WF_vars(DayPasses(i))
                     /\ SF_vars(\E q \in Requests : Look(q, "poll", i))
  /\ \A q \in Requests : /\ WF_vars(Step(q))
                         /\ SF_vars(Runs(q, "poll") /\ Answer(q))
                         /\ SF_vars(Claim(q))
                         /\ SF_vars(Expire(q))

FairSpec == Spec /\ Fairness

-----------------------------------------------------------------------------
CreditedStatuses == {"PAID", "REFUNDED"}

(* Types of the rows, the invoices at QPay and the requests in flight.     *)
TypeOK ==
  /\ row \in [Rows -> [status : {"ABSENT", "PENDING", "FAILED", "EXPIRED"} \cup CreditedStatuses,
                       method : {"QPAY", "MANUAL"},
                       inv : Invoices \cup {None}, ref : Invoices \cup {None},
                       old : BOOLEAN]]
  /\ qpay \in [Invoices -> {NoQr} \cup [row : Rows, qr : {"minted", "shown", "dead"},
                                       paid : {"no", "short", "full"}]]
  /\ refunded \subseteq Rows
  /\ thanked \in [Rows -> 0 .. 2]
  /\ stage \in CaseStage
  /\ contract \in {"SIGNED", "ACTIVE", "TERMINATED"}
  /\ req \in [Requests -> [op : Ops, step : Steps, row : Rows \cup {None},
                           inv : Invoices \cup {None}, from : CaseStage]]

(* The handlers together keep the ledger's promise: no race between the    *)
(* webhook, the polls, the desk, a new QR, the sweep and a refund credits  *)
(* a row twice, un-credits it, revives a retired one, thanks a client      *)
(* twice or leaves two rows waiting.                                       *)
Ledger == INSTANCE DebtLedger
  WITH status <- [i \in Rows |-> row[i].status], thanked <- thanked

(* Payments implements DebtLedger under this mapping.                      *)
KeepsTheLedger == Ledger!LedgerSpec

(* A row is credited with QPay's money only when an invoice minted for     *)
(* that very row was paid in full, even where two invoices were minted for *)
(* it; a row credited without is one the office booked by hand.            *)
CreditIsBacked ==
  \A i \in Rows : row[i].status \in CreditedStatuses =>
    LET n == row[i].ref
    IN  IF n = None
        THEN row[i].method = "MANUAL"
        ELSE qpay[n].row = i /\ qpay[n].paid = "full"

(* The contract becomes active and the case reaches PREPAYMENT_PAID only   *)
(* with a credited row behind it: a caller of confirmPayment that lost the *)
(* row to a retirement moves nothing.                                      *)
ProgressIsPaid ==
  (stage = TARGET \/ contract = "ACTIVE") =>
    \E i \in Rows : row[i].status \in CreditedStatuses

(* A QR that was taken down at QPay is never the one a waiting QPay row    *)
(* offers: expireInvoice writes our row first, registerManual converts it  *)
(* first.  Otherwise a client would be handed a code that cannot be paid,  *)
(* and createForCase would hand it out until the day is up.                *)
NoDeadQrOffered ==
  \A i \in Rows :
    row[i].status = "PENDING" /\ row[i].method = "QPAY" /\ row[i].inv # None
      => qpay[row[i].inv].qr # "dead"

(* An open invoice does not hold the debt's slot for ever: it is credited  *)
(* or retired, or the office has been told that it was paid short.         *)
InvoiceIsResolved ==
  \A i \in Rows :
    row[i].status = "PENDING" /\ row[i].inv # None
      ~> \/ row[i].status # "PENDING"
         \/ \E n \in Invoices : row[i].inv = n /\ qpay[n].paid = "short"
=============================================================================
