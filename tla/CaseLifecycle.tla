--------------------------- MODULE CaseLifecycle ---------------------------
(***************************************************************************)
(* The stage of one case under every writer the API has: staff moves,      *)
(* moves that follow from a downstream event, moves the system makes when  *)
(* a contract is signed or a payment confirmed, and the sweep that cancels *)
(* unpaid cases.                                                           *)
(*                                                                         *)
(* A writer reads the stage, decides, and writes later; requests overlap.  *)
(* The write is conditional on the stage that was read (`writeTransition`) *)
(* and records itself in the trail in the same transaction.  A transition  *)
(* the system makes reads and writes inside one transaction, so it is one  *)
(* step here.  The flow rows are configuration and never change.           *)
(***************************************************************************)
EXTENDS CaseFlow

CONSTANTS
  Requests,  \* requests and jobs that may be in flight at once
  Services,  \* the services a case may be opened for
  Events     \* the downstream events that may move a case of each service

(* The targets `applyDomainTransition` is called with: an admission        *)
(* checklist built, an application submitted or decided, a school invoice  *)
(* or an invitation recorded, a visa submitted or decided.                 *)
DomainTargets ==
  {"DOCUMENTS", "APPLICATION_SUBMITTED", "ADMITTED", "GKS_ROUND1_PASSED",
   "GKS_ROUND2_PASSED", "TUITION_INVOICED", "INVITATION_RECEIVED", "VISA",
   "VISA_APPROVED", "ON_HOLD"}

ASSUME ServicesAssumption == Services \subseteq ServiceType
ASSUME EventsAssumption   == Events \in [Services -> SUBSET DomainTargets]

Kinds == {"PREPAYMENT", "BALANCE"}

(* PROGRESS_TARGET: the stage a confirmed payment unlocks.                 *)
PROGRESS_TARGET ==
  [kind \in Kinds |->
     IF kind = "PREPAYMENT" THEN "PREPAYMENT_PAID" ELSE "BALANCE_PAID"]

VARIABLES
  service,   \* Case.serviceType, fixed when the case is opened
  stage,     \* Case.stage
  visited,   \* the `toStage`s of the case's CaseTransition rows
  signed,    \* the contract carries a signature
  open,      \* kinds with a PENDING payment row
  credited,  \* kinds with a PAID row, or one REFUNDED since
  req        \* what each request in flight has read and means to write

caseVars  == <<stage, visited>>
moneyVars == <<open, credited>>
vars      == <<service, caseVars, signed, moneyVars, req>>

Idle == [phase |-> "idle", from |-> FirstStage, to |-> FirstStage]

Init ==
  /\ service \in Services
  /\ stage = FirstStage
  /\ visited = {}
  /\ signed = FALSE
  /\ open = {} /\ credited = {}
  /\ req = [q \in Requests |-> Idle]

-----------------------------------------------------------------------------
(* Variants of the definitions below, each with a fault a careless edit    *)
(* could introduce; the properties are tried against them.                 *)

ResumableAnywhere(to) == TRUE

MoveWithoutTrail(to, hops) ==
  /\ stage' = to
  /\ visited' \in {visited, visited \cup hops}

ChecklistResolvedAtAnyStage(q) ==
  /\ req[q] = Idle
  /\ "DOCUMENTS" \in Events[service]
  /\ req' = [req EXCEPT ![q] =
       [phase |-> "resolved", from |-> stage, to |-> "DOCUMENTS"]]
  /\ UNCHANGED <<service, caseVars, signed, moneyVars>>

DomainReadWithoutRule(q, to) ==
  /\ IF to = "DOCUMENTS" THEN req[q].phase = "resolved" ELSE req[q] = Idle
  /\ req' = [req EXCEPT ![q] =
       IF stage # to
       THEN [phase |-> "write", from |-> stage, to |-> to]
       ELSE Idle]
  /\ UNCHANGED <<service, caseVars, signed, moneyVars>>

WriteUnconditionally(q) ==
  /\ req[q].phase = "write"
  /\ stage' = req[q].to
  /\ visited' = visited \cup {req[q].to}
  /\ req' = [req EXCEPT ![q] = Idle]
  /\ UNCHANGED <<service, signed, moneyVars>>

-----------------------------------------------------------------------------
(* assertResumable: a paused case resumes at the first stage or where the  *)
(* trail says it has been.                                                 *)
Resumable(to) == to = FirstStage \/ to \in visited

(* writeTransition, once its conditional update has matched: the stage and *)
(* the rows of the trail, one per hop.                                     *)
Move(to, hops) ==
  /\ stage' = to
  /\ visited' = visited \cup hops

Finish(q) == req' = [req EXCEPT ![q] = Idle]

(* CasesService.transition up to its write.  The trail only grows, so the  *)
(* resume check may be taken at the moment the stage is read.              *)
StaffRead(q, to) ==
  /\ req[q] = Idle
  /\ StaffEdge(service, stage, to)
  /\ stage = "ON_HOLD" => Resumable(to)
  /\ req' = [req EXCEPT ![q] =
       [phase |-> "write", from |-> stage, to |-> to]]
  /\ UNCHANGED <<service, caseVars, signed, moneyVars>>

(* resolveForCase looks at the stage before it asks for DOCUMENTS; no      *)
(* other event does.                                                       *)
ChecklistResolved(q) ==
  /\ req[q] = Idle
  /\ "DOCUMENTS" \in Events[service]
  /\ stage = "PREPAYMENT_PAID"
  /\ req' = [req EXCEPT ![q] =
       [phase |-> "resolved", from |-> stage, to |-> "DOCUMENTS"]]
  /\ UNCHANGED <<service, caseVars, signed, moneyVars>>

(* applyDomainTransition reads the case: nothing to do when it is already  *)
(* there, or when the target is neither one edge away nor ahead.           *)
DomainRead(q, to) ==
  LET reachable == Edge(service, stage, to) \/ Ahead(service, stage, to)
  IN
  /\ IF to = "DOCUMENTS" THEN req[q].phase = "resolved" ELSE req[q] = Idle
  /\ req' = [req EXCEPT ![q] =
       IF stage # to /\ reachable
       THEN [phase |-> "write", from |-> stage, to |-> to]
       ELSE Idle]
  /\ UNCHANGED <<service, caseVars, signed, moneyVars>>

(* UnpaidCaseSweepService.sweep reads its candidates: before the           *)
(* prepayment, and without a PAID row (a refund's own row is PAID too, so  *)
(* a refunded case is no candidate).                                       *)
SweepRead(q) ==
  /\ req[q] = Idle
  /\ stage \in PRE_PREPAYMENT_STAGES
  /\ credited = {}
  /\ req' = [req EXCEPT ![q] =
       [phase |-> "write", from |-> stage, to |-> "CANCELLED"]]
  /\ UNCHANGED <<service, caseVars, signed, moneyVars>>

(* The stages a write passes through: one when there is an edge, the whole *)
(* gap when a domain move walks the main line.                             *)
Hops(q) ==
  IF Edge(service, req[q].from, req[q].to)
  THEN {req[q].to}
  ELSE mainLineForward(service, req[q].from, req[q].to)

(* writeTransition: the update matches no row, and the request ends in a   *)
(* conflict, when the case has left the stage that was read.               *)
Write(q) ==
  /\ req[q].phase = "write"
  /\ IF stage = req[q].from
     THEN Move(req[q].to, Hops(q))
     ELSE UNCHANGED caseVars
  /\ Finish(q)
  /\ UNCHANGED <<service, signed, moneyVars>>

-----------------------------------------------------------------------------
(* finalizeSigning: the contract's SIGNED and the stage move are one       *)
(* transaction, so a missing edge leaves the contract unsigned.            *)
Sign ==
  /\ SystemEdge(service, stage, "CONTRACT_SIGNED")
  /\ Move("CONTRACT_SIGNED", {"CONTRACT_SIGNED"})
  /\ signed' = TRUE
  /\ UNCHANGED <<service, moneyVars, req>>

(* createForCase or registerManual: a PENDING row, where assertReadyFor    *)
(* finds a signed contract and a system edge to the stage it unlocks.  The *)
(* check for a PAID row is left out: module Payments shows it can be       *)
(* overtaken, and a second credit of a kind changes nothing here.          *)
RaiseInvoice(kind) ==
  /\ signed
  /\ SystemEdge(service, stage, PROGRESS_TARGET[kind])
  /\ kind \notin open
  /\ open' = open \cup {kind}
  /\ UNCHANGED <<service, caseVars, signed, credited, req>>

(* expireInvoice, or the row failed when the invoice could not be minted.  *)
RetireInvoice(kind) ==
  /\ kind \in open
  /\ open' = open \ {kind}
  /\ UNCHANGED <<service, caseVars, signed, credited, req>>

(* confirmPayment claims the row whatever stage the case is at; the move   *)
(* it owes is a transaction of its own.                                    *)
Confirm(q, kind) ==
  /\ req[q] = Idle
  /\ kind \in open
  /\ open' = open \ {kind}
  /\ credited' = credited \cup {kind}
  /\ req' = [req EXCEPT ![q] =
       [phase |-> "progress", from |-> FirstStage, to |-> PROGRESS_TARGET[kind]]]
  /\ UNCHANGED <<service, caseVars, signed>>

(* applyPaymentProgress: a missing edge is reported to the office and the  *)
(* stage stays where it is.                                                *)
Progress(q) ==
  /\ req[q].phase = "progress"
  /\ IF SystemEdge(service, stage, req[q].to)
     THEN Move(req[q].to, {req[q].to})
     ELSE UNCHANGED caseVars
  /\ Finish(q)
  /\ UNCHANGED <<service, signed, moneyVars>>

(* The process stops with the request half done.                           *)
Crash(q) ==
  /\ req[q] # Idle
  /\ Finish(q)
  /\ UNCHANGED <<service, caseVars, signed, moneyVars>>

Next ==
  \/ \E q \in Requests :
       \/ \E to \in CaseStage : StaffRead(q, to)
       \/ ChecklistResolved(q)
       \/ \E to \in Events[service] : DomainRead(q, to)
       \/ SweepRead(q)
       \/ Write(q)
       \/ \E kind \in Kinds : Confirm(q, kind)
       \/ Progress(q)
       \/ Crash(q)
  \/ Sign
  \/ \E kind \in Kinds : RaiseInvoice(kind) \/ RetireInvoice(kind)

Spec == Init /\ [][Next]_vars

-----------------------------------------------------------------------------
FINAL_STAGES == {"CANCELLED", "REJECTED", "COMPLETED"}

(* `s` is `mark`, or lies after it on the main line of the service.        *)
AtOrPast(mark, s) == s = mark \/ Ahead(service, mark, s)

StagesOf(sv) == MainLine(sv) \cup ESCAPE_STAGES

(* The case only ever stands on, and its trail only ever names, stages of  *)
(* its own service.                                                        *)
TypeOK ==
  /\ service \in Services
  /\ stage \in StagesOf(service)
  /\ visited \subseteq StagesOf(service)
  /\ signed \in BOOLEAN
  /\ open \subseteq Kinds
  /\ credited \subseteq Kinds
  /\ req \in [Requests -> [phase : {"idle", "resolved", "write", "progress"},
                           from : StagesOf(service), to : StagesOf(service)]]

(* A case that was cancelled, rejected or completed never moves again,     *)
(* whatever was still in flight when it ended: the flow has no edge out of *)
(* these stages and a late write finds the stage it read gone.             *)
FinalStagesAreFinal ==
  [][(stage \in FINAL_STAGES) => (stage' = stage)]_vars

(* On the main line a case only moves forward.  An event recorded late (an *)
(* invitation after the visa) or a click on a stale page never pulls it    *)
(* back; going back takes a pause and a resume.                            *)
NeverDraggedBack ==
  [][{stage, stage'} \subseteq MainLine(service) /\ stage' # stage
       => Ahead(service, stage, stage')]_vars

(* However its requests overlap, the case is moved like a case at CaseDesk,*)
(* where every move is decided and made in one step: no write acts on a    *)
(* stage the case has left, or on a right it no longer has.                *)
Desk == INSTANCE CaseDesk
KeepsToTheDesk == Desk!DeskSpec

(* Outside GKS nobody reaches the stages from BALANCE_PAID on before the   *)
(* balance has been credited: no event walks that far, staff cannot choose *)
(* the stage, and a pause is no way round it.                              *)
DepartsOnlyPaid ==
  service # "GKS_SCHOLARSHIP" /\ AtOrPast("BALANCE_PAID", stage)
    => "BALANCE" \in credited

(* A case at or past PREPAYMENT_PAID has a confirmed prepayment, what      *)
(* case-flow.ts says of PRE_PREPAYMENT_STAGES.                             *)
PastPrepaymentIsPaid ==
  AtOrPast("PREPAYMENT_PAID", stage) => "PREPAYMENT" \in credited

(* The trail has no gaps: a stage it names comes with every earlier stage  *)
(* of the line but the first, and the stage of the case is one it names.   *)
(* A resume relies on it, and so does a report reading the trail.          *)
TrailIsComplete ==
  LET known == visited \cup {FirstStage}
  IN  /\ stage \in known
      /\ \A p \in AheadOnLine[service] : p[2] \in visited => p[1] \in known

(* Both hold for a service whose only event is the checklist's, the one    *)
(* event whose caller looks at the stage before it asks for the move.  Any *)
(* other event finds a paused case one resume edge away from its target    *)
(* and takes it there in a single hop, past stages it has never been at.   *)
OnlyChecklist == Events[service] \subseteq {"DOCUMENTS"}

(* With that event alone nobody is past the prepayment unpaid: the sentence*)
(* of case-flow.ts:52-53 is true of the services it was written for.       *)
ChecklistMovesNoUnpaidCase == OnlyChecklist => PastPrepaymentIsPaid

(* With that event alone the trail of a case skips no stage of its line.   *)
ChecklistLeavesNoGap       == OnlyChecklist => TrailIsComplete
=============================================================================
