------------------------------ MODULE CaseFlow ------------------------------
(***************************************************************************)
(* The stage graph of a case, one per service: the rows                    *)
(* `buildCaseFlowDefinitions` writes to `case_flow_definitions`, and the   *)
(* walk `mainLineForward` takes along it.  Nothing here changes state; the *)
(* modules that move a case read their guards from it.  The rows and the   *)
(* order are constants, so that TLC builds each of them once.              *)
(***************************************************************************)
EXTENDS Naturals, Sequences

ServiceType ==
  {"LANGUAGE_PREP", "BACHELOR", "MASTER", "PHD", "GKS_SCHOLARSHIP"}

REGULAR_BASE ==
  << "CONTRACT_DRAFT", "CONTRACT_SIGNED", "PREPAYMENT_PAID", "DOCUMENTS",
     "APPLICATION_SUBMITTED", "ADMITTED", "TUITION_INVOICED",
     "INVITATION_RECEIVED", "VISA", "VISA_APPROVED", "BALANCE_PAID" >>

TAIL == << "PRE_DEPARTURE", "DEPARTED", "COMPLETED" >>

GKS_BASE ==
  << "CONTRACT_DRAFT", "CONTRACT_SIGNED", "PREPAYMENT_PAID", "DOCUMENTS",
     "APPLICATION_SUBMITTED", "GKS_ROUND1_PASSED", "GKS_ROUND2_PASSED",
     "BALANCE_PAID", "VISA", "VISA_APPROVED" >>

(* The main line of each service.                                          *)
CASE_FLOWS ==
  [service \in ServiceType |->
     IF service = "GKS_SCHOLARSHIP" THEN GKS_BASE \o TAIL
     ELSE IF service = "LANGUAGE_PREP"
          THEN REGULAR_BASE \o <<"COLLATERAL_CONTRACT">> \o TAIL
     ELSE REGULAR_BASE \o TAIL]

FirstStage == "CONTRACT_DRAFT"
SYSTEM_ONLY_TARGETS == {"CONTRACT_SIGNED", "PREPAYMENT_PAID", "BALANCE_PAID"}
PRE_PREPAYMENT_STAGES == {"CONTRACT_DRAFT", "CONTRACT_SIGNED"}
ESCAPE_STAGES == {"ON_HOLD", "CANCELLED", "REJECTED"}

StagesOnLine ==
  [service \in ServiceType |->
     {CASE_FLOWS[service][i] : i \in DOMAIN CASE_FLOWS[service]}]

MainLine(service) == StagesOnLine[service]

CaseStage ==
  {"CONTRACT_DRAFT", "CONTRACT_SIGNED", "PREPAYMENT_PAID", "DOCUMENTS",
   "APPLICATION_SUBMITTED", "ADMITTED", "GKS_ROUND1_PASSED",
   "GKS_ROUND2_PASSED", "TUITION_INVOICED", "INVITATION_RECEIVED", "VISA",
   "VISA_APPROVED", "BALANCE_PAID", "COLLATERAL_CONTRACT", "PRE_DEPARTURE",
   "DEPARTED", "COMPLETED"} \cup ESCAPE_STAGES

-----------------------------------------------------------------------------
(* The rows of `case_flow_definitions`, as pairs of stages.                *)

MainLineEdges(service) ==
  LET line == CASE_FLOWS[service]
  IN  {<<line[i], line[i + 1]>> : i \in 1 .. Len(line) - 1}

(* Every stage of the line but its last may be left for an escape stage.   *)
EscapeEdges(service) == (MainLine(service) \ {"COMPLETED"}) \X ESCAPE_STAGES

(* A paused case may resume anywhere on the line that is not reached by an *)
(* event of the system, and not at the end of it.                          *)
ResumeEdges(service) ==
  {"ON_HOLD"} \X (MainLine(service) \ (SYSTEM_ONLY_TARGETS \cup {"COMPLETED"}))

CaseFlowDefinition ==
  [service \in ServiceType |->
     MainLineEdges(service) \cup EscapeEdges(service) \cup ResumeEdges(service)]

Edge(service, from, to) == <<from, to>> \in CaseFlowDefinition[service]

(* What reading the flow without its service would allow: a fault the type *)
(* invariant of CaseLifecycle is tried against.                            *)
StaffEdgeOfAnyService(service, from, to) ==
  \E s \in ServiceType : Edge(s, from, to) /\ to \notin SYSTEM_ONLY_TARGETS

StaffEdge(service, from, to) ==
  Edge(service, from, to) /\ to \notin SYSTEM_ONLY_TARGETS

SystemEdge(service, from, to) ==
  Edge(service, from, to) /\ to \in SYSTEM_ONLY_TARGETS

-----------------------------------------------------------------------------
(* `mainLineForward`: the stages after `from` up to and including `to`, a  *)
(* non-empty set exactly when `to` lies ahead of `from` on the line.  The  *)
(* hops are written in one transaction, so their order is not observable.  *)

AheadOnLine ==
  [service \in ServiceType |->
     LET line == CASE_FLOWS[service]
     IN  UNION {{<<line[i], line[j]>> : i \in 1 .. j - 1} : j \in DOMAIN line}]

Ahead(service, from, to) == <<from, to>> \in AheadOnLine[service]

mainLineForward(service, from, to) ==
  {s \in MainLine(service) :
     Ahead(service, from, s) /\ (s = to \/ Ahead(service, s, to))}

=============================================================================
