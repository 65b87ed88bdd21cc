------------------------------ MODULE CaseDesk ------------------------------
(***************************************************************************)
(* What moves a case, as if one clerk took every request in turn: a move   *)
(* is decided by where the case stands, what its trail says and what was   *)
(* paid, and is made and put on the trail at that moment.  The stages and  *)
(* how they follow each other are parameters.                              *)
(***************************************************************************)
CONSTANTS
  Services, CaseStage, FirstStage, SYSTEM_ONLY_TARGETS,
  CaseFlowDefinition,  \* the rows of each service: pairs of stages
  StagesOnLine,        \* the main line of each service ...
  AheadOnLine,         \* ... and its pairs of stages in that order
  Events,              \* the stages an event may take a case of the service to
  PROGRESS_TARGET      \* the stage that each kind of payment unlocks

VARIABLES
  service, stage,
  visited,   \* the trail
  signed,    \* the contract is signed
  credited   \* the kinds that were paid

desk == <<service, stage, visited, signed, credited>>

Row(to)         == <<stage, to>> \in CaseFlowDefinition[service]
Later(from, to) == <<from, to>> \in AheadOnLine[service]

DeskInit ==
  /\ service \in Services /\ stage = FirstStage
  /\ visited = {} /\ signed = FALSE /\ credited = {}

Goes(to, through) ==
  /\ stage' = to
  /\ visited' = visited \cup through
  /\ UNCHANGED <<service, credited>>

(* Staff, or the sweep that cancels: along a row, to no stage that has to  *)
(* be signed or paid for, and out of a pause only to where the case began  *)
(* or has been.                                                            *)
StaffMoves(to) ==
  /\ Goes(to, {to}) /\ UNCHANGED signed
  /\ Row(to) /\ to \notin SYSTEM_ONLY_TARGETS
  /\ stage = "ON_HOLD" => to \in visited \cup {FirstStage}

(* Something happened outside: along a row, or forward over a gap whose    *)
(* every stage goes on the trail.  The checklist is only built for a case  *)
(* that has been at PREPAYMENT_PAID.                                       *)
Gap(to) == {s \in StagesOnLine[service] : Later(stage, s) /\ (s = to \/ Later(s, to))}

EventMoves(to) ==
  /\ Goes(to, IF Row(to) THEN {to} ELSE Gap(to)) /\ UNCHANGED signed
  /\ to # stage /\ (Row(to) \/ Later(stage, to))
  /\ to = "DOCUMENTS" => "PREPAYMENT_PAID" \in visited

(* The contract is signed: only along a row, and with the stage.           *)
Signs ==
  /\ Goes("CONTRACT_SIGNED", {"CONTRACT_SIGNED"}) /\ signed' = TRUE
  /\ Row("CONTRACT_SIGNED")

(* Money comes in, for a contract that was signed.                         *)
Pays(kind) ==
  /\ signed
  /\ credited' = credited \cup {kind}
  /\ UNCHANGED <<service, stage, visited, signed>>

(* What was paid unlocks its stage.                                        *)
Unlocks(kind) ==
  /\ Goes(PROGRESS_TARGET[kind], {PROGRESS_TARGET[kind]}) /\ UNCHANGED signed
  /\ Row(PROGRESS_TARGET[kind]) /\ kind \in credited

Moves ==
  \/ \E to \in CaseStage : StaffMoves(to)
  \/ \E to \in Events[service] : EventMoves(to)
  \/ Signs
  \/ \E kind \in DOMAIN PROGRESS_TARGET : Unlocks(kind)

DeskNext ==
  \/ stage' # stage /\ Moves
  \/ \E kind \in DOMAIN PROGRESS_TARGET : Pays(kind)

DeskSpec == DeskInit /\ [][DeskNext]_desk
=============================================================================
