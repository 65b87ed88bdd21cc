----------------------------- MODULE Paperwork -----------------------------
(***************************************************************************)
(* The admission papers of one case and the application they are collected *)
(* for: the rule engine that lists the papers from the client's answers,   *)
(* the client who hands them in, the officers who review and translate     *)
(* them, the school that asks for more, the submission and its decisions.  *)
(*                                                                         *)
(* A paper's status is written under the status that was read              *)
(* (`applyStatus`); every other row is written without a second look.  So  *)
(* papers are handled by any number of requests at once, and the           *)
(* application by the one officer the case is assigned to: two of them     *)
(* recording different decisions at once would contradict each other.      *)
(***************************************************************************)
EXTENDS CaseFlow, FiniteSets

CONSTANTS
  Requests,          \* handlers in flight at once
  Officer,           \* the one of them that may handle the application
  Docs,              \* the templates a paper of this case may be made from
  NeedsTranslation,  \* those that have to be translated
  Service,           \* the case's service
  Moves              \* the stages staff may take it to meanwhile

ASSUME OfficerAssumption     == Officer \in Requests
ASSUME TranslationAssumption == NeedsTranslation \subseteq Docs
ASSUME ServiceAssumption     == Service \in ServiceType
ASSUME MovesAssumption       == Moves \subseteq ESCAPE_STAGES

VARIABLES
  doc,      \* the CaseDocument row of each template, if there is one
  matched,  \* the templates the client's answers match a rule for
  app,      \* Application.status
  result,   \* the decision recorded for each round
  stage,    \* Case.stage
  req,      \* each handler's next step and what it has read
  earned,   \* what was said of each paper since it was last handed in, as
            \* long as it need not be handed in again
  asked     \* the papers staff or the school asked for, not touched since

rows    == <<doc, matched>>
history == <<earned, asked>>
vars    == <<doc, matched, app, result, stage, req, history>>

None == "none"

AWAITING_SUBMISSION ==
  {"NOT_STARTED", "IN_PROGRESS", "NEEDS_FIX", "RESUBMIT_REQUIRED"}
SETTLED_STATUSES ==
  {"ACCEPTED", "IN_TRANSLATION", "TRANSLATED", "CERTIFIED", "READY",
   "SENT_TO_UNIVERSITY"}
DocumentStatus == AWAITING_SUBMISSION \cup SETTLED_STATUSES
                    \cup {"SUBMITTED", "UNDER_REVIEW"}

DOCUMENT_TRANSITIONS ==
  {"NOT_STARTED"} \X {"IN_PROGRESS", "SUBMITTED"}
    \cup {"IN_PROGRESS", "NEEDS_FIX", "RESUBMIT_REQUIRED"} \X {"SUBMITTED"}
    \cup {<<"SUBMITTED", "UNDER_REVIEW">>,
          <<"NEEDS_FIX", "RESUBMIT_REQUIRED">>}
    \cup {"UNDER_REVIEW"} \X {"NEEDS_FIX", "ACCEPTED"}
    \cup {"ACCEPTED"} \X {"IN_TRANSLATION", "READY"}
    \cup {"IN_TRANSLATION"} \X {"TRANSLATED"}
    \cup {"TRANSLATED"} \X {"CERTIFIED", "READY"}
    \cup {<<"CERTIFIED", "READY">>, <<"READY", "SENT_TO_UNIVERSITY">>}
    \cup SETTLED_STATUSES \X {"RESUBMIT_REQUIRED"}

DECISION_STATUSES == {"ACCEPTED", "REJECTED"}
DECIDABLE_STATUSES ==
  {"SUBMITTED", "UNDER_REVIEW", "ADDITIONAL_DOCS_REQUESTED",
   "INTERVIEW_SCHEDULED", "DEFERRED"}
ApplicationStatus ==
  {"PREPARING", "READY"} \cup DECIDABLE_STATUSES \cup DECISION_STATUSES

APPLICATION_TRANSITIONS ==
  {<<"PREPARING", "READY">>, <<"READY", "PREPARING">>, <<"READY", "SUBMITTED">>}
    \cup {"SUBMITTED", "ADDITIONAL_DOCS_REQUESTED"} \X {"UNDER_REVIEW"}
    \cup {"UNDER_REVIEW"} \X ({"ADDITIONAL_DOCS_REQUESTED", "INTERVIEW_SCHEDULED",
                               "DEFERRED"} \cup DECISION_STATUSES)
    \cup {"INTERVIEW_SCHEDULED"}
           \X ({"UNDER_REVIEW", "DEFERRED"} \cup DECISION_STATUSES)
    \cup {"DEFERRED"} \X ({"UNDER_REVIEW"} \cup DECISION_STATUSES)

ApplicationDecision == {"PASSED", "FAILED", "DEFERRED"}  \* or WAITLISTED, alike
Rounds == {1, 2}

(* REVIEW_TARGET *)
ReviewAction == {"ACCEPT", "REQUEST_FIX", "RETURN"}
REVIEW_TARGET ==
  [action \in ReviewAction |->
     IF action = "ACCEPT" THEN "ACCEPTED"
     ELSE IF action = "REQUEST_FIX" THEN "NEEDS_FIX" ELSE "RESUBMIT_REQUIRED"]

NoRow   == [status |-> None, live |-> FALSE, ruled |-> FALSE]
NewIn   == {}   \* nothing said yet of a paper, or nothing that counts
Idle ==
  [step |-> "idle", doc |-> None, from |-> None, plan |-> <<>>,
   verdict |-> None, todo |-> {}, adds |-> {}, drops |-> {}, to |-> None,
   round |-> 1, decision |-> None, target |-> None, seen |-> None]

(* The case stands at DOCUMENTS: its checklist was built from the answers. *)
Init ==
  /\ matched \in SUBSET Docs
  /\ doc = [d \in Docs |->
       IF d \in matched
       THEN [status |-> "NOT_STARTED", live |-> TRUE, ruled |-> TRUE]
       ELSE NoRow]
  /\ app = None
  /\ result = [round \in Rounds |-> None]
  /\ stage = "DOCUMENTS"
  /\ req = [q \in Requests |-> Idle]
  /\ earned = [d \in Docs |-> NewIn]
  /\ asked = {}

At(q, step) == req[q].step = step
Finish(q)   == req' = [req EXCEPT ![q] = Idle]
Exists(d)   == doc[d].status # None

-----------------------------------------------------------------------------
(* Variants of the definitions below, each with a fault a careless edit    *)
(* could introduce; the properties are tried against them.                 *)

MoveReadsUntranslated(q, d, to) ==
  /\ req[q] = Idle
  /\ doc[d].live
  /\ <<doc[d].status, to>> \in DOCUMENT_TRANSITIONS
  /\ req' = [req EXCEPT ![q] =
       [Idle EXCEPT !.step = "apply", !.doc = d, !.from = doc[d].status,
                    !.plan = <<to>>]]
  /\ UNCHANGED <<rows, app, result, stage, history>>

ApplyUnconditionally(q) ==
  LET r == req[q]
  IN  /\ At(q, "apply")
      /\ doc' = [doc EXCEPT ![r.doc].status = Head(r.plan)]
      /\ earned' = [earned EXCEPT ![r.doc] =
           IF Head(r.plan) \in {"SUBMITTED", "RESUBMIT_REQUIRED"} THEN NewIn
           ELSE @ \cup (IF Len(r.plan) = 1 THEN {r.verdict} \ {None} ELSE {})]
      /\ req' = [req EXCEPT ![q] =
           IF Len(r.plan) = 1 THEN Idle ELSE [r EXCEPT !.plan = Tail(@)]]
      /\ UNCHANGED <<matched, app, result, stage, asked>>

AskReadsAsExisting(q) ==
  /\ At(q, "ask")
  /\ \E d \in req[q].todo :
       req' = [req EXCEPT ![q].step = "restore", ![q].doc = d,
                          ![q].from = doc[d].status, ![q].todo = @ \ {d}]
  /\ UNCHANGED <<rows, app, result, stage, history>>

ConcludesInOneRound(decision, round) ==
  IF decision = "FAILED" THEN "REJECTED"
  ELSE IF decision = "DEFERRED" THEN "DEFERRED" ELSE "ACCEPTED"

ResultReadsOwnRound(q, round, decision) ==
  /\ req[q] = Idle
  /\ app # None
  /\ Service = "GKS_SCHOLARSHIP" \/ round = 1
  /\ app \in DECIDABLE_STATUSES \/ result[round] # None
  /\ round = 2 => result[1] = "PASSED"
  /\ req' = [req EXCEPT ![q] =
       [Idle EXCEPT !.step = "record", !.round = round, !.decision = decision]]
  /\ UNCHANGED <<rows, app, result, stage, history>>

ReachableByEdge(from, to) == Edge(Service, from, to)

-----------------------------------------------------------------------------
(* Papers.                                                                 *)

(* A handler about to walk a paper through the statuses of `plan`.         *)
Walk(q, d, plan, verdict) ==
  req' = [req EXCEPT ![q] =
    [Idle EXCEPT !.step = "apply", !.doc = d, !.from = doc[d].status,
                 !.plan = plan, !.verdict = verdict]]

(* transition(); an upload and a paper received at the desk do the same    *)
(* with SUBMITTED for a target, once the file or the receipt is stored.    *)
MoveReads(q, d, to) ==
  /\ req[q] = Idle
  /\ doc[d].live
  /\ <<doc[d].status, to>> \in DOCUMENT_TRANSITIONS
  /\ ~ (d \in NeedsTranslation /\ doc[d].status = "ACCEPTED" /\ to = "READY")
  /\ Walk(q, d, <<to>>, None)
  /\ UNCHANGED <<rows, app, result, stage, history>>

(* review(): a submission is picked up first, and a returned paper goes    *)
(* through NEEDS_FIX.                                                      *)
ReviewPlan(status, action) ==
  LET target  == REVIEW_TARGET[action]
      verdict == IF action = "RETURN" THEN <<"NEEDS_FIX", target>>
                                      ELSE <<target>>
  IN  IF status = "SUBMITTED" THEN <<"UNDER_REVIEW">> \o verdict
      ELSE IF status = "UNDER_REVIEW" THEN verdict
      ELSE <<target>>

ReviewReads(q, d, action) ==
  LET plan == ReviewPlan(doc[d].status, action)
  IN  /\ req[q] = Idle
      /\ doc[d].live
      /\ <<doc[d].status, plan[1]>> \in DOCUMENT_TRANSITIONS
      /\ Walk(q, d, plan, action)
      /\ UNCHANGED <<rows, app, result, stage, history>>

(* What is known of a paper once it has been moved.                        *)
Said(d, to, verdict) ==
  /\ earned' = [earned EXCEPT ![d] =
       IF to \in {"SUBMITTED", "RESUBMIT_REQUIRED"} THEN NewIn
       ELSE (@ \cup ({to} \cap {"ACCEPTED", "TRANSLATED"}))
               \cup ({verdict} \ {None})]
  /\ asked' = asked \ {d}

(* applyStatus: the write is conditional on the status the call was given. *)
(* The client is mailed a review's verdict once its last write matched.    *)
ApplyStatus(q) ==
  LET r  == req[q]
      to == Head(r.plan)
      final == Len(r.plan) = 1
  IN  /\ At(q, "apply")
      /\ IF doc[r.doc].status = r.from
         THEN /\ doc' = [doc EXCEPT ![r.doc].status = to]
              /\ Said(r.doc, to, IF final THEN r.verdict ELSE None)
              /\ req' = [req EXCEPT ![q] =
                   IF ~ final
                   THEN [r EXCEPT !.from = to, !.plan = Tail(@)]
                   ELSE IF r.to = None THEN Idle
                   ELSE [r EXCEPT !.step = "ask", !.doc = None, !.from = None,
                                  !.plan = <<>>]]
         ELSE UNCHANGED <<doc, history>> /\ Finish(q)
      /\ UNCHANGED <<matched, app, result, stage>>

(* createManual for the next of the papers asked for reads the row ...     *)
AskReads(q) ==
  /\ At(q, "ask")
  /\ \E d \in req[q].todo :
       req' = [req EXCEPT ![q].step = IF Exists(d) THEN "restore" ELSE "insert",
                          ![q].doc = d, ![q].from = doc[d].status,
                          ![q].todo = @ \ {d}]
  /\ UNCHANGED <<rows, app, result, stage, history>>

AfterAsking(q) ==
  IF req[q].to = None THEN Idle
  ELSE [req[q] EXCEPT !.step = "ask", !.doc = None, !.from = None]

(* ... inserts one, which fails when somebody was quicker ...              *)
AskInserts(q) ==
  LET d == req[q].doc
  IN  /\ At(q, "insert")
      /\ IF Exists(d)
         THEN UNCHANGED <<doc, asked>> /\ Finish(q)
         ELSE /\ doc' = [doc EXCEPT ![d] =
                   [status |-> "NOT_STARTED", live |-> TRUE, ruled |-> FALSE]]
              /\ asked' = asked \cup {d}
              /\ req' = [req EXCEPT ![q] = AfterAsking(q)]
      /\ UNCHANGED <<matched, app, result, stage, earned>>

(* ... or restores it, and puts a paper that had been settled back on the  *)
(* client's list.                                                          *)
AskRestores(q) ==
  LET d == req[q].doc
  IN  /\ At(q, "restore")
      /\ doc' = [doc EXCEPT ![d].live = TRUE]
      /\ asked' = IF doc[d].status = "NOT_STARTED" THEN asked \cup {d} ELSE asked
      /\ req' = [req EXCEPT ![q] =
           IF req[q].from \in SETTLED_STATUSES
           THEN [req[q] EXCEPT !.step = "apply", !.plan = <<"RESUBMIT_REQUIRED">>]
           ELSE AfterAsking(q)]
      /\ UNCHANGED <<matched, app, result, stage, earned>>

(* Staff add a paper to the checklist by hand ...                          *)
AddByHand(q, d) ==
  /\ req[q] = Idle
  /\ req' = [req EXCEPT ![q] = [Idle EXCEPT !.step = "ask", !.todo = {d}]]
  /\ UNCHANGED <<rows, app, result, stage, history>>

(* ... or take one off it.                                                 *)
Remove(d) ==
  /\ doc[d].live
  /\ doc' = [doc EXCEPT ![d].live = FALSE]
  /\ asked' = asked \ {d}
  /\ UNCHANGED <<matched, app, result, stage, req, earned>>

(* upsertConditions saves the answers; the same answers again are staff    *)
(* pressing the button that rebuilds the list.                             *)
Answer(q, answers) ==
  /\ req[q] = Idle
  /\ matched' = answers
  /\ req' = [req EXCEPT ![q] = [Idle EXCEPT !.step = "resolve"]]
  /\ UNCHANGED <<doc, app, result, stage, history>>

(* What resolveForCase takes off the list: what no rule asks for any more, *)
(* unless staff asked for it or the client has worked on it.               *)
Removable ==
  {d \in Docs \ matched :
     doc[d].live /\ doc[d].ruled /\ doc[d].status = "NOT_STARTED"}

ResolveReads(q) ==
  /\ At(q, "resolve")
  /\ req' = [req EXCEPT ![q] =
       [Idle EXCEPT !.step = "relist",
                    !.adds  = {d \in matched : ~ Exists(d)},
                    !.todo  = {d \in matched : Exists(d)},
                    !.drops = Removable]]
  /\ UNCHANGED <<rows, app, result, stage, history>>

(* One transaction; a row somebody else added meanwhile rolls it back.     *)
ResolveWrites(q) ==
  LET r == req[q]
  IN  /\ At(q, "relist")
      /\ doc' = IF \E d \in r.adds : Exists(d) THEN doc
                ELSE [d \in Docs |->
                   IF d \in r.adds
                   THEN [status |-> "NOT_STARTED", live |-> TRUE, ruled |-> TRUE]
                   ELSE IF d \in r.todo
                   THEN [doc[d] EXCEPT !.live = TRUE, !.ruled = TRUE]
                   ELSE IF d \in r.drops
                   THEN [doc[d] EXCEPT !.live = FALSE]
                   ELSE doc[d]]
      /\ Finish(q)
      /\ UNCHANGED <<matched, app, result, stage, history>>

-----------------------------------------------------------------------------
(* The application.                                                        *)

(* missingRequired: papers on the list that are not settled; the gate      *)
(* wants at least one, and none of those.                                  *)
OnList  == {d \in Docs : doc[d].live}
Missing == {d \in OnList : doc[d].status \notin SETTLED_STATUSES}
IsReady == OnList # {} /\ Missing = {}

Goto(q, step) == req' = [req EXCEPT ![q].step = step]

CreateApplication(q) ==
  /\ req[q] = Idle
  /\ app = None
  /\ app' = "PREPARING"
  /\ UNCHANGED <<rows, result, stage, req, history>>

(* transition(), which leaves the decisions to recordResult, and           *)
(* scheduleInterview(), which may also change the hour of an interview.    *)
TransitionReads(q, to) ==
  /\ req[q] = Idle
  /\ to \notin DECISION_STATUSES
  /\ \/ <<app, to>> \in APPLICATION_TRANSITIONS
     \/ app = to /\ to = "INTERVIEW_SCHEDULED"
  /\ req' = [req EXCEPT ![q] =
       [Idle EXCEPT !.step = IF to = "READY" THEN "gate" ELSE "write",
                    !.to = to]]
  /\ UNCHANGED <<rows, app, result, stage, history>>

Gate(q) ==
  /\ At(q, "gate")
  /\ IF IsReady THEN Goto(q, "write") ELSE Finish(q)
  /\ UNCHANGED <<rows, app, result, stage, history>>

TransitionWrites(q) ==
  /\ At(q, "write")
  /\ app' = req[q].to
  /\ IF req[q].to = "SUBMITTED"
     THEN req' = [req EXCEPT ![q].step = "list",
                             ![q].target = "APPLICATION_SUBMITTED"]
     ELSE Finish(q)
  /\ UNCHANGED <<rows, result, stage, history>>

(* markDocumentsSent: the papers that are ready, then each of them.  One   *)
(* that was moved meanwhile ends the handler, and the case is not told.    *)
ListReady(q) ==
  /\ At(q, "list")
  /\ req' = [req EXCEPT ![q].step = "send",
                        ![q].todo = {d \in OnList : doc[d].status = "READY"}]
  /\ UNCHANGED <<rows, app, result, stage, history>>

SendPaper(q) ==
  /\ At(q, "send")
  /\ \E d \in req[q].todo :
       IF doc[d].status = "READY"
       THEN /\ doc' = [doc EXCEPT ![d].status = "SENT_TO_UNIVERSITY"]
            /\ req' = [req EXCEPT ![q].todo = @ \ {d}]
       ELSE UNCHANGED doc /\ Finish(q)
  /\ UNCHANGED <<matched, app, result, stage, history>>

AllSent(q) ==
  /\ At(q, "send") /\ req[q].todo = {}
  /\ Goto(q, "look")
  /\ UNCHANGED <<rows, app, result, stage, history>>

(* requestAdditionalDocs: createManual for each paper named, then the      *)
(* status.                                                                 *)
RequestReads(q, docs) ==
  /\ req[q] = Idle
  /\ docs # {}
  /\ \/ app = "ADDITIONAL_DOCS_REQUESTED"
     \/ <<app, "ADDITIONAL_DOCS_REQUESTED">> \in APPLICATION_TRANSITIONS
  /\ req' = [req EXCEPT ![q] =
       [Idle EXCEPT !.step = "ask", !.todo = docs,
                    !.to = "ADDITIONAL_DOCS_REQUESTED"]]
  /\ UNCHANGED <<rows, app, result, stage, history>>

RequestWrites(q) ==
  /\ At(q, "ask") /\ req[q].todo = {}
  /\ app' = req[q].to
  /\ Finish(q)
  /\ UNCHANGED <<rows, result, stage, history>>

(* statusFor, caseStageFor *)
isGks == Service = "GKS_SCHOLARSHIP"

StatusFor(decision, round) ==
  IF decision = "FAILED" THEN "REJECTED"
  ELSE IF decision = "DEFERRED" THEN "DEFERRED"
  ELSE IF isGks /\ round = 1 THEN "UNDER_REVIEW" ELSE "ACCEPTED"

CaseStageFor(decision, round) ==
  IF decision = "FAILED" THEN "ON_HOLD"
  ELSE IF decision # "PASSED" THEN None
  ELSE IF ~ isGks THEN "ADMITTED"
  ELSE IF round = 1 THEN "GKS_ROUND1_PASSED" ELSE "GKS_ROUND2_PASSED"

(* recordResult up to its first write.                                     *)
ResultReads(q, round, decision) ==
  /\ req[q] = Idle
  /\ app # None
  /\ isGks \/ round = 1
  /\ app \in DECIDABLE_STATUSES \/ result[round] # None
  /\ round = 2 => result[1] = "PASSED"
  /\ round = 1 => result[2] = None
  /\ req' = [req EXCEPT ![q] =
       [Idle EXCEPT !.step = "record", !.round = round, !.decision = decision]]
  /\ UNCHANGED <<rows, app, result, stage, history>>

ResultRecords(q) ==
  /\ At(q, "record")
  /\ result' = [result EXCEPT ![req[q].round] = req[q].decision]
  /\ Goto(q, "decide")
  /\ UNCHANGED <<rows, app, stage, history>>

Decide(q) ==
  LET target == CaseStageFor(req[q].decision, req[q].round)
  IN  /\ At(q, "decide")
      /\ app' = StatusFor(req[q].decision, req[q].round)
      /\ req' = [req EXCEPT ![q] =
           IF target = None THEN Idle
           ELSE [Idle EXCEPT !.step = "look", !.target = target]]
      /\ UNCHANGED <<rows, result, stage, history>>

(* applyDomainTransition: reads the stage, and moves it if it may and      *)
(* nobody has meanwhile.                                                   *)
Reachable(from, to) == Edge(Service, from, to) \/ Ahead(Service, from, to)

CaseReads(q) ==
  /\ At(q, "look")
  /\ IF stage # req[q].target /\ Reachable(stage, req[q].target)
     THEN req' = [req EXCEPT ![q].step = "move", ![q].seen = stage]
     ELSE Finish(q)
  /\ UNCHANGED <<rows, app, result, stage, history>>

CaseMoves(q) ==
  /\ At(q, "move")
  /\ stage' = IF stage = req[q].seen THEN req[q].target ELSE stage
  /\ Finish(q)
  /\ UNCHANGED <<rows, app, result, history>>

(* Staff pause the case or end it; what else moves it is CaseLifecycle's.  *)
StaffMove(to) ==
  /\ StaffEdge(Service, stage, to)
  /\ stage' = to
  /\ UNCHANGED <<rows, app, result, req, history>>

-----------------------------------------------------------------------------
OfPapers(q) ==
  \/ \E d \in Docs :
       \/ \E to \in DocumentStatus : MoveReads(q, d, to)
       \/ \E action \in ReviewAction : ReviewReads(q, d, action)
  \/ ApplyStatus(q) \/ AskReads(q) \/ AskInserts(q) \/ AskRestores(q)

OfChecklist(q) ==
  \/ \E d \in Docs : AddByHand(q, d)
  \/ \E answers \in SUBSET Docs : Answer(q, answers)
  \/ ResolveReads(q) \/ ResolveWrites(q)

OfApplication(q) ==
  \/ \E to \in ApplicationStatus : TransitionReads(q, to)
  \/ \E docs \in SUBSET Docs : RequestReads(q, docs)
  \/ \E round \in Rounds, decision \in ApplicationDecision :
       ResultReads(q, round, decision)
  \/ CreateApplication(q) \/ Gate(q) \/ TransitionWrites(q) \/ ListReady(q)
  \/ SendPaper(q) \/ AllSent(q) \/ RequestWrites(q) \/ ResultRecords(q)
  \/ Decide(q) \/ CaseReads(q) \/ CaseMoves(q)

Next ==
  \/ \E q \in Requests : OfPapers(q)
  \/ \E q \in Requests \ {Officer} : OfChecklist(q)
  \/ OfApplication(Officer)
  \/ \E d \in Docs : Remove(d)
  \/ \E to \in Moves : StaffMove(to)

Spec == Init /\ [][Next]_vars

-----------------------------------------------------------------------------
Steps ==
  {"idle", "apply", "ask", "insert", "restore", "resolve", "relist", "gate",
   "write", "list", "send", "record", "decide", "look", "move"}

(* Types; a row that was never made says nothing, and only rows that are   *)
(* there are walked anywhere.                                              *)
TypeOK ==
  /\ doc \in [Docs -> [status : DocumentStatus \cup {None},
                       live : BOOLEAN, ruled : BOOLEAN]]
  /\ \A d \in Docs : ~ Exists(d) => doc[d] = NoRow /\ earned[d] = NewIn
  /\ matched \subseteq Docs
  /\ app \in ApplicationStatus \cup {None}
  /\ result \in [Rounds -> ApplicationDecision \cup {None}]
  /\ stage \in MainLine(Service) \cup ESCAPE_STAGES
  /\ \A q \in Requests :
       /\ req[q].step \in Steps
       /\ At(q, "apply") => Exists(req[q].doc) /\ req[q].plan # <<>>
       /\ req[q].todo \cup req[q].adds \cup req[q].drops \subseteq Docs
  /\ earned \in [Docs ->
       SUBSET {"ACCEPT", "REQUEST_FIX", "ACCEPTED", "TRANSLATED"}]
  /\ asked \subseteq Docs

(* A paper that counts as collected was accepted since it was last handed  *)
(* in, and one that needs it was translated before it is ready for the     *)
(* school, whoever looked at which version of its status.                  *)
SettledIsEarned ==
  \A d \in Docs :
    /\ doc[d].status \in SETTLED_STATUSES => "ACCEPTED" \in earned[d]
    /\ /\ doc[d].status \in {"CERTIFIED", "READY", "SENT_TO_UNIVERSITY"}
       /\ d \in NeedsTranslation
       => "TRANSLATED" \in earned[d]

(* "Two officers opening the same submission both used to succeed, and the *)
(* client was told the paper was accepted and needed fixing": of one       *)
(* submission the client is told one or the other.                         *)
OneVerdict == \A d \in Docs : ~ {"ACCEPT", "REQUEST_FIX"} \subseteq earned[d]

(* "Round 2 was decided on top of round 1": corrected in any order, the    *)
(* pair never contradicts each other.                                      *)
RoundsAgree == result[2] # None => result[1] = "PASSED"

(* What was decided last, and on which round.                              *)
Concluded == IF result[2] # None THEN 2 ELSE 1

(* Between two handlers of the officer, an application stands where the    *)
(* decision that concluded it says: accepted on a pass, rejected on a      *)
(* failure, under no correction left behind.                               *)
StatusFollowsResult ==
  At(Officer, "idle") =>
    /\ app = "ACCEPTED" <=> result[IF isGks THEN 2 ELSE 1] = "PASSED"
    /\ app = "REJECTED" <=> result[Concluded] = "FAILED"

(* "Leaving the application and the case telling different stories": a     *)
(* case whose application passed a round stands there or further on, one   *)
(* that failed stands nowhere on the line, unless staff paused or ended it *)
(* -- although papers moved while they were being sent keep the case from  *)
(* hearing of the submission.                                              *)
CaseTellsTheSameStory ==
  At(Officer, "idle") =>
    LET decision == result[Concluded]
        target   == CaseStageFor(decision, Concluded)
    IN  \/ stage \in ESCAPE_STAGES
        \/ decision \in ApplicationDecision \ {"PASSED", "FAILED"}
        \/ decision = None
        \/ decision = "PASSED"
           /\ (stage = target \/ Ahead(Service, target, stage))

(* "The client re-answering their questionnaire must not delete a document *)
(* the school demanded": a paper staff or the school asked for stays on    *)
(* the list until the client works on it or staff take it off.  It does    *)
(* not, when the engine had listed it before.                              *)
DemandedStays == \A d \in asked : doc[d].live
=============================================================================
