-------------------------- MODULE Paperwork_proofs --------------------------
(***************************************************************************)
(* What holds of Paperwork for every set of handlers and of papers, and    *)
(* for each service.  The invariant has two halves.  The papers': what a   *)
(* status says was earned, and a handler about to write one walks an       *)
(* allowed path.  The application's, which one officer handles: what each  *)
(* of the officer's steps knows of the decisions, of the status they led   *)
(* to and of the stage the case stands at.                                 *)
(***************************************************************************)
EXTENDS Paperwork, TLAPS

(* The states of a handler.                                                *)
Targets ==
  {"APPLICATION_SUBMITTED", "ADMITTED", "GKS_ROUND1_PASSED",
   "GKS_ROUND2_PASSED", "ON_HOLD"}
Handler ==
  [step : Steps, doc : Docs \cup {None}, from : DocumentStatus \cup {None},
   plan : Seq(DocumentStatus), verdict : ReviewAction \cup {None},
   todo : SUBSET Docs, adds : SUBSET Docs, drops : SUBSET Docs,
   to : ApplicationStatus \cup {None}, round : Rounds,
   decision : ApplicationDecision \cup {None}, target : Targets \cup {None},
   seen : CaseStage \cup {None}]
PaperSteps == {"idle", "apply", "ask", "insert", "restore", "resolve", "relist"}

-----------------------------------------------------------------------------
(* The papers.                                                             *)

(* A walk takes allowed steps, all but the last of them on the way to a    *)
(* review's verdict ...                                                    *)
Path(from, plan, verdict) ==
  /\ plan # <<>>
  /\ <<from, plan[1]>> \in DOCUMENT_TRANSITIONS
  /\ \A i \in 1 .. Len(plan) - 1 :
       /\ plan[i] \in {"UNDER_REVIEW", "NEEDS_FIX"}
       /\ <<plan[i], plan[i + 1]>> \in DOCUMENT_TRANSITIONS
  /\ IF verdict = None THEN Len(plan) = 1
     ELSE plan[Len(plan)] = REVIEW_TARGET[verdict]

(* ... and leaves no translation out.                                      *)
Sound(r) ==
  /\ Path(r.from, r.plan, r.verdict)
  /\ ~ (r.doc \in NeedsTranslation /\ r.from = "ACCEPTED" /\ r.plan[1] = "READY")

(* What a handler relies on; only the officer's leave the papers.          *)
Relies(q) ==
  /\ q # Officer => req[q].step \in PaperSteps
  /\ req[q].step \in {"apply", "insert", "restore"} => req[q].doc \in Docs
  /\ req[q].step \in {"apply", "restore"} => Exists(req[q].doc)
  /\ req[q].step = "relist" => \A d \in req[q].todo \cup req[q].drops : Exists(d)
  /\ req[q].step = "apply" => Sound(req[q])
  /\ req[q].to # None => req[q].verdict = None
  /\ req[q].step # "apply" => req[q].verdict = None

(* What a status says of its paper.                                        *)
Earned(d) ==
  /\ doc[d].status \in SETTLED_STATUSES => "ACCEPTED" \in earned[d]
  /\ /\ doc[d].status \in {"TRANSLATED", "CERTIFIED", "READY", "SENT_TO_UNIVERSITY"}
     /\ d \in NeedsTranslation
     => "TRANSLATED" \in earned[d]
  /\ "ACCEPT" \in earned[d] => doc[d].status \in SETTLED_STATUSES
  /\ "REQUEST_FIX" \in earned[d] => doc[d].status = "NEEDS_FIX"

Row  == [status : DocumentStatus \cup {None}, live : BOOLEAN, ruled : BOOLEAN]
Word == {"ACCEPT", "REQUEST_FIX", "ACCEPTED", "TRANSLATED"}

PapersTyped ==
  /\ doc \in [Docs -> Row]
  /\ earned \in [Docs -> SUBSET Word]
  /\ matched \subseteq Docs /\ asked \subseteq Docs
  /\ req \in [Requests -> Handler]
  /\ \A d \in Docs : ~ Exists(d) => doc[d] = NoRow /\ earned[d] = NewIn

PapersInv ==
  /\ PapersTyped
  /\ \A q \in Requests : Relies(q)
  /\ \A d \in Docs : Earned(d)

-----------------------------------------------------------------------------
(* The application: no round has been decided, none can have been, and the *)
(* two properties as they hold at every step that does not break them.     *)
NoResult == result[1] = None /\ result[2] = None
Open     == app \in {None, "PREPARING", "READY"}

Follows ==
  /\ app = "ACCEPTED" <=> result[IF isGks THEN 2 ELSE 1] = "PASSED"
  /\ app = "REJECTED" <=> result[Concluded] = "FAILED"

Story ==
  LET decision == result[Concluded]
      target   == CaseStageFor(decision, Concluded)
  IN  \/ stage \in ESCAPE_STAGES
      \/ decision \in ApplicationDecision \ {"PASSED", "FAILED"}
      \/ decision = None
      \/ decision = "PASSED"
         /\ (stage = target \/ Ahead(Service, target, stage))

(* What the officer's handler knows at each of its steps.                  *)
Knows ==
  LET r == req[Officer]
  IN  /\ r.step # "decide" => Follows
      /\ r.step \notin {"decide", "look", "move"} => Story
      /\ r.to # None => {app, r.to} \cap DECISION_STATUSES = {} /\ app # None
      /\ r.to \in {"PREPARING", "READY", "SUBMITTED"} => NoResult
      /\ r.step \in {"gate", "write", "list", "send", "ask", "insert", "restore"} =>
           r.to # None
      /\ r.step \in {"list", "send"} =>
           NoResult /\ r.target = "APPLICATION_SUBMITTED"
      /\ r.step \in {"record", "decide"} =>
           /\ r.decision # None /\ r.to = None /\ ~ Open
           /\ ~ isGks => r.round = 1
           /\ r.round = 1 => result[2] = None
           /\ r.round = 2 => result[1] = "PASSED"
      /\ r.step = "decide" => result[r.round] = r.decision
      /\ r.step \in {"look", "move"} =>
           /\ r.target # None
           /\ NoResult \/ r.target = CaseStageFor(result[Concluded], Concluded)
      /\ r.step = "move" =>
           /\ Reachable(r.seen, r.target)
           /\ stage = r.seen \/ stage \in ESCAPE_STAGES

ApplicationInv ==
  /\ app \in ApplicationStatus \cup {None}
  /\ result \in [Rounds -> ApplicationDecision \cup {None}]
  /\ stage \in (MainLine(Service) \cup ESCAPE_STAGES) \ {"COMPLETED"}
  /\ result[2] # None => isGks
  /\ RoundsAgree
  /\ Open => NoResult
  /\ Knows

IInv == PapersInv /\ ApplicationInv

-----------------------------------------------------------------------------
(* The graph of a paper's statuses: what is settled stays settled until it *)
(* is asked for again, and where each settled status is reached from.      *)
LEMMA Paths ==
  ASSUME NEW a, NEW b, <<a, b>> \in DOCUMENT_TRANSITIONS
  PROVE  /\ a \in DocumentStatus /\ b \in DocumentStatus
         /\ a \in SETTLED_STATUSES => b \in SETTLED_STATUSES \cup {"RESUBMIT_REQUIRED"}
         /\ b \in SETTLED_STATUSES => a \in SETTLED_STATUSES \/ b = "ACCEPTED"
         /\ b = "READY" => a \in {"ACCEPTED", "TRANSLATED", "CERTIFIED"}
         /\ b = "CERTIFIED" => a = "TRANSLATED"
         /\ b = "SENT_TO_UNIVERSITY" => a = "READY"
         /\ a = "NEEDS_FIX" => b \in {"SUBMITTED", "RESUBMIT_REQUIRED"}
BY DEF DOCUMENT_TRANSITIONS, DocumentStatus, SETTLED_STATUSES, AWAITING_SUBMISSION

(* A paper is asked for again from every settled status.                   *)
LEMMA AskedAgain ==
  ASSUME NEW a \in SETTLED_STATUSES
  PROVE  <<a, "RESUBMIT_REQUIRED">> \in DOCUMENT_TRANSITIONS
BY DEF DOCUMENT_TRANSITIONS, SETTLED_STATUSES

(* A row that was never made has no status.                                *)
LEMMA NoneIsNoStatus == None \notin DocumentStatus
BY DEF None, DocumentStatus, SETTLED_STATUSES, AWAITING_SUBMISSION

(* A handler with nothing to do.                                           *)
LEMMA IdleIsAHandler == Idle \in Handler
BY DEF Idle, Handler, Steps, Rounds

(* A handler that begins a step with papers to go through is a handler.    *)
LEMMA BegunHandler ==
  ASSUME NEW h \in Handler, NEW s \in Steps, NEW T \in SUBSET Docs
  PROVE  [h EXCEPT !.step = s, !.todo = T] \in Handler
BY DEF Handler

(* So is one that holds the list it is about to write.                     *)
LEMMA ListedHandler ==
  ASSUME NEW h \in Handler, NEW A \in SUBSET Docs, NEW D \in SUBSET Docs
  PROVE  [h EXCEPT !.adds = A, !.drops = D] \in Handler
BY DEF Handler

(* So is one with a paper less to go through.                              *)
LEMMA ShorterHandler ==
  ASSUME NEW h \in Handler, NEW d \in Docs
  PROVE  [h EXCEPT !.todo = @ \ {d}] \in Handler
BY DEF Handler

(* A handler that goes back to asking.                                     *)
LEMMA AskingIsAHandler ==
  ASSUME NEW r \in Handler
  PROVE  /\ [r EXCEPT !.step = "ask", !.doc = None, !.from = None] \in Handler
         /\ [r EXCEPT !.step = "ask", !.doc = None, !.from = None,
                      !.plan = <<>>] \in Handler
<1>1. <<>> \in Seq(DocumentStatus)
  OBVIOUS
<1>2. [r EXCEPT !.step = "ask", !.doc = None, !.from = None] \in Handler
  BY DEF Handler, Steps
<1>3. [r EXCEPT !.step = "ask", !.doc = None, !.from = None, !.plan = <<>>] \in Handler
  BY <1>1 DEF Handler, Steps
<1> QED
  BY <1>2, <1>3

(* A handler that goes back to walking.                                    *)
LEMMA WalkingIsAHandler ==
  ASSUME NEW r \in Handler, NEW plan \in Seq(DocumentStatus)
  PROVE  [r EXCEPT !.step = "apply", !.plan = plan] \in Handler
BY DEF Handler, Steps

(* A handler that goes on with the application.                            *)
LEMMA GoingOnIsAHandler ==
  ASSUME NEW r \in Handler, NEW step \in Steps
  PROVE  /\ [r EXCEPT !.step = step] \in Handler
         /\ \A todo \in SUBSET Docs : [r EXCEPT !.step = step, !.todo = todo] \in Handler
         /\ \A target \in Targets : [r EXCEPT !.step = step, !.target = target] \in Handler
         /\ \A seen \in CaseStage : [r EXCEPT !.step = step, !.seen = seen] \in Handler
<1>1. [r EXCEPT !.step = step] \in Handler
  BY DEF Handler
<1>2. ASSUME NEW todo \in SUBSET Docs
      PROVE  [r EXCEPT !.step = step, !.todo = todo] \in Handler
  BY DEF Handler
<1>3. ASSUME NEW target \in Targets
      PROVE  [r EXCEPT !.step = step, !.target = target] \in Handler
  BY DEF Handler
<1>4. ASSUME NEW seen \in CaseStage
      PROVE  [r EXCEPT !.step = step, !.seen = seen] \in Handler
  BY DEF Handler
<1> QED
  BY <1>1, <1>2, <1>3, <1>4

(* A step that writes only a handler's own state.                          *)
LEMMA OwnStateKeepsPapers ==
  ASSUME PapersInv, NEW q \in Requests, UNCHANGED <<doc, earned, asked>>,
         matched' \subseteq Docs,
         req' = [req EXCEPT ![q] = req'[q]], req'[q] \in Handler, Relies(q)'
  PROVE  PapersInv'
<1>1. req \in [Requests -> Handler]
  BY DEF PapersInv, PapersTyped
<1>2. PapersTyped'
  BY <1>1 DEF PapersInv, PapersTyped, Exists
<1>3. \A p \in Requests \ {q} : Relies(p)'
  <2> SUFFICES ASSUME NEW p \in Requests \ {q}
               PROVE  Relies(p)'
    OBVIOUS
  <2>1. req'[p] = req[p] /\ Relies(p)
    BY <1>1 DEF PapersInv
  <2> QED
    BY <2>1 DEF Relies, Exists
<1>4. \A d \in Docs : Earned(d)'
  BY DEF PapersInv, Earned
<1> QED
  BY <1>2, <1>3, <1>4 DEF PapersInv

(* A handler that ends relies on nothing.                                  *)
LEMMA EndingKeepsPapers ==
  ASSUME PapersInv, NEW q \in Requests, UNCHANGED <<rows, history>>, Finish(q)
  PROVE  PapersInv'
<1>1. req \in [Requests -> Handler] /\ matched \subseteq Docs
  BY DEF PapersInv, PapersTyped
<1>2. req'[q] = Idle /\ req' = [req EXCEPT ![q] = req'[q]]
  BY <1>1 DEF Finish
<1>3. Relies(q)'
  BY <1>2 DEF Relies, Idle, PaperSteps
<1> QED
  BY <1>1, <1>2, <1>3, IdleIsAHandler, OwnStateKeepsPapers DEF rows, history

(* What a fresh walk looks like: a plain move, and each of the reviews.    *)
LEMMA WalkIsSound ==
  ASSUME PapersInv, NEW q \in Requests, NEW d \in Docs, req[q] = Idle,
         NEW plan \in Seq(DocumentStatus), NEW verdict \in ReviewAction \cup {None},
         Exists(d), Walk(q, d, plan, verdict), UNCHANGED <<rows, history>>,
         Sound([Idle EXCEPT !.step = "apply", !.doc = d, !.from = doc[d].status,
                            !.plan = plan, !.verdict = verdict])
  PROVE  PapersInv'
<1> DEFINE r == [Idle EXCEPT !.step = "apply", !.doc = d, !.from = doc[d].status,
                             !.plan = plan, !.verdict = verdict]
<1>1. req \in [Requests -> Handler] /\ matched \subseteq Docs /\ doc[d].status \in DocumentStatus
  BY DEF PapersInv, PapersTyped, Row, Exists
<1>2. r \in Handler
  BY <1>1, IdleIsAHandler DEF Handler, Steps, Idle
<1>3. req'[q] = r /\ req' = [req EXCEPT ![q] = req'[q]]
  BY <1>1 DEF Walk
<1>4. /\ r.step = "apply" /\ r.doc = d /\ r.to = None
  BY DEF Idle
<1>5. Relies(q)'
  BY <1>3, <1>4 DEF Relies, PaperSteps, rows, Exists
<1> QED
  BY <1>1, <1>2, <1>3, <1>5, OwnStateKeepsPapers DEF rows, history

(* A plain move begins an allowed walk of one step.                        *)
LEMMA MoveReadsKeepsPapers ==
  ASSUME PapersInv, NEW q \in Requests, NEW d \in Docs, NEW to \in DocumentStatus,
         MoveReads(q, d, to)
  PROVE  PapersInv'
<1>1. Exists(d)
  BY DEF MoveReads, PapersInv, PapersTyped, NoRow
<1>2. <<to>> \in Seq(DocumentStatus) /\ <<to>>[1] = to /\ Len(<<to>>) = 1 /\ <<to>> # <<>>
  OBVIOUS
<1>3. Sound([Idle EXCEPT !.step = "apply", !.doc = d, !.from = doc[d].status,
                         !.plan = <<to>>, !.verdict = None])
  BY <1>2 DEF Sound, Path, MoveReads, Idle
<1> QED
  BY <1>1, <1>2, <1>3, WalkIsSound DEF MoveReads

(* A sequence that is not empty has one element or more.                   *)
LEMMA Lengths ==
  ASSUME NEW S, NEW s \in Seq(S), s # <<>>
  PROVE  Len(s) \in Nat /\ (Len(s) = 1 \/ Len(s) > 1) /\ Head(s) = s[1]
<1>1. Len(s) \in Nat /\ Len(s) > 0 /\ Head(s) = s[1]
  OBVIOUS
<1>2. \A n \in Nat : n > 0 => n = 1 \/ n > 1
  OBVIOUS
<1> QED
  BY <1>1, <1>2

(* What is left of a sequence of more than one.                            *)
LEMMA Tails ==
  ASSUME NEW S, NEW s \in Seq(S), Len(s) > 1
  PROVE  /\ Tail(s) \in Seq(S) /\ Tail(s) # <<>> /\ Len(Tail(s)) = Len(s) - 1
         /\ \A i \in 1 .. Len(s) - 1 : Tail(s)[i] = s[i + 1]
<1>1. /\ Tail(s) \in Seq(S) /\ Len(Tail(s)) = Len(s) - 1
      /\ \A i \in 1 .. Len(s) - 1 : Tail(s)[i] = s[i + 1]
  OBVIOUS
<1>2. \A n \in Nat : n > 1 => n - 1 # 0
  OBVIOUS
<1>3. Len(s) \in Nat /\ Len(<<>>) = 0
  OBVIOUS
<1> QED
  BY <1>1, <1>2, <1>3

(* What comes before a path is the start of a longer one.                  *)
LEMMA LongerPath ==
  ASSUME NEW from, NEW first \in {"UNDER_REVIEW", "NEEDS_FIX"},
         NEW plan \in Seq(DocumentStatus), NEW verdict \in ReviewAction,
         <<from, first>> \in DOCUMENT_TRANSITIONS, Path(first, plan, verdict)
  PROVE  <<first>> \o plan \in Seq(DocumentStatus) /\ Path(from, <<first>> \o plan, verdict)
<1> DEFINE longer == <<first>> \o plan
<1>1. first \in DocumentStatus
  BY DEF DocumentStatus, AWAITING_SUBMISSION
<1>2. /\ longer \in Seq(DocumentStatus) /\ longer[1] = first
      /\ Len(longer) = Len(plan) + 1 /\ Len(plan) \in Nat
      /\ \A i \in 2 .. Len(longer) : longer[i] = plan[i - 1]
  BY <1>1
<1>3. Len(plan) > 0 /\ verdict # None /\ longer # <<>>
  BY <1>2 DEF Path, ReviewAction, None
<1>4. \A i \in 1 .. Len(longer) - 1 :
        /\ longer[i] \in {"UNDER_REVIEW", "NEEDS_FIX"}
        /\ <<longer[i], longer[i + 1]>> \in DOCUMENT_TRANSITIONS
  <2> SUFFICES ASSUME NEW i \in 1 .. Len(longer) - 1
               PROVE  /\ longer[i] \in {"UNDER_REVIEW", "NEEDS_FIX"}
                      /\ <<longer[i], longer[i + 1]>> \in DOCUMENT_TRANSITIONS
    OBVIOUS
  <2>1. CASE i = 1
    <3>1. longer[1] = first /\ longer[2] = plan[1]
      BY <1>2, <1>3
    <3> QED
      BY <2>1, <3>1 DEF Path
  <2>2. CASE i # 1
    <3>1. /\ longer[i] = plan[i - 1] /\ longer[i + 1] = plan[i]
          /\ i - 1 \in 1 .. Len(plan) - 1
      BY <1>2, <2>2
    <3> QED
      BY <3>1 DEF Path
  <2> QED
    BY <2>1, <2>2
<1>5. longer[Len(longer)] = plan[Len(plan)]
  BY <1>2, <1>3
<1> HIDE DEF longer
<1>6. Path(from, longer, verdict)
  BY <1>2, <1>3, <1>4, <1>5 DEF Path
<1> QED
  BY <1>2, <1>6 DEF longer

(* A review's plan is a path to its verdict, if its first step is allowed. *)
LEMMA ReviewPlanIsAPath ==
  ASSUME NEW status \in DocumentStatus, NEW action \in ReviewAction,
         <<status, ReviewPlan(status, action)[1]>> \in DOCUMENT_TRANSITIONS
  PROVE  /\ ReviewPlan(status, action) \in Seq(DocumentStatus)
         /\ Path(status, ReviewPlan(status, action), action)
<1> DEFINE target  == REVIEW_TARGET[action]
           single  == <<target>>
           verdict == IF action = "RETURN" THEN <<"NEEDS_FIX", target>> ELSE single
<1>1. /\ target \in DocumentStatus /\ action # None
      /\ action # "RETURN" => <<"UNDER_REVIEW", target>> \in DOCUMENT_TRANSITIONS
      /\ action = "RETURN" => <<"NEEDS_FIX", target>> \in DOCUMENT_TRANSITIONS
  BY DEF REVIEW_TARGET, ReviewAction, DocumentStatus, AWAITING_SUBMISSION,
         SETTLED_STATUSES, DOCUMENT_TRANSITIONS, None
<1>2. single \in Seq(DocumentStatus) /\ single[1] = target /\ Len(single) = 1 /\ single # <<>>
  BY <1>1
<1>3. \A from : <<from, target>> \in DOCUMENT_TRANSITIONS => Path(from, single, action)
  BY <1>1, <1>2 DEF Path
<1>4. /\ <<"UNDER_REVIEW", "NEEDS_FIX">> \in DOCUMENT_TRANSITIONS
      /\ <<"SUBMITTED", "UNDER_REVIEW">> \in DOCUMENT_TRANSITIONS
  BY DEF DOCUMENT_TRANSITIONS
<1>5. verdict \in Seq(DocumentStatus) /\ Path("UNDER_REVIEW", verdict, action)
  <2>1. CASE action = "RETURN"
    <3>1. /\ verdict \in Seq(DocumentStatus) /\ Len(verdict) = 2 /\ verdict # <<>>
          /\ verdict[1] = "NEEDS_FIX" /\ verdict[2] = target
      BY <1>1, <2>1 DEF DocumentStatus, AWAITING_SUBMISSION
    <3> QED
      BY <1>1, <1>4, <2>1, <3>1 DEF Path
  <2>2. CASE action # "RETURN"
    BY <1>1, <1>2, <1>3, <2>2
  <2> QED
    BY <2>1, <2>2
<1>6. CASE status = "SUBMITTED"
  <2>1. ReviewPlan(status, action) = <<"UNDER_REVIEW">> \o verdict
    BY <1>6 DEF ReviewPlan
  <2> QED
    BY <1>4, <1>5, <1>6, <2>1, LongerPath
<1>7. CASE status = "UNDER_REVIEW"
  <2>1. ReviewPlan(status, action) = verdict
    BY <1>7 DEF ReviewPlan
  <2> QED
    BY <1>5, <1>7, <2>1
<1>8. CASE status \notin {"SUBMITTED", "UNDER_REVIEW"}
  <2>1. ReviewPlan(status, action) = single
    BY <1>8 DEF ReviewPlan
  <2> QED
    BY <1>2, <1>3, <2>1
<1> QED
  BY <1>6, <1>7, <1>8

(* A review begins a walk, which ends in no status a translation can miss. *)
LEMMA ReviewReadsKeepsPapers ==
  ASSUME PapersInv, NEW q \in Requests, NEW d \in Docs, NEW action \in ReviewAction,
         ReviewReads(q, d, action)
  PROVE  PapersInv'
<1> DEFINE plan == ReviewPlan(doc[d].status, action)
<1>1. Exists(d) /\ doc[d].status \in DocumentStatus
  BY DEF ReviewReads, PapersInv, PapersTyped, NoRow, Row, Exists
<1>2. plan \in Seq(DocumentStatus) /\ Path(doc[d].status, plan, action)
  BY <1>1, ReviewPlanIsAPath DEF ReviewReads
<1>3. action # None /\ REVIEW_TARGET[action] # "READY"
  BY DEF ReviewAction, None, REVIEW_TARGET
<1> HIDE DEF plan
<1>4. plan[1] # "READY"
  <2>1. CASE Len(plan) = 1
    BY <1>2, <1>3, <2>1 DEF Path
  <2>2. CASE Len(plan) > 1
    <3>1. 1 \in 1 .. Len(plan) - 1
      BY <1>2, <2>2
    <3> QED
      BY <1>2, <3>1 DEF Path
  <2>3. plan # <<>>
    BY <1>2 DEF Path
  <2> QED
    BY <1>2, <2>1, <2>2, <2>3, Lengths
<1>5. Sound([Idle EXCEPT !.step = "apply", !.doc = d, !.from = doc[d].status,
                         !.plan = plan, !.verdict = action])
  BY <1>2, <1>4 DEF Sound, Idle
<1> QED
  BY <1>1, <1>2, <1>5, WalkIsSound DEF ReviewReads, plan

(* What is said of a paper by a sound step is true of its new status.      *)
LEMMA SaidIsEarned ==
  ASSUME PapersInv, NEW d \in Docs, NEW to, NEW verdict \in ReviewAction \cup {None},
         <<doc[d].status, to>> \in DOCUMENT_TRANSITIONS,
         ~ (d \in NeedsTranslation /\ doc[d].status = "ACCEPTED" /\ to = "READY"),
         verdict # None => to = REVIEW_TARGET[verdict],
         doc' = [doc EXCEPT ![d].status = to], Said(d, to, verdict)
  PROVE  /\ \A e \in Docs : Earned(e)'
         /\ earned' \in [Docs -> SUBSET Word] /\ asked' \subseteq Docs
         /\ doc' \in [Docs -> Row]
         /\ \A e \in Docs : Exists(e)' = Exists(e)
         /\ \A e \in Docs : ~ Exists(e)' => doc'[e] = NoRow /\ earned'[e] = NewIn
<1>1. /\ doc \in [Docs -> Row] /\ earned \in [Docs -> SUBSET Word] /\ asked \subseteq Docs
      /\ Earned(d)
  BY DEF PapersInv, PapersTyped
<1>2. to \in DocumentStatus /\ to # None /\ Exists(d)
  BY Paths, NoneIsNoStatus DEF Exists
<1>3. \A e \in Docs \ {d} : doc'[e] = doc[e] /\ earned'[e] = earned[e]
  BY <1>1 DEF Said
<1>4. doc' \in [Docs -> Row] /\ doc'[d].status = to
  BY <1>1, <1>2 DEF Row
<1>5. earned'[d] = IF to \in {"SUBMITTED", "RESUBMIT_REQUIRED"} THEN {}
                   ELSE (earned[d] \cup ({to} \cap {"ACCEPTED", "TRANSLATED"}))
                          \cup ({verdict} \ {None})
  BY <1>1 DEF Said, NewIn
<1>6. earned'[d] \subseteq Word
  <2>1. verdict = "RETURN" => to = "RESUBMIT_REQUIRED"
    BY DEF REVIEW_TARGET, ReviewAction, None
  <2> QED
    BY <1>1, <1>5, <2>1 DEF Word, ReviewAction
<1>7. earned' \in [Docs -> SUBSET Word] /\ asked' \subseteq Docs
  BY <1>1, <1>6 DEF Said
<1>8. Earned(d)'
  <2>1. CASE to \in {"SUBMITTED", "RESUBMIT_REQUIRED"}
    BY <1>4, <1>5, <2>1 DEF Earned, SETTLED_STATUSES
  <2>2. CASE to \notin {"SUBMITTED", "RESUBMIT_REQUIRED"}
    <3>1. /\ verdict = "ACCEPT" => to = "ACCEPTED"
          /\ verdict = "REQUEST_FIX" => to = "NEEDS_FIX"
      BY DEF REVIEW_TARGET, ReviewAction, None
    <3>2. /\ "ACCEPT" \in earned'[d] => "ACCEPT" \in earned[d] \/ verdict = "ACCEPT"
          /\ "REQUEST_FIX" \in earned'[d] =>
               "REQUEST_FIX" \in earned[d] \/ verdict = "REQUEST_FIX"
          /\ earned[d] \subseteq earned'[d]
          /\ to \in {"ACCEPTED", "TRANSLATED"} => to \in earned'[d]
      BY <1>5, <2>2
    <3>3. /\ doc[d].status \in SETTLED_STATUSES => to \in SETTLED_STATUSES
          /\ to \in SETTLED_STATUSES => doc[d].status \in SETTLED_STATUSES \/ to = "ACCEPTED"
          /\ to = "READY" => doc[d].status \in {"ACCEPTED", "TRANSLATED", "CERTIFIED"}
          /\ to = "CERTIFIED" => doc[d].status = "TRANSLATED"
          /\ to = "SENT_TO_UNIVERSITY" => doc[d].status = "READY"
          /\ doc[d].status # "NEEDS_FIX"
      BY <2>2, Paths
    <3>4. "ACCEPTED" \in SETTLED_STATUSES
      BY DEF SETTLED_STATUSES
    <3> QED
      BY <1>1, <1>4, <3>1, <3>2, <3>3, <3>4 DEF Earned
  <2> QED
    BY <2>1, <2>2
<1>9. \A e \in Docs \ {d} : Earned(e)'
  BY <1>3 DEF Earned, PapersInv
<1>10. \A e \in Docs : Exists(e)' = Exists(e)
  BY <1>2, <1>3, <1>4 DEF Exists
<1>11. \A e \in Docs : ~ Exists(e)' => doc'[e] = NoRow /\ earned'[e] = NewIn
  BY <1>2, <1>3, <1>10 DEF PapersInv, PapersTyped
<1> QED
  BY <1>4, <1>7, <1>8, <1>9, <1>10, <1>11

(* Once a first step is taken, the rest of a path is one from there.       *)
LEMMA RestOfPath ==
  ASSUME NEW from, NEW plan \in Seq(DocumentStatus), NEW verdict \in ReviewAction \cup {None},
         Path(from, plan, verdict), Len(plan) > 1
  PROVE  Tail(plan) \in Seq(DocumentStatus) /\ Path(plan[1], Tail(plan), verdict)
<1>1. Len(plan) \in Nat /\ verdict # None
  BY DEF Path
<1>2. /\ Tail(plan) \in Seq(DocumentStatus) /\ Len(Tail(plan)) = Len(plan) - 1
      /\ \A i \in 1 .. Len(plan) - 1 : Tail(plan)[i] = plan[i + 1]
      /\ Tail(plan) # <<>>
  BY Tails
<1> DEFINE rest == Tail(plan)
<1> HIDE DEF rest
<1>3. \A i \in 1 .. Len(rest) - 1 :
        /\ rest[i] \in {"UNDER_REVIEW", "NEEDS_FIX"}
        /\ <<rest[i], rest[i + 1]>> \in DOCUMENT_TRANSITIONS
  <2> SUFFICES ASSUME NEW i \in 1 .. Len(rest) - 1
               PROVE  /\ rest[i] \in {"UNDER_REVIEW", "NEEDS_FIX"}
                      /\ <<rest[i], rest[i + 1]>> \in DOCUMENT_TRANSITIONS
    OBVIOUS
  <2>1. rest[i] = plan[i + 1] /\ rest[i + 1] = plan[i + 1 + 1] /\ i + 1 \in 1 .. Len(plan) - 1
    BY <1>1, <1>2 DEF rest
  <2> QED
    BY <2>1 DEF Path
<1>4. <<plan[1], rest[1]>> \in DOCUMENT_TRANSITIONS
  <2>1. rest[1] = plan[1 + 1] /\ 1 \in 1 .. Len(plan) - 1
    BY <1>1, <1>2 DEF rest
  <2> QED
    BY <2>1 DEF Path
<1>5. rest[Len(rest)] = plan[Len(plan)]
  BY <1>1, <1>2 DEF rest
<1>6. Path(plan[1], rest, verdict)
  BY <1>1, <1>2, <1>3, <1>4, <1>5 DEF Path, rest
<1> QED
  BY <1>2, <1>6 DEF rest

(* A step that changes a paper as SaidIsEarned describes, and leaves the   *)
(* handler sound.                                                          *)
LEMMA RowsKeepPapers ==
  ASSUME PapersInv, NEW q \in Requests,
         \A e \in Docs : Earned(e)', earned' \in [Docs -> SUBSET Word],
         asked' \subseteq Docs, matched' \subseteq Docs, doc' \in [Docs -> Row],
         \A e \in Docs : Exists(e) => Exists(e)',
         \A e \in Docs : ~ Exists(e)' => doc'[e] = NoRow /\ earned'[e] = NewIn,
         req' = [req EXCEPT ![q] = req'[q]], req'[q] \in Handler, Relies(q)'
  PROVE  PapersInv'
<1>1. req \in [Requests -> Handler] /\ \A p \in Requests : Relies(p)
  BY DEF PapersInv, PapersTyped
<1>2. PapersTyped'
  BY <1>1 DEF PapersTyped
<1>3. \A p \in Requests \ {q} : Relies(p)'
  <2> SUFFICES ASSUME NEW p \in Requests \ {q}
               PROVE  Relies(p)'
    OBVIOUS
  <2>1. /\ req'[p] = req[p] /\ Relies(p)
        /\ req[p].todo \cup req[p].drops \subseteq Docs
    BY <1>1 DEF Handler
  <2> QED
    BY <2>1 DEF Relies
<1> QED
  BY <1>2, <1>3 DEF PapersInv

(* A paper is moved along its walk, if nobody moved it meanwhile.          *)
LEMMA ApplyStatusKeepsPapers ==
  ASSUME PapersInv, NEW q \in Requests, ApplyStatus(q)
  PROVE  PapersInv'
<1> DEFINE r  == req[q]
           to == Head(r.plan)
           final == Len(r.plan) = 1
<1>1. /\ req \in [Requests -> Handler] /\ Relies(q) /\ r \in Handler
      /\ matched' \subseteq Docs
  BY DEF PapersInv, PapersTyped, ApplyStatus
<1>2. /\ r.step = "apply" /\ r.doc \in Docs /\ Exists(r.doc) /\ Sound(r)
      /\ r.plan \in Seq(DocumentStatus) /\ r.verdict \in ReviewAction \cup {None}
  BY <1>1 DEF ApplyStatus, At, Relies, Handler
<1>3. CASE doc[r.doc].status # r.from
  <2>1. UNCHANGED <<rows, history>> /\ Finish(q)
    BY <1>3 DEF ApplyStatus, rows, history
  <2> QED
    BY <2>1, EndingKeepsPapers
<1>4. CASE doc[r.doc].status = r.from
  <2> DEFINE verdict == IF final THEN r.verdict ELSE None
             next == IF ~ final THEN [r EXCEPT !.from = to, !.plan = Tail(@)]
                     ELSE IF r.to = None THEN Idle
                     ELSE [r EXCEPT !.step = "ask", !.doc = None, !.from = None,
                                    !.plan = <<>>]
  <2>1. /\ doc' = [doc EXCEPT ![r.doc].status = to]
        /\ Said(r.doc, to, verdict)
        /\ req' = [req EXCEPT ![q] = next]
    BY <1>4 DEF ApplyStatus
  <2>2. /\ r.plan # <<>> /\ Path(r.from, r.plan, r.verdict)
        /\ <<r.from, r.plan[1]>> \in DOCUMENT_TRANSITIONS
        /\ ~ (r.doc \in NeedsTranslation /\ r.from = "ACCEPTED" /\ r.plan[1] = "READY")
    BY <1>2 DEF Sound, Path
  <2>3. /\ to = r.plan[1] /\ to \in DocumentStatus
        /\ final \/ Len(r.plan) > 1
    BY <1>2, <2>2, Lengths, Paths
  <2>4. verdict \in ReviewAction \cup {None}
        /\ (verdict # None => to = REVIEW_TARGET[verdict])
    BY <1>2, <2>2, <2>3 DEF Path
  <2> HIDE DEF verdict
  <2>5. /\ \A e \in Docs : Earned(e)'
        /\ earned' \in [Docs -> SUBSET Word] /\ asked' \subseteq Docs
        /\ doc' \in [Docs -> Row]
        /\ \A e \in Docs : Exists(e)' = Exists(e)
        /\ \A e \in Docs : ~ Exists(e)' => doc'[e] = NoRow /\ earned'[e] = NewIn
    BY <1>2, <1>4, <2>1, <2>2, <2>3, <2>4, SaidIsEarned
  <2>6. /\ ~ final => next = [r EXCEPT !.from = to, !.plan = Tail(@)]
        /\ final /\ r.to = None => next = Idle
        /\ final /\ r.to # None =>
             next = [r EXCEPT !.step = "ask", !.doc = None, !.from = None, !.plan = <<>>]
    OBVIOUS
  <2>7. req'[q] = next /\ req' = [req EXCEPT ![q] = req'[q]]
    BY <1>1, <2>1
  <2> HIDE DEF next, final
  <2>8. CASE ~ final
    <3>1. Tail(r.plan) \in Seq(DocumentStatus) /\ Path(to, Tail(r.plan), r.verdict)
      BY <1>2, <2>2, <2>3, <2>8, RestOfPath
    <3>2. next \in Handler
      BY <1>1, <2>3, <2>6, <2>8, <3>1 DEF Handler
    <3>3. /\ next.step = "apply" /\ next.doc = r.doc /\ next.to = r.to
          /\ next.from = to /\ next.plan = Tail(r.plan) /\ next.verdict = r.verdict
      BY <1>1, <1>2, <2>6, <2>8 DEF Handler
    <3>4. to # "ACCEPTED"
      <4>1. 1 \in 1 .. Len(r.plan) - 1
        BY <1>2, <2>3, <2>8
      <4> QED
        BY <2>2, <2>3, <4>1 DEF Path
    <3>5. Sound(next)
      BY <3>1, <3>3, <3>4 DEF Sound
    <3>6. Relies(q)'
      BY <1>1, <1>2, <2>5, <2>7, <3>3, <3>5 DEF Relies, PaperSteps
    <3> QED
      BY <1>1, <2>5, <2>7, <3>2, <3>6, RowsKeepPapers
  <2>9. CASE final /\ r.to = None
    <3>1. Relies(q)'
      BY <2>6, <2>7, <2>9 DEF Relies, Idle, PaperSteps
    <3> QED
      BY <1>1, <2>5, <2>6, <2>7, <2>9, <3>1, IdleIsAHandler, RowsKeepPapers
  <2>10. CASE final /\ r.to # None
    <3>2. next \in Handler
      BY <1>1, <2>6, <2>10, AskingIsAHandler
    <3>3. next.step = "ask" /\ next.to = r.to /\ next.verdict = r.verdict
      BY <1>1, <2>6, <2>10 DEF Handler
    <3>4. Relies(q)'
      BY <1>1, <2>7, <2>10, <3>3 DEF Relies, PaperSteps
    <3> QED
      BY <1>1, <2>5, <2>7, <3>2, <3>4, RowsKeepPapers
  <2> QED
    BY <2>8, <2>9, <2>10
<1> QED
  BY <1>3, <1>4

(* The next paper asked for is looked up ...                               *)
LEMMA AskReadsKeepsPapers ==
  ASSUME PapersInv, NEW q \in Requests, AskReads(q)
  PROVE  PapersInv'
<1>1. req \in [Requests -> Handler] /\ req[q] \in Handler /\ Relies(q) /\ matched \subseteq Docs
  BY DEF PapersInv, PapersTyped
<1>2. PICK d \in req[q].todo :
        req' = [req EXCEPT ![q].step = IF Exists(d) THEN "restore" ELSE "insert",
                           ![q].doc = d, ![q].from = doc[d].status,
                           ![q].todo = @ \ {d}]
  BY DEF AskReads
<1>3. d \in Docs /\ doc[d].status \in DocumentStatus \cup {None}
  BY <1>1 DEF Handler, PapersInv, PapersTyped, Row
<1>4. req'[q] = [req[q] EXCEPT !.step = IF Exists(d) THEN "restore" ELSE "insert",
                               !.doc = d, !.from = doc[d].status, !.todo = @ \ {d}]
  BY <1>1, <1>2
<1>5. req'[q] \in Handler /\ req' = [req EXCEPT ![q] = req'[q]]
  BY <1>1, <1>2, <1>3, <1>4 DEF Handler, Steps
<1>6. /\ req'[q].step = IF Exists(d) THEN "restore" ELSE "insert"
      /\ req'[q].doc = d /\ req'[q].verdict = req[q].verdict /\ req'[q].to = req[q].to
  BY <1>1, <1>4 DEF Handler
<1>7. UNCHANGED <<doc, matched, earned, asked>> /\ req[q].verdict = None
  BY <1>1 DEF AskReads, rows, history, At, Relies
<1>8. Relies(q)'
  BY <1>1, <1>3, <1>6, <1>7 DEF Relies, PaperSteps, Exists
<1> QED
  BY <1>1, <1>5, <1>7, <1>8, OwnStateKeepsPapers

(* Where a handler goes on asking.                                         *)
LEMMA AskingGoesOn ==
  ASSUME PapersInv, NEW q \in Requests, req[q].step \in {"insert", "restore"},
         req' = [req EXCEPT ![q] = AfterAsking(q)]
  PROVE  /\ req'[q] \in Handler /\ req' = [req EXCEPT ![q] = req'[q]]
         /\ Relies(q)'
<1>1. req \in [Requests -> Handler] /\ req[q] \in Handler /\ Relies(q)
  BY DEF PapersInv, PapersTyped
<1>2. req'[q] = AfterAsking(q)
  BY <1>1
<1>3. CASE req[q].to = None
  <2>1. req'[q] = Idle
    BY <1>2, <1>3 DEF AfterAsking
  <2> QED
    BY <1>1, <1>2, <2>1, IdleIsAHandler DEF Relies, Idle, PaperSteps
<1>4. CASE req[q].to # None
  <2>1. req'[q] = [req[q] EXCEPT !.step = "ask", !.doc = None, !.from = None]
    BY <1>2, <1>4 DEF AfterAsking
  <2>2. req'[q] \in Handler
    BY <1>1, <2>1, AskingIsAHandler
  <2>3. req'[q].step = "ask" /\ req'[q].to = req[q].to /\ req'[q].verdict = req[q].verdict
    BY <1>1, <2>1 DEF Handler
  <2>4. req[q].verdict = None
    BY <1>1 DEF Relies
  <2> QED
    BY <1>1, <1>2, <2>2, <2>3, <2>4 DEF Relies, PaperSteps
<1> QED
  BY <1>3, <1>4

(* ... and made, if there is none ...                                      *)
LEMMA AskInsertsKeepsPapers ==
  ASSUME PapersInv, NEW q \in Requests, AskInserts(q)
  PROVE  PapersInv'
<1> DEFINE new == [status |-> "NOT_STARTED", live |-> TRUE, ruled |-> FALSE]
<1>1. req[q].step = "insert" /\ req[q].doc \in Docs
  BY DEF AskInserts, At, PapersInv, Relies
<1>2. PICK d \in Docs : d = req[q].doc
  BY <1>1
<1>3. UNCHANGED <<matched, earned>> /\ PapersTyped
  BY DEF AskInserts, PapersInv
<1>4. CASE Exists(d)
  BY <1>2, <1>3, <1>4, EndingKeepsPapers DEF AskInserts, rows, history
<1>5. CASE ~ Exists(d)
  <2>1. /\ doc' = [doc EXCEPT ![d] = new]
        /\ asked' = asked \cup {d}
        /\ req' = [req EXCEPT ![q] = AfterAsking(q)]
    BY <1>2, <1>5 DEF AskInserts
  <2>2. doc'[d] = new /\ \A e \in Docs \ {d} : doc'[e] = doc[e]
    BY <1>3, <2>1 DEF PapersTyped
  <2>3. new \in Row /\ new.status = "NOT_STARTED" /\ "NOT_STARTED" # None
    BY DEF Row, DocumentStatus, AWAITING_SUBMISSION, None
  <2>4. earned[d] = {}
    BY <1>3, <1>5 DEF PapersTyped, NewIn
  <2>5. Earned(d)'
    BY <1>3, <2>2, <2>3, <2>4 DEF Earned, SETTLED_STATUSES
  <2>6. \A e \in Docs \ {d} : Earned(e)'
    BY <1>3, <2>2 DEF Earned, PapersInv
  <2>7. doc' \in [Docs -> Row] /\ asked' \subseteq Docs
    BY <1>3, <2>1, <2>3 DEF PapersTyped
  <2>8. /\ \A e \in Docs : Exists(e) => Exists(e)'
        /\ \A e \in Docs : ~ Exists(e)' => doc'[e] = NoRow /\ earned'[e] = NewIn
    BY <1>3, <2>2, <2>3 DEF Exists, PapersTyped
  <2>9. /\ req'[q] \in Handler /\ req' = [req EXCEPT ![q] = req'[q]]
        /\ Relies(q)'
    BY <1>1, <2>1, AskingGoesOn
  <2> HIDE DEF new
  <2> QED
    BY <1>3, <2>5, <2>6, <2>7, <2>8, <2>9, RowsKeepPapers DEF PapersTyped
<1> QED
  BY <1>4, <1>5

(* Rows whose status, or the words said of them, do not change.            *)
LEMMA SameStatusesKeepPapers ==
  ASSUME PapersInv, NEW q \in Requests, UNCHANGED earned, doc' \in [Docs -> Row],
         \A e \in Docs : doc'[e].status = doc[e].status,
         \A e \in Docs : ~ Exists(e) => doc'[e] = doc[e],
         matched' \subseteq Docs, asked' \subseteq Docs,
         req' = [req EXCEPT ![q] = req'[q]], req'[q] \in Handler, Relies(q)'
  PROVE  PapersInv'
<1>1. \A e \in Docs : Earned(e)'
  BY DEF PapersInv, Earned
<1>2. \A e \in Docs : Exists(e)' = Exists(e)
  BY DEF Exists
<1>3. \A e \in Docs : ~ Exists(e)' => doc'[e] = NoRow /\ earned'[e] = NewIn
  BY <1>2 DEF PapersInv, PapersTyped
<1>4. earned' \in [Docs -> SUBSET Word]
  BY DEF PapersInv, PapersTyped
<1> QED
  BY <1>1, <1>2, <1>3, <1>4, RowsKeepPapers

(* ... or put back on the list, and a settled one back to the client.      *)
LEMMA AskRestoresKeepsPapers ==
  ASSUME PapersInv, NEW q \in Requests, AskRestores(q)
  PROVE  PapersInv'
<1>1. /\ req[q].step = "restore" /\ req[q].doc \in Docs /\ Exists(req[q].doc)
      /\ req[q].verdict = None
  BY DEF AskRestores, At, PapersInv, Relies
<1>2. PICK d \in Docs : d = req[q].doc
  BY <1>1
<1>3. /\ UNCHANGED <<matched, earned>> /\ PapersTyped
      /\ req \in [Requests -> Handler] /\ req[q] \in Handler
  BY DEF AskRestores, PapersInv, PapersTyped
<1>4. doc' = [doc EXCEPT ![d].live = TRUE]
  BY <1>2 DEF AskRestores
<1>5. doc' \in [Docs -> Row] /\ \A e \in Docs : doc'[e].status = doc[e].status
  BY <1>3, <1>4 DEF PapersTyped, Row
<1>6. \A e \in Docs : ~ Exists(e) => doc'[e] = doc[e]
  BY <1>1, <1>2, <1>3, <1>4 DEF PapersTyped
<1>7. asked' \subseteq Docs /\ matched' \subseteq Docs
  BY <1>2, <1>3 DEF AskRestores, PapersTyped
<1>8. /\ req'[q] \in Handler /\ req' = [req EXCEPT ![q] = req'[q]]
      /\ Relies(q)'
  <2>1. CASE req[q].from \in SETTLED_STATUSES
    <3>1. req' = [req EXCEPT ![q] =
            [req[q] EXCEPT !.step = "apply", !.plan = <<"RESUBMIT_REQUIRED">>]]
      BY <2>1 DEF AskRestores
    <3>2. req'[q] = [req[q] EXCEPT !.step = "apply", !.plan = <<"RESUBMIT_REQUIRED">>]
      BY <1>3, <3>1
    <3>3. /\ "RESUBMIT_REQUIRED" \in DocumentStatus
          /\ <<req[q].from, "RESUBMIT_REQUIRED">> \in DOCUMENT_TRANSITIONS
      BY <2>1, AskedAgain, Paths
    <3> DEFINE plan == <<"RESUBMIT_REQUIRED">>
    <3>4. /\ plan \in Seq(DocumentStatus) /\ plan # <<>>
          /\ Len(plan) = 1 /\ plan[1] = "RESUBMIT_REQUIRED"
      BY <3>3
    <3> HIDE DEF plan
    <3>5. req'[q] = [req[q] EXCEPT !.step = "apply", !.plan = plan]
      BY <3>2 DEF plan
    <3>6. req'[q] \in Handler
      BY <1>3, <3>4, <3>5, WalkingIsAHandler
    <3>7. /\ req'[q].step = "apply" /\ req'[q].plan = plan /\ req'[q].doc = d
          /\ req'[q].from = req[q].from /\ req'[q].verdict = None
      BY <1>1, <1>2, <1>3, <3>5 DEF Handler
    <3>8. Path(req[q].from, plan, None)
      BY <3>3, <3>4 DEF Path
    <3>9. Sound(req'[q])
      BY <3>4, <3>7, <3>8 DEF Sound
    <3>10. doc'[d].status # None
      BY <1>1, <1>2, <1>5 DEF Exists
    <3>11. Relies(q)'
      BY <1>3, <3>7, <3>9, <3>10 DEF Relies, PaperSteps, Exists
    <3> QED
      BY <1>3, <3>1, <3>2, <3>6, <3>11
  <2>2. CASE req[q].from \notin SETTLED_STATUSES
    <3>1. req' = [req EXCEPT ![q] = AfterAsking(q)]
      BY <2>2 DEF AskRestores
    <3> QED
      BY <1>1, <3>1, AskingGoesOn
  <2> QED
    BY <2>1, <2>2
<1> QED
  BY <1>3, <1>5, <1>6, <1>7, <1>8, SameStatusesKeepPapers

(* The checklist's handlers, which are not the officer's.                  *)
LEMMA ChecklistKeepsPapers ==
  ASSUME PapersInv, NEW q \in Requests \ {Officer}, OfChecklist(q)
  PROVE  PapersInv'
<1>1. /\ req \in [Requests -> Handler] /\ req[q] \in Handler /\ matched \subseteq Docs
      /\ PapersTyped
  BY DEF PapersInv, PapersTyped
<1>2. ASSUME NEW d \in Docs, AddByHand(q, d)
      PROVE  PapersInv'
  <2>1. req'[q] = [Idle EXCEPT !.step = "ask", !.todo = {d}]
    BY <1>1, <1>2 DEF AddByHand
  <2>2. req'[q] \in Handler
    <3>1. "ask" \in Steps /\ {d} \in SUBSET Docs
      BY DEF Steps
    <3> QED
      BY <2>1, <3>1, IdleIsAHandler, BegunHandler
  <2>3. req'[q].step = "ask" /\ req'[q].verdict = None
    BY <2>1 DEF Idle
  <2>4. Relies(q)'
    BY <2>3 DEF Relies, PaperSteps
  <2> QED
    BY <1>1, <1>2, <2>1, <2>2, <2>4, OwnStateKeepsPapers DEF AddByHand, rows, history
<1>3. ASSUME NEW answers \in SUBSET Docs, Answer(q, answers)
      PROVE  PapersInv'
  <2>1. req'[q] = [Idle EXCEPT !.step = "resolve"]
    BY <1>1, <1>3 DEF Answer
  <2>2. req'[q] \in Handler
    BY <1>3, <2>1, IdleIsAHandler DEF Handler, Steps
  <2>3. req'[q].step = "resolve" /\ req'[q].verdict = None
    BY <2>1 DEF Idle
  <2>4. Relies(q)'
    BY <2>3 DEF Relies, PaperSteps
  <2> QED
    BY <1>1, <1>3, <2>1, <2>2, <2>4, OwnStateKeepsPapers DEF Answer, rows, history
<1>4. CASE ResolveReads(q)
  <2> DEFINE adds == {d \in matched : ~ Exists(d)}
             todo == {d \in matched : Exists(d)}
  <2>1. req'[q] = [Idle EXCEPT !.step = "relist", !.adds = adds, !.todo = todo,
                               !.drops = Removable]
    BY <1>1, <1>4 DEF ResolveReads
  <2>2. adds \subseteq Docs /\ todo \subseteq Docs /\ Removable \subseteq Docs
    BY <1>1 DEF Removable
  <2>3. \A d \in todo \cup Removable : doc'[d].status # None
    BY <1>1, <1>4 DEF Removable, ResolveReads, rows, Exists, PapersTyped, NoRow
  <2> HIDE DEF adds, todo
  <2>4. req'[q] \in Handler
    <3>1. PICK h \in Handler : h = [Idle EXCEPT !.step = "relist", !.todo = todo]
      BY <2>2, IdleIsAHandler, BegunHandler DEF Steps
    <3>2. req'[q] = [h EXCEPT !.adds = adds, !.drops = Removable]
      BY <2>1, <3>1 DEF Idle
    <3>3. adds \in SUBSET Docs /\ Removable \in SUBSET Docs
      BY <2>2
    <3>4. [h EXCEPT !.adds = adds, !.drops = Removable] \in Handler
      BY <3>3, ListedHandler
    <3> QED
      BY <3>2, <3>4
  <2>5. /\ req'[q].step = "relist" /\ req'[q].verdict = None
        /\ req'[q].todo = todo /\ req'[q].drops = Removable
    BY <2>1 DEF Idle
  <2>6. Relies(q)'
    BY <2>3, <2>5 DEF Relies, PaperSteps, Exists
  <2> QED
    BY <1>1, <1>4, <2>1, <2>4, <2>6, OwnStateKeepsPapers DEF ResolveReads, rows, history
<1>5. CASE ResolveWrites(q)
  <2> DEFINE r == req[q]
  <2>1. /\ UNCHANGED <<matched, earned, asked>> /\ Finish(q)
        /\ req'[q] = Idle /\ req' = [req EXCEPT ![q] = req'[q]]
    BY <1>1, <1>5 DEF ResolveWrites, history, Finish
  <2>2. req'[q] \in Handler /\ Relies(q)'
    BY <2>1, IdleIsAHandler DEF Relies, Idle, PaperSteps
  <2>3. CASE \E d \in r.adds : Exists(d)
    <3>1. UNCHANGED <<rows, history>>
      BY <1>5, <2>3 DEF ResolveWrites, rows, history
    <3> QED
      BY <2>1, <3>1, EndingKeepsPapers
  <2>4. CASE \A d \in r.adds : ~ Exists(d)
    <3> DEFINE new == [status |-> "NOT_STARTED", live |-> TRUE, ruled |-> TRUE]
               row(d) == IF d \in r.adds THEN new
                         ELSE IF d \in r.todo THEN [doc[d] EXCEPT !.live = TRUE, !.ruled = TRUE]
                         ELSE IF d \in r.drops THEN [doc[d] EXCEPT !.live = FALSE]
                         ELSE doc[d]
    <3>1. doc' = [d \in Docs |-> row(d)]
      BY <1>5, <2>4 DEF ResolveWrites
    <3>2. new \in Row /\ new.status = "NOT_STARTED" /\ "NOT_STARTED" # None
          /\ "NOT_STARTED" \notin SETTLED_STATUSES \cup {"NEEDS_FIX", "TRANSLATED",
                "CERTIFIED", "READY", "SENT_TO_UNIVERSITY"}
      BY DEF Row, DocumentStatus, AWAITING_SUBMISSION, None, SETTLED_STATUSES
    <3> HIDE DEF new
    <3>3. \A d \in Docs : row(d) \in Row
      BY <1>1, <3>2 DEF PapersTyped, Row
    <3>4. doc' \in [Docs -> Row]
      BY <3>1, <3>3
    <3>5. \A d \in Docs : d \notin r.adds => doc'[d].status = doc[d].status
      BY <1>1, <3>1 DEF PapersTyped, Row
    <3>6. \A d \in Docs : d \in r.adds => doc'[d] = new /\ ~ Exists(d) /\ earned[d] = {}
      BY <1>1, <2>4, <3>1 DEF PapersTyped, NewIn
    <3>7. \A d \in Docs : Earned(d)'
      <4> SUFFICES ASSUME NEW d \in Docs
                   PROVE  Earned(d)'
        OBVIOUS
      <4>1. CASE d \in r.adds
        BY <2>1, <3>2, <3>6, <4>1 DEF Earned
      <4>2. CASE d \notin r.adds
        <5>1. doc'[d].status = doc[d].status /\ earned'[d] = earned[d] /\ Earned(d)
          BY <2>1, <3>5, <4>2 DEF PapersInv
        <5> QED
          BY <5>1 DEF Earned
      <4> QED
        BY <4>1, <4>2
    <3>8. \A d \in Docs : Exists(d) => Exists(d)'
      BY <2>4, <3>5 DEF Exists
    <3>9. \A d \in Docs : ~ Exists(d)' => doc'[d] = NoRow /\ earned'[d] = NewIn
      <4> SUFFICES ASSUME NEW d \in Docs, ~ Exists(d)'
                   PROVE  doc'[d] = NoRow /\ earned'[d] = NewIn
        OBVIOUS
      <4>1. d \notin r.adds /\ ~ Exists(d)
        BY <3>2, <3>6, <3>8 DEF Exists
      <4>2. d \notin r.todo \cup r.drops
        BY <1>5, <4>1 DEF ResolveWrites, At, PapersInv, Relies
      <4>3. doc'[d] = doc[d]
        BY <3>1, <4>1, <4>2
      <4> QED
        BY <1>1, <2>1, <4>1, <4>3 DEF PapersTyped
    <3> HIDE DEF row
    <3> QED
      BY <1>1, <2>1, <2>2, <3>4, <3>7, <3>8, <3>9, RowsKeepPapers DEF PapersTyped
  <2> QED
    BY <2>3, <2>4
<1> QED
  BY <1>2, <1>3, <1>4, <1>5 DEF OfChecklist

(* Staff take a paper off the list: nothing is said of it.                 *)
LEMMA RemoveKeepsPapers ==
  ASSUME PapersInv, NEW d \in Docs, Remove(d)
  PROVE  PapersInv'
<1>1. /\ doc' = [doc EXCEPT ![d].live = FALSE] /\ UNCHANGED <<matched, earned, req>>
      /\ asked' = asked \ {d} /\ PapersTyped /\ Exists(d)
  BY DEF Remove, PapersInv, PapersTyped, NoRow
<1>2. doc' \in [Docs -> Row] /\ \A e \in Docs : doc'[e].status = doc[e].status
  BY <1>1 DEF PapersTyped, Row
<1>3. \A e \in Docs : ~ Exists(e) => doc'[e] = doc[e]
  BY <1>1 DEF PapersTyped
<1>4. /\ req' = [req EXCEPT ![Officer] = req'[Officer]]
      /\ req'[Officer] \in Handler
  BY <1>1, OfficerAssumption DEF PapersTyped
<1>5. Relies(Officer)'
  <2>1. Relies(Officer) /\ req[Officer].todo \cup req[Officer].drops \subseteq Docs
    BY <1>1, OfficerAssumption DEF PapersInv, PapersTyped, Handler
  <2> QED
    BY <1>1, <1>2, <2>1 DEF Relies, Exists
<1>6. matched' \subseteq Docs /\ asked' \subseteq Docs
  BY <1>1 DEF PapersTyped
<1> QED
  BY <1>1, <1>2, <1>3, <1>4, <1>5, <1>6, OfficerAssumption, SameStatusesKeepPapers

(* The officer's handler at a step that is not about a paper.              *)
LEMMA OfficerKeepsPapers ==
  ASSUME PapersInv, UNCHANGED <<rows, history>>, NEW r \in Handler,
         req' = [req EXCEPT ![Officer] = r],
         r.step \notin {"apply", "insert", "restore", "relist"}, r.verdict = None
  PROVE  PapersInv'
<1>1. req \in [Requests -> Handler] /\ matched \subseteq Docs
  BY DEF PapersInv, PapersTyped
<1>2. req'[Officer] = r /\ req' = [req EXCEPT ![Officer] = req'[Officer]]
  BY <1>1, OfficerAssumption
<1>3. Relies(Officer)'
  BY <1>2 DEF Relies
<1> QED
  BY <1>1, <1>2, <1>3, OfficerAssumption, OwnStateKeepsPapers DEF rows, history

(* A paper that is still ready is sent to the school.                      *)
LEMMA SendPaperKeepsPapers ==
  ASSUME PapersInv, SendPaper(Officer)
  PROVE  PapersInv'
<1>1. /\ req \in [Requests -> Handler] /\ req[Officer] \in Handler /\ Relies(Officer)
      /\ req[Officer].step = "send" /\ PapersTyped /\ UNCHANGED <<matched, history>>
  BY OfficerAssumption DEF PapersInv, PapersTyped, SendPaper, At
<1>2. PICK d \in req[Officer].todo :
        IF doc[d].status = "READY"
        THEN /\ doc' = [doc EXCEPT ![d].status = "SENT_TO_UNIVERSITY"]
             /\ req' = [req EXCEPT ![Officer].todo = @ \ {d}]
        ELSE UNCHANGED doc /\ Finish(Officer)
  BY DEF SendPaper
<1>3. CASE doc[d].status # "READY"
  BY <1>1, <1>2, <1>3, OfficerAssumption, EndingKeepsPapers DEF rows
<1>4. CASE doc[d].status = "READY"
  <2>1. d \in Docs
    BY <1>1 DEF Handler
  <2>2. "SENT_TO_UNIVERSITY" \in DocumentStatus /\ "READY" # None
        /\ "SENT_TO_UNIVERSITY" # None /\ "READY" \in SETTLED_STATUSES
        /\ "SENT_TO_UNIVERSITY" \in SETTLED_STATUSES
    BY DEF DocumentStatus, SETTLED_STATUSES, None
  <2>3. /\ doc' \in [Docs -> Row] /\ doc'[d].status = "SENT_TO_UNIVERSITY"
        /\ \A e \in Docs \ {d} : doc'[e] = doc[e]
    BY <1>1, <1>2, <1>4, <2>1, <2>2 DEF PapersTyped, Row
  <2>4. earned' = earned /\ asked' = asked
    BY <1>1 DEF history
  <2>5. Earned(d) /\ \A e \in Docs : Earned(e)
    BY <2>1 DEF PapersInv
  <2>6. Earned(d)'
    BY <1>4, <2>2, <2>3, <2>4, <2>5 DEF Earned
  <2>7. \A e \in Docs \ {d} : Earned(e)'
    BY <2>3, <2>4, <2>5 DEF Earned
  <2>8. /\ \A e \in Docs : Exists(e)' = Exists(e)
        /\ \A e \in Docs : ~ Exists(e)' => doc'[e] = NoRow /\ earned'[e] = NewIn
    BY <1>1, <1>4, <2>2, <2>3, <2>4 DEF Exists, PapersTyped
  <2>9. /\ req'[Officer] = [req[Officer] EXCEPT !.todo = @ \ {d}]
        /\ req' = [req EXCEPT ![Officer] = req'[Officer]]
    BY <1>1, <1>2, <1>4, OfficerAssumption
  <2>10. /\ req'[Officer] \in Handler /\ req'[Officer].step = "send"
         /\ req'[Officer].verdict = req[Officer].verdict
         /\ req'[Officer].to = req[Officer].to
    <3>1. req'[Officer] \in Handler
      <4>1. PICK h \in Handler : h = req[Officer]
        BY <1>1
      <4> QED
        BY <2>1, <2>9, <4>1, ShorterHandler
    <3> QED
      BY <1>1, <2>9, <3>1 DEF Handler
  <2>11. Relies(Officer)'
    BY <1>1, <2>10 DEF Relies
  <2> QED
    BY <1>1, <2>3, <2>4, <2>6, <2>7, <2>8, <2>9, <2>10, <2>11, OfficerAssumption,
       RowsKeepPapers DEF PapersTyped
<1> QED
  BY <1>3, <1>4

(* Every stage of the case is one.                                         *)
LEMMA StagesAreStages == MainLine(Service) \cup ESCAPE_STAGES \subseteq CaseStage
<1>1. \A i \in DOMAIN CASE_FLOWS[Service] : CASE_FLOWS[Service][i] \in CaseStage
  BY ServiceAssumption, SMTT(30) DEF CASE_FLOWS, REGULAR_BASE, GKS_BASE, TAIL, ServiceType, CaseStage
<1> QED
  BY <1>1, ServiceAssumption DEF MainLine, StagesOnLine, CaseStage

(* What else the officer's handler does leaves the papers alone.           *)
LEMMA ApplicationKeepsPapers ==
  ASSUME IInv, OfApplication(Officer), ~ SendPaper(Officer)
  PROVE  PapersInv'
<1> DEFINE o == req[Officer]
<1>1. /\ PapersInv /\ req \in [Requests -> Handler] /\ req[Officer] \in Handler
      /\ Officer \in Requests
      /\ (req[Officer].step # "apply" => req[Officer].verdict = None)
  BY OfficerAssumption DEF IInv, PapersInv, PapersTyped, Relies
<1>2. UNCHANGED <<rows, history>>
  BY DEF OfApplication, TransitionReads, RequestReads, ResultReads, CreateApplication,
         Gate, TransitionWrites, ListReady, AllSent, RequestWrites, ResultRecords,
         Decide, CaseReads, CaseMoves
<1>3. Idle.verdict = None /\ Idle.step = "idle"
  BY DEF Idle
<1>4. CASE Finish(Officer)
  BY <1>1, <1>2, <1>4, EndingKeepsPapers
<1>5. ASSUME NEW to \in ApplicationStatus, TransitionReads(Officer, to)
      PROVE  PapersInv'
  <2> DEFINE step == IF to = "READY" THEN "gate" ELSE "write"
             r == [Idle EXCEPT !.step = step, !.to = to]
  <2>1. step \in Steps /\ step \in {"gate", "write"}
    BY DEF Steps
  <2>4. req' = [req EXCEPT ![Officer] = r]
    BY <1>5 DEF TransitionReads
  <2> HIDE DEF step
  <2>2. r \in Handler
    BY <2>1, IdleIsAHandler DEF Handler
  <2>3. r.verdict = None /\ r.step \in {"gate", "write"}
    BY <2>1 DEF Idle
  <2> HIDE DEF r
  <2> QED
    BY <1>1, <1>2, <2>2, <2>3, <2>4, OfficerKeepsPapers
<1>6. ASSUME NEW docs \in SUBSET Docs, RequestReads(Officer, docs)
      PROVE  PapersInv'
  <2> DEFINE r == [Idle EXCEPT !.step = "ask", !.todo = docs,
                               !.to = "ADDITIONAL_DOCS_REQUESTED"]
  <2>1. r \in Handler
    BY IdleIsAHandler DEF Handler, Steps, ApplicationStatus, DECIDABLE_STATUSES
  <2>2. r.verdict = None /\ r.step = "ask"
    BY DEF Idle
  <2>3. req' = [req EXCEPT ![Officer] = r]
    BY <1>6 DEF RequestReads
  <2> HIDE DEF r
  <2> QED
    BY <1>1, <1>2, <2>1, <2>2, <2>3, OfficerKeepsPapers
<1>7. ASSUME NEW round \in Rounds, NEW decision \in ApplicationDecision,
             ResultReads(Officer, round, decision)
      PROVE  PapersInv'
  <2> DEFINE r == [Idle EXCEPT !.step = "record", !.round = round, !.decision = decision]
  <2>1. r \in Handler
    BY IdleIsAHandler DEF Handler, Steps
  <2>2. r.verdict = None /\ r.step = "record"
    BY DEF Idle
  <2>3. req' = [req EXCEPT ![Officer] = r]
    BY <1>7 DEF ResultReads
  <2> HIDE DEF r
  <2> QED
    BY <1>1, <1>2, <2>1, <2>2, <2>3, OfficerKeepsPapers
<1>8. CASE CreateApplication(Officer)
  <2>1. req' = [req EXCEPT ![Officer] = Idle]
    BY <1>1, <1>8 DEF CreateApplication
  <2> QED
    BY <1>1, <1>2, <2>1, EndingKeepsPapers DEF Finish
<1>9. ASSUME NEW r \in Handler, req' = [req EXCEPT ![Officer] = r], o.step # "apply",
             r.step \in {"write", "look", "decide", "send", "list", "move"},
             r.verdict = o.verdict
      PROVE  PapersInv'
  BY <1>1, <1>2, <1>9, OfficerKeepsPapers
<1>10. \A step : /\ [o EXCEPT !.step = step].step = step
                 /\ [o EXCEPT !.step = step].verdict = o.verdict
  BY <1>1 DEF Handler
<1> HIDE DEF o
<1>11. CASE Gate(Officer)
  <2>1. CASE IsReady
    <3>1. req' = [req EXCEPT ![Officer] = [o EXCEPT !.step = "write"]] /\ o.step # "apply"
      BY <1>11, <2>1 DEF Gate, Goto, At, o
    <3>2. [o EXCEPT !.step = "write"] \in Handler
      BY <1>1, GoingOnIsAHandler DEF Steps, o
    <3> QED
      BY <1>9, <1>10, <3>1, <3>2
  <2>2. CASE ~ IsReady
    BY <1>4, <1>11, <2>2 DEF Gate
  <2> QED
    BY <2>1, <2>2
<1>12. CASE TransitionWrites(Officer)
  <2>1. CASE o.to = "SUBMITTED"
    <3> DEFINE r == [o EXCEPT !.step = "list", !.target = "APPLICATION_SUBMITTED"]
    <3>1. req' = [req EXCEPT ![Officer] = r] /\ o.step # "apply"
      BY <1>12, <2>1 DEF TransitionWrites, At, o
    <3>2. r \in Handler
      BY <1>1, GoingOnIsAHandler DEF Steps, Targets, o
    <3>3. r.step = "list" /\ r.verdict = o.verdict
      BY <1>1 DEF Handler, o
    <3> HIDE DEF r
    <3> QED
      BY <1>9, <3>1, <3>2, <3>3
  <2>2. CASE o.to # "SUBMITTED"
    BY <1>4, <1>12, <2>2 DEF TransitionWrites, o
  <2> QED
    BY <2>1, <2>2
<1>13. CASE ListReady(Officer)
  <2> DEFINE todo == {d \in OnList : doc[d].status = "READY"}
             r == [o EXCEPT !.step = "send", !.todo = todo]
  <2>1. req' = [req EXCEPT ![Officer] = r] /\ o.step # "apply"
    BY <1>13 DEF ListReady, At, o
  <2>2. todo \in SUBSET Docs
    BY DEF OnList
  <2> HIDE DEF todo
  <2>3. r \in Handler
    BY <1>1, <2>2, GoingOnIsAHandler DEF Steps, o
  <2>4. r.step = "send" /\ r.verdict = o.verdict
    BY <1>1 DEF Handler, o
  <2> HIDE DEF r
  <2> QED
    BY <1>9, <2>1, <2>3, <2>4
<1>14. CASE AllSent(Officer)
  <2>1. req' = [req EXCEPT ![Officer] = [o EXCEPT !.step = "look"]] /\ o.step # "apply"
    BY <1>14 DEF AllSent, Goto, At, o
  <2>2. [o EXCEPT !.step = "look"] \in Handler
    BY <1>1, GoingOnIsAHandler DEF Steps, o
  <2> QED
    BY <1>9, <1>10, <2>1, <2>2
<1>15. CASE RequestWrites(Officer)
  BY <1>4, <1>15 DEF RequestWrites
<1>16. CASE ResultRecords(Officer)
  <2>1. req' = [req EXCEPT ![Officer] = [o EXCEPT !.step = "decide"]] /\ o.step # "apply"
    BY <1>16 DEF ResultRecords, Goto, At, o
  <2>2. [o EXCEPT !.step = "decide"] \in Handler
    BY <1>1, GoingOnIsAHandler DEF Steps, o
  <2> QED
    BY <1>9, <1>10, <2>1, <2>2
<1>17. CASE Decide(Officer)
  <2> DEFINE target == CaseStageFor(o.decision, o.round)
  <2>1. target \in Targets \cup {None}
    BY DEF CaseStageFor, Targets
  <2>2. CASE target = None
    BY <1>4, <1>17, <2>2 DEF Decide, Finish, o
  <2>3. CASE target # None
    <3> DEFINE r == [Idle EXCEPT !.step = "look", !.target = target]
    <3>1. req' = [req EXCEPT ![Officer] = r]
      BY <1>17, <2>3 DEF Decide, o
    <3> HIDE DEF target
    <3>2. r \in Handler
      BY <2>1, IdleIsAHandler DEF Handler, Steps
    <3>3. r.verdict = None /\ r.step = "look"
      BY DEF Idle
    <3> HIDE DEF r
    <3> QED
      BY <1>1, <1>2, <3>1, <3>2, <3>3, OfficerKeepsPapers
  <2> QED
    BY <2>2, <2>3
<1>18. CASE CaseReads(Officer)
  <2>1. stage \in CaseStage
    BY StagesAreStages DEF IInv, ApplicationInv
  <2>2. CASE stage # o.target /\ Reachable(stage, o.target)
    <3> DEFINE r == [o EXCEPT !.step = "move", !.seen = stage]
    <3>1. req' = [req EXCEPT ![Officer] = r] /\ o.step # "apply"
      BY <1>18, <2>2 DEF CaseReads, At, o
    <3>2. r \in Handler
      BY <1>1, <2>1, GoingOnIsAHandler DEF Steps, o
    <3>3. r.step = "move" /\ r.verdict = o.verdict
      BY <1>1 DEF Handler, o
    <3> HIDE DEF r
    <3> QED
      BY <1>9, <3>1, <3>2, <3>3
  <2>3. CASE ~ (stage # o.target /\ Reachable(stage, o.target))
    BY <1>4, <1>18, <2>3 DEF CaseReads, o
  <2> QED
    BY <2>2, <2>3
<1>19. CASE CaseMoves(Officer)
  BY <1>4, <1>19 DEF CaseMoves
<1> QED
  BY <1>5, <1>6, <1>7, <1>8, <1>11, <1>12, <1>13, <1>14, <1>15, <1>16, <1>17, <1>18,
     <1>19 DEF OfApplication

(* Every step keeps the papers' half.                                      *)
LEMMA PapersAreKept ==
  ASSUME IInv, [Next]_vars
  PROVE  PapersInv'
<1>1. PapersInv /\ Officer \in Requests
  BY OfficerAssumption DEF IInv
<1>2. ASSUME NEW q \in Requests, OfPapers(q)
      PROVE  PapersInv'
  BY <1>1, <1>2, MoveReadsKeepsPapers, ReviewReadsKeepsPapers, ApplyStatusKeepsPapers,
     AskReadsKeepsPapers, AskInsertsKeepsPapers, AskRestoresKeepsPapers DEF OfPapers
<1>3. CASE OfApplication(Officer)
  BY <1>1, <1>3, SendPaperKeepsPapers, ApplicationKeepsPapers
<1>4. ASSUME NEW to \in Moves, StaffMove(to)
      PROVE  PapersInv'
  <2>1. UNCHANGED <<doc, matched, earned, asked, req>>
    BY <1>4 DEF StaffMove, rows, history
  <2> QED
    BY <1>1, <2>1 DEF PapersInv, PapersTyped, Relies, Earned, Exists
<1>5. CASE UNCHANGED vars
  BY <1>1, <1>5 DEF vars, history, PapersInv, PapersTyped, Relies, Earned, Exists
<1> QED
  BY <1>1, <1>2, <1>3, <1>4, <1>5, ChecklistKeepsPapers, RemoveKeepsPapers DEF Next

-----------------------------------------------------------------------------
(* Positions on a line are numbers, and the fourth stage is that of the    *)
(* papers.                                                                 *)
LEMMA Positions ==
  ASSUME NEW sv \in ServiceType
  PROVE  /\ DOMAIN CASE_FLOWS[sv] \subseteq Nat
         /\ 4 \in DOMAIN CASE_FLOWS[sv] /\ CASE_FLOWS[sv][4] = "DOCUMENTS"
<1> USE DEF CASE_FLOWS, REGULAR_BASE, GKS_BASE, TAIL, ServiceType
<1>1. DOMAIN CASE_FLOWS[sv] \subseteq Nat
  BY SMTT(30)
<1>2. 4 \in DOMAIN CASE_FLOWS[sv] /\ CASE_FLOWS[sv][4] = "DOCUMENTS"
  BY SMTT(30)
<1> HIDE DEF CASE_FLOWS
<1> QED
  BY <1>1, <1>2

(* A position that is not the last one is followed by another.             *)
LEMMA NextPosition ==
  ASSUME NEW sv \in ServiceType, NEW i \in 1 .. Len(CASE_FLOWS[sv]) - 1
  PROVE  i \in DOMAIN CASE_FLOWS[sv] /\ i + 1 \in DOMAIN CASE_FLOWS[sv]
BY SMTT(30) DEF CASE_FLOWS, REGULAR_BASE, GKS_BASE, TAIL, ServiceType

(* `Ahead` says that the positions are in order.                           *)
LEMMA AheadByPosition ==
  ASSUME NEW sv \in ServiceType, NEW f, NEW t
  PROVE  Ahead(sv, f, t) <=>
           \E i, j \in DOMAIN CASE_FLOWS[sv] :
              i < j /\ f = CASE_FLOWS[sv][i] /\ t = CASE_FLOWS[sv][j]
BY SMTT(90) DEF Ahead, AheadOnLine, CASE_FLOWS, REGULAR_BASE, GKS_BASE, TAIL, ServiceType

(* Of two stages of a line one lies ahead of the other.                    *)
LEMMA LineIsTotal ==
  ASSUME NEW a \in MainLine(Service), NEW b \in MainLine(Service), a # b
  PROVE  Ahead(Service, a, b) \/ Ahead(Service, b, a)
<1>1. PICK i \in DOMAIN CASE_FLOWS[Service], j \in DOMAIN CASE_FLOWS[Service] :
        a = CASE_FLOWS[Service][i] /\ b = CASE_FLOWS[Service][j]
  BY ServiceAssumption DEF MainLine, StagesOnLine
<1>2. i # j /\ i \in Nat /\ j \in Nat
  BY <1>1, ServiceAssumption, Positions
<1>3. i < j \/ j < i
  BY <1>2
<1> QED
  BY <1>1, <1>3, ServiceAssumption, AheadByPosition

(* The stages a passed round leads to are stages of the service's line.    *)
LEMMA DecisionStages ==
  IF isGks THEN {"GKS_ROUND1_PASSED", "GKS_ROUND2_PASSED"} \subseteq MainLine(Service)
           ELSE "ADMITTED" \in MainLine(Service)
<1>1. CASE isGks
  <2>1. /\ 6 \in DOMAIN CASE_FLOWS[Service] /\ CASE_FLOWS[Service][6] = "GKS_ROUND1_PASSED"
        /\ 7 \in DOMAIN CASE_FLOWS[Service] /\ CASE_FLOWS[Service][7] = "GKS_ROUND2_PASSED"
    BY <1>1, SMTT(30) DEF isGks, CASE_FLOWS, REGULAR_BASE, GKS_BASE, TAIL, ServiceType
  <2> QED
    BY <1>1, <2>1, ServiceAssumption DEF MainLine, StagesOnLine
<1>2. CASE ~ isGks
  <2>1. 6 \in DOMAIN CASE_FLOWS[Service] /\ CASE_FLOWS[Service][6] = "ADMITTED"
    BY <1>2, ServiceAssumption, SMTT(30)
    DEF isGks, CASE_FLOWS, REGULAR_BASE, GKS_BASE, TAIL, ServiceType
  <2> QED
    BY <1>2, <2>1, ServiceAssumption DEF MainLine, StagesOnLine
<1> QED
  BY <1>1, <1>2

(* A case that has not been completed can be paused.                       *)
LEMMA CasesCanBePaused ==
  ASSUME NEW f \in MainLine(Service) \ {"COMPLETED"}
  PROVE  Reachable(f, "ON_HOLD")
BY ServiceAssumption DEF Reachable, Edge, CaseFlowDefinition, EscapeEdges, ESCAPE_STAGES

(* Where a decision may take a case.                                       *)
LEMMA ReachableStages ==
  ASSUME NEW f, NEW t \in Targets, Reachable(f, t)
  PROVE  t \in (MainLine(Service) \cup ESCAPE_STAGES) \ {"COMPLETED"}
<1>1. t # "COMPLETED"
  BY DEF Targets
<1>2. CASE Ahead(Service, f, t)
  BY <1>1, <1>2, ServiceAssumption, AheadByPosition DEF MainLine, StagesOnLine
<1>3. CASE <<f, t>> \in MainLineEdges(Service)
  BY <1>1, <1>3, ServiceAssumption, NextPosition DEF MainLineEdges, MainLine, StagesOnLine
<1>4. CASE <<f, t>> \in EscapeEdges(Service) \cup ResumeEdges(Service)
  BY <1>1, <1>4 DEF EscapeEdges, ResumeEdges, ESCAPE_STAGES
<1> QED
  BY <1>2, <1>3, <1>4, ServiceAssumption DEF Reachable, Edge, CaseFlowDefinition

(* While app, result and stage stay, only what the officer's handler knows *)
(* can change.                                                             *)
LEMMA OnlyKnowledgeChanges ==
  ASSUME ApplicationInv, UNCHANGED <<app, result, stage>>, Knows'
  PROVE  ApplicationInv'
BY DEF ApplicationInv, RoundsAgree, Open, NoResult

(* A step of somebody else.                                                *)
LEMMA OthersKeepApplication ==
  ASSUME ApplicationInv, UNCHANGED <<app, result, stage>>, req'[Officer] = req[Officer]
  PROVE  ApplicationInv'
<1>1. Knows'
  BY DEF ApplicationInv, Knows, Follows, Story, Concluded, NoResult, Open
<1> QED
  BY <1>1, OnlyKnowledgeChanges

(* The officer's handler ends.                                             *)
LEMMA EndingKeepsApplication ==
  ASSUME ApplicationInv, UNCHANGED <<app, result, stage>>, Follows, Story,
         req'[Officer] = Idle
  PROVE  ApplicationInv'
<1>1. /\ req'[Officer].step = "idle" /\ req'[Officer].to = None
      /\ req'[Officer].target = None
  BY DEF Idle
<1>2. Follows' /\ Story'
  BY DEF Follows, Story, Concluded
<1>3. Knows'
  BY <1>1, <1>2 DEF Knows, None
<1> QED
  BY <1>3, OnlyKnowledgeChanges

(* The officer's handler goes on with the papers, or begins to.            *)
LEMMA HandlingKeepsApplication ==
  ASSUME ApplicationInv, UNCHANGED <<app, result, stage>>, Follows, Story,
         req'[Officer].to \in {None, req[Officer].to},
         \/ req'[Officer].step = "apply"
         \/ req'[Officer].step \in {"gate", "write", "ask", "insert", "restore"}
            /\ req'[Officer].to # None
  PROVE  ApplicationInv'
<1>1. Follows' /\ Story'
  BY DEF Follows, Story, Concluded
<1>2. Knows'
  BY <1>1 DEF ApplicationInv, Knows, NoResult, Open, None
<1> QED
  BY <1>2, OnlyKnowledgeChanges

(* The officer's handler, at the steps that are about papers.              *)
LEMMA PaperStepsKeepApplication ==
  ASSUME IInv, NEW q \in Requests, OfPapers(q)
  PROVE  ApplicationInv'
<1>1. /\ req \in [Requests -> Handler] /\ ApplicationInv /\ Officer \in Requests
      /\ UNCHANGED <<app, result, stage>>
  BY OfficerAssumption DEF IInv, PapersInv, PapersTyped, OfPapers, MoveReads, ReviewReads,
     ApplyStatus, AskReads, AskInserts, AskRestores
<1>2. CASE q # Officer
  <2>1. req'[Officer] = req[Officer]
    BY <1>1, <1>2 DEF OfPapers, MoveReads, ReviewReads, ApplyStatus, AskReads, AskInserts,
       AskRestores, Walk, Finish
  <2> QED
    BY <1>1, <2>1, OthersKeepApplication
<1>3. CASE q = Officer
  <2> DEFINE o == req[Officer]
  <2>1. o \in Handler
    BY <1>1
  <2>2. o.step \in PaperSteps => Follows /\ Story
    BY <1>1 DEF ApplicationInv, Knows, PaperSteps
  <2>3. Idle.step = "idle"
    BY DEF Idle
  <2>4. CASE req'[Officer] = Idle /\ o.step \in PaperSteps
    BY <1>1, <2>2, <2>4, EndingKeepsApplication
  <2>5. ASSUME o.step \in PaperSteps, req'[Officer].to \in {None, o.to},
               \/ req'[Officer].step = "apply"
               \/ req'[Officer].step \in {"ask", "insert", "restore"}
                  /\ req'[Officer].to # None
        PROVE  ApplicationInv'
    BY <1>1, <2>2, <2>5, HandlingKeepsApplication
  <2>6. ASSUME NEW d \in Docs, NEW plan, NEW verdict, req[Officer] = Idle,
               Walk(Officer, d, plan, verdict)
        PROVE  ApplicationInv'
    <3>1. req'[Officer] = [Idle EXCEPT !.step = "apply", !.doc = d, !.from = doc[d].status,
                                       !.plan = plan, !.verdict = verdict]
      BY <1>1, <2>6 DEF Walk
    <3>2. req'[Officer].step = "apply" /\ req'[Officer].to = None
      BY <3>1 DEF Idle
    <3> QED
      BY <2>3, <2>5, <2>6, <3>2 DEF PaperSteps
  <2>7. ASSUME req'[Officer] = AfterAsking(Officer), o.step \in PaperSteps
        PROVE  ApplicationInv'
    <3>1. CASE o.to = None
      BY <2>4, <2>7, <3>1 DEF AfterAsking
    <3>2. CASE o.to # None
      <4>1. req'[Officer] = [o EXCEPT !.step = "ask", !.doc = None, !.from = None]
        BY <2>7, <3>2 DEF AfterAsking
      <4>2. req'[Officer].step = "ask" /\ req'[Officer].to = o.to
        BY <2>1, <4>1 DEF Handler
      <4> QED
        BY <2>5, <2>7, <3>2, <4>2
    <3> QED
      BY <3>1, <3>2
  <2>8. ASSUME NEW d \in Docs, NEW to \in DocumentStatus, MoveReads(Officer, d, to)
        PROVE  ApplicationInv'
    BY <2>6, <2>8 DEF MoveReads
  <2>9. ASSUME NEW d \in Docs, NEW action \in ReviewAction, ReviewReads(Officer, d, action)
        PROVE  ApplicationInv'
    BY <2>6, <2>9 DEF ReviewReads
  <2>10. CASE ApplyStatus(Officer)
    <3>1. o.step \in PaperSteps
      BY <2>10 DEF ApplyStatus, At, PaperSteps
    <3>2. \/ req'[Officer] = Idle
          \/ req'[Officer] = [o EXCEPT !.from = Head(o.plan), !.plan = Tail(@)]
          \/ /\ o.to # None
             /\ req'[Officer] = [o EXCEPT !.step = "ask", !.doc = None, !.from = None,
                                          !.plan = <<>>]
      BY <1>1, <2>10 DEF ApplyStatus, Finish
    <3>3. CASE req'[Officer] = [o EXCEPT !.from = Head(o.plan), !.plan = Tail(@)]
      <4>1. req'[Officer].step = "apply" /\ req'[Officer].to = o.to
        BY <2>1, <2>10, <3>3 DEF Handler, ApplyStatus, At
      <4> QED
        BY <2>5, <3>1, <4>1
    <3>4. CASE /\ o.to # None
               /\ req'[Officer] = [o EXCEPT !.step = "ask", !.doc = None, !.from = None,
                                            !.plan = <<>>]
      <4>1. req'[Officer].step = "ask" /\ req'[Officer].to = o.to
        BY <2>1, <3>4 DEF Handler
      <4> QED
        BY <2>5, <3>1, <3>4, <4>1
    <3> QED
      BY <2>4, <3>1, <3>2, <3>3, <3>4
  <2>11. CASE AskReads(Officer)
    <3>1. o.step = "ask" /\ o.to # None
      BY <1>1, <2>11 DEF AskReads, At, ApplicationInv, Knows
    <3>2. PICK d \in o.todo :
            req'[Officer] = [o EXCEPT !.step = IF Exists(d) THEN "restore" ELSE "insert",
                                      !.doc = d, !.from = doc[d].status, !.todo = @ \ {d}]
      BY <1>1, <2>11 DEF AskReads
    <3> DEFINE step == IF Exists(d) THEN "restore" ELSE "insert"
    <3>3. step \in {"insert", "restore"}
      OBVIOUS
    <3> HIDE DEF step
    <3>4. req'[Officer].step = step /\ req'[Officer].to = o.to
      BY <2>1, <3>2 DEF Handler, step
    <3> QED
      BY <2>5, <3>1, <3>3, <3>4 DEF PaperSteps
  <2>12. CASE AskInserts(Officer)
    <3>1. o.step \in PaperSteps
      BY <2>12 DEF AskInserts, At, PaperSteps
    <3>2. req'[Officer] = Idle \/ req'[Officer] = AfterAsking(Officer)
      BY <1>1, <2>12 DEF AskInserts, Finish
    <3> QED
      BY <2>4, <2>7, <3>1, <3>2
  <2>13. CASE AskRestores(Officer)
    <3>1. o.step \in PaperSteps
      BY <2>13 DEF AskRestores, At, PaperSteps
    <3>2. \/ req'[Officer] = AfterAsking(Officer)
          \/ req'[Officer] = [o EXCEPT !.step = "apply", !.plan = <<"RESUBMIT_REQUIRED">>]
      BY <1>1, <2>13 DEF AskRestores
    <3>3. CASE req'[Officer] = [o EXCEPT !.step = "apply", !.plan = <<"RESUBMIT_REQUIRED">>]
      <4>1. req'[Officer].step = "apply" /\ req'[Officer].to = o.to
        BY <2>1, <3>3 DEF Handler
      <4> QED
        BY <2>5, <3>1, <4>1
    <3> QED
      BY <2>7, <3>1, <3>2, <3>3
  <2> QED
    BY <1>3, <2>8, <2>9, <2>10, <2>11, <2>12, <2>13 DEF OfPapers
<1> QED
  BY <1>2, <1>3

(* The checklist's handlers are not the officer's.                         *)
LEMMA ChecklistKeepsApplication ==
  ASSUME IInv, NEW q \in Requests \ {Officer}, OfChecklist(q)
  PROVE  ApplicationInv'
<1>1. req \in [Requests -> Handler] /\ ApplicationInv /\ Officer \in Requests
  BY OfficerAssumption DEF IInv, PapersInv, PapersTyped
<1>2. UNCHANGED <<app, result, stage>> /\ req'[Officer] = req[Officer]
  BY <1>1 DEF OfChecklist, AddByHand, Answer, ResolveReads, ResolveWrites, Finish
<1> QED
  BY <1>1, <1>2, OthersKeepApplication

(* A case that staff pause or end tells no story any more.                 *)
LEMMA PausingKeepsApplication ==
  ASSUME ApplicationInv, NEW to \in Moves, StaffMove(to)
  PROVE  ApplicationInv'
<1>1. /\ stage' \in ESCAPE_STAGES /\ UNCHANGED <<app, result, req>>
      /\ stage' # "COMPLETED"
  BY MovesAssumption DEF StaffMove, ESCAPE_STAGES
<1>2. Knows'
  BY <1>1 DEF ApplicationInv, Knows, Follows, Story, Concluded, NoResult, Open
<1> QED
  BY <1>1, <1>2 DEF ApplicationInv, RoundsAgree, Open, NoResult

(* The officer's handler goes from one step to the next, or ends.          *)
LEMMA GoingOnKeepsApplication ==
  ASSUME IInv,
         \/ \E to \in ApplicationStatus : TransitionReads(Officer, to)
         \/ \E docs \in SUBSET Docs : RequestReads(Officer, docs)
         \/ Gate(Officer) \/ ListReady(Officer) \/ SendPaper(Officer) \/ AllSent(Officer)
  PROVE  ApplicationInv'
<1> DEFINE o == req[Officer]
<1>1. /\ req \in [Requests -> Handler] /\ o \in Handler /\ ApplicationInv
      /\ Officer \in Requests
      /\ app \in ApplicationStatus \cup {None} /\ Knows
  BY OfficerAssumption DEF IInv, PapersInv, PapersTyped, ApplicationInv
<1>2. Idle.step = "idle"
  BY DEF Idle
<1>3. o.step \notin {"decide", "look", "move"} => Follows /\ Story
  BY <1>1 DEF Knows
<1>4. ASSUME NEW to \in ApplicationStatus, TransitionReads(Officer, to)
      PROVE  ApplicationInv'
  <2> DEFINE step == IF to = "READY" THEN "gate" ELSE "write"
  <2>1. /\ req'[Officer] = [Idle EXCEPT !.step = step, !.to = to]
        /\ UNCHANGED <<app, result, stage>> /\ Follows /\ Story
    BY <1>1, <1>2, <1>3, <1>4 DEF TransitionReads
  <2>2. step \in {"gate", "write"}
    OBVIOUS
  <2> HIDE DEF step
  <2>3. req'[Officer].step = step /\ req'[Officer].to = to
    BY <2>1 DEF Idle
  <2>4. /\ {app, to} \cap DECISION_STATUSES = {} /\ app # None /\ to # None
        /\ to \in {"PREPARING", "READY", "SUBMITTED"} => Open
    BY <1>4 DEF TransitionReads, APPLICATION_TRANSITIONS, DECISION_STATUSES, Open, None,
       ApplicationStatus, DECIDABLE_STATUSES
  <2>5. Follows' /\ Story'
    BY <2>1 DEF Follows, Story, Concluded
  <2>6. Knows'
    BY <1>1, <2>1, <2>2, <2>3, <2>4, <2>5 DEF ApplicationInv, Knows, NoResult, Open
  <2> QED
    BY <1>1, <2>1, <2>6, OnlyKnowledgeChanges
<1>5. ASSUME NEW docs \in SUBSET Docs, RequestReads(Officer, docs)
      PROVE  ApplicationInv'
  <2>1. /\ req'[Officer] = [Idle EXCEPT !.step = "ask", !.todo = docs,
                                        !.to = "ADDITIONAL_DOCS_REQUESTED"]
        /\ UNCHANGED <<app, result, stage>> /\ Follows /\ Story
    BY <1>1, <1>2, <1>3, <1>5 DEF RequestReads
  <2>2. req'[Officer].step = "ask" /\ req'[Officer].to = "ADDITIONAL_DOCS_REQUESTED"
    BY <2>1 DEF Idle
  <2>3. app \notin DECISION_STATUSES /\ app # None
    BY <1>5 DEF RequestReads, APPLICATION_TRANSITIONS, DECISION_STATUSES, None
  <2>4. Follows' /\ Story'
    BY <2>1 DEF Follows, Story, Concluded
  <2>5. Knows'
    BY <2>1, <2>2, <2>3, <2>4 DEF Knows, None, DECISION_STATUSES
  <2> QED
    BY <1>1, <2>1, <2>5, OnlyKnowledgeChanges
<1>6. CASE Gate(Officer)
  <2>1. UNCHANGED <<app, result, stage>> /\ o.step = "gate" /\ Follows /\ Story
    BY <1>3, <1>6 DEF Gate, At
  <2>2. CASE IsReady
    <3>1. req'[Officer] = [o EXCEPT !.step = "write"] /\ o.to # None
      BY <1>1, <1>6, <2>1, <2>2 DEF Gate, Goto, Knows
    <3>2. req'[Officer].step = "write" /\ req'[Officer].to = o.to
      BY <1>1, <3>1 DEF Handler
    <3> QED
      BY <1>1, <2>1, <3>1, <3>2, HandlingKeepsApplication
  <2>3. CASE ~ IsReady
    <3>1. req'[Officer] = Idle
      BY <1>1, <1>6, <2>3 DEF Gate, Finish
    <3> QED
      BY <1>1, <2>1, <3>1, EndingKeepsApplication
  <2> QED
    BY <2>2, <2>3
<1>7. ASSUME UNCHANGED <<app, result, stage>>, o.step \in {"list", "send"},
             req'[Officer].step \in {"send", "look"}, req'[Officer].to = o.to,
             req'[Officer].target = o.target
      PROVE  ApplicationInv'
  <2>1. Follows' /\ Story'
    BY <1>3, <1>7 DEF Follows, Story, Concluded
  <2>2. "APPLICATION_SUBMITTED" # None
    BY DEF None
  <2>3. Knows'
    BY <1>1, <1>7, <2>1, <2>2 DEF Knows, NoResult, Open
  <2> QED
    BY <1>1, <1>7, <2>3, OnlyKnowledgeChanges
<1>8. CASE ListReady(Officer)
  <2> DEFINE todo == {d \in OnList : doc[d].status = "READY"}
  <2>1. /\ UNCHANGED <<app, result, stage>> /\ o.step = "list"
        /\ req'[Officer] = [o EXCEPT !.step = "send", !.todo = todo]
    BY <1>1, <1>8 DEF ListReady, At
  <2> HIDE DEF todo
  <2>2. /\ req'[Officer].step = "send" /\ req'[Officer].to = o.to
        /\ req'[Officer].target = o.target
    BY <1>1, <2>1 DEF Handler
  <2> QED
    BY <1>7, <2>1, <2>2
<1>9. CASE SendPaper(Officer)
  <2>1. UNCHANGED <<app, result, stage>> /\ o.step = "send" /\ Follows /\ Story
    BY <1>3, <1>9 DEF SendPaper, At
  <2>2. PICK d \in o.todo :
          \/ req'[Officer] = [o EXCEPT !.todo = @ \ {d}]
          \/ req'[Officer] = Idle
    BY <1>1, <1>9 DEF SendPaper, Finish
  <2>3. CASE req'[Officer] = [o EXCEPT !.todo = @ \ {d}]
    <3>1. /\ req'[Officer].step = "send" /\ req'[Officer].to = o.to
          /\ req'[Officer].target = o.target
      BY <1>1, <2>1, <2>3 DEF Handler
    <3> QED
      BY <1>7, <2>1, <3>1
  <2> QED
    BY <1>1, <2>1, <2>2, <2>3, EndingKeepsApplication
<1>10. CASE AllSent(Officer)
  <2>1. /\ UNCHANGED <<app, result, stage>> /\ o.step = "send"
        /\ req'[Officer] = [o EXCEPT !.step = "look"]
    BY <1>1, <1>10 DEF AllSent, At, Goto
  <2>2. /\ req'[Officer].step = "look" /\ req'[Officer].to = o.to
        /\ req'[Officer].target = o.target
    BY <1>1, <2>1 DEF Handler
  <2> QED
    BY <1>7, <2>1, <2>2
<1> QED
  BY <1>4, <1>5, <1>6, <1>8, <1>9, <1>10

(* The officer's handler writes a status that is not a decision.           *)
LEMMA WritingKeepsApplication ==
  ASSUME IInv,
         CreateApplication(Officer) \/ TransitionWrites(Officer) \/ RequestWrites(Officer)
  PROVE  ApplicationInv'
<1> DEFINE o == req[Officer]
<1>1. /\ req \in [Requests -> Handler] /\ o \in Handler /\ ApplicationInv
      /\ Officer \in Requests /\ Knows
      /\ app \in ApplicationStatus \cup {None}
  BY OfficerAssumption DEF IInv, PapersInv, PapersTyped, ApplicationInv
<1>2. Idle.step = "idle" /\ Idle.to = None
  BY DEF Idle
<1>3. /\ UNCHANGED <<result, stage>> /\ Follows /\ Story
  BY <1>1, <1>2 DEF CreateApplication, TransitionWrites, RequestWrites, At, Knows
<1>4. /\ app' \notin DECISION_STATUSES /\ app \notin DECISION_STATUSES
      /\ app' \in ApplicationStatus
      /\ app' \in {None, "PREPARING", "READY", "SUBMITTED"} => NoResult
  <2>1. CASE CreateApplication(Officer)
    BY <1>1, <2>1 DEF CreateApplication, ApplicationInv, Open, ApplicationStatus,
       DECISION_STATUSES, None
  <2>2. CASE TransitionWrites(Officer) \/ RequestWrites(Officer)
    <3>1. app' = o.to /\ o.to # None
      BY <1>1, <2>2 DEF TransitionWrites, RequestWrites, At, Knows
    <3>2. app' \in ApplicationStatus
      BY <1>1, <3>1 DEF Handler
    <3> QED
      BY <1>1, <3>1, <3>2 DEF Knows
  <2> QED
    BY <2>1, <2>2
<1>5. Follows' /\ Story'
  BY <1>3, <1>4 DEF Follows, Story, Concluded, DECISION_STATUSES
<1>6. \/ req'[Officer] = Idle
      \/ /\ req'[Officer] = [o EXCEPT !.step = "list", !.target = "APPLICATION_SUBMITTED"]
         /\ o.to = "SUBMITTED" /\ app' = "SUBMITTED"
  BY <1>1, <1>2 DEF CreateApplication, TransitionWrites, RequestWrites, Finish
<1>7. Knows'
  <2>1. CASE req'[Officer] = Idle
    BY <1>2, <1>5, <2>1 DEF Knows, None
  <2>2. CASE /\ req'[Officer] = [o EXCEPT !.step = "list",
                                          !.target = "APPLICATION_SUBMITTED"]
             /\ o.to = "SUBMITTED" /\ app' = "SUBMITTED"
    <3>1. /\ req'[Officer].step = "list" /\ req'[Officer].to = "SUBMITTED"
          /\ req'[Officer].target = "APPLICATION_SUBMITTED"
      BY <1>1, <2>2 DEF Handler
    <3>2. NoResult'
      BY <1>3, <1>4, <2>2 DEF NoResult
    <3> QED
      BY <1>5, <2>2, <3>1, <3>2 DEF Knows, None, DECISION_STATUSES
  <2> QED
    BY <1>6, <2>1, <2>2
<1> QED
  BY <1>1, <1>3, <1>4, <1>7 DEF ApplicationInv, RoundsAgree, Open, NoResult

(* A decision is recorded on a round it may be recorded on.                *)
LEMMA RecordingKeepsApplication ==
  ASSUME IInv,
         \/ \E round \in Rounds, decision \in ApplicationDecision :
              ResultReads(Officer, round, decision)
         \/ ResultRecords(Officer)
  PROVE  ApplicationInv'
<1> DEFINE o == req[Officer]
<1>1. /\ req \in [Requests -> Handler] /\ o \in Handler /\ ApplicationInv
      /\ Officer \in Requests /\ Knows /\ RoundsAgree
      /\ result \in [Rounds -> ApplicationDecision \cup {None}]
  BY OfficerAssumption DEF IInv, PapersInv, PapersTyped, ApplicationInv
<1>2. Idle.step = "idle" /\ None \notin ApplicationDecision
  BY DEF Idle, None, ApplicationDecision
<1>3. ASSUME NEW round \in Rounds, NEW decision \in ApplicationDecision,
             ResultReads(Officer, round, decision)
      PROVE  ApplicationInv'
  <2>1. /\ UNCHANGED <<app, result, stage>> /\ Follows /\ Story
        /\ req'[Officer] = [Idle EXCEPT !.step = "record", !.round = round,
                                        !.decision = decision]
    BY <1>1, <1>2, <1>3 DEF ResultReads, Knows
  <2>2. /\ req'[Officer].step = "record" /\ req'[Officer].to = None
        /\ req'[Officer].round = round /\ req'[Officer].decision = decision
    BY <2>1 DEF Idle
  <2>3. ~ Open
    BY <1>1, <1>3 DEF ResultReads, Open, NoResult, DECIDABLE_STATUSES, ApplicationInv, None, Rounds
  <2>4. /\ decision # None
        /\ ~ isGks => round = 1
        /\ round = 1 => result[2] = None
        /\ round = 2 => result[1] = "PASSED"
    BY <1>2, <1>3 DEF ResultReads
  <2>5. Follows' /\ Story'
    BY <2>1 DEF Follows, Story, Concluded
  <2>6. Knows'
    BY <2>1, <2>2, <2>3, <2>4, <2>5 DEF Knows, None, Open, isGks
  <2> QED
    BY <1>1, <2>1, <2>6, OnlyKnowledgeChanges
<1>4. CASE ResultRecords(Officer)
  <2>1. /\ UNCHANGED <<app, stage>> /\ o.step = "record"
        /\ result' = [result EXCEPT ![o.round] = o.decision]
        /\ req'[Officer] = [o EXCEPT !.step = "decide"]
    BY <1>1, <1>4 DEF ResultRecords, At, Goto
  <2>2. /\ req'[Officer].step = "decide" /\ req'[Officer].to = o.to
        /\ req'[Officer].round = o.round /\ req'[Officer].decision = o.decision
    BY <1>1, <2>1 DEF Handler
  <2>3. /\ o.decision # None /\ o.to = None /\ ~ Open
        /\ ~ isGks => o.round = 1
        /\ o.round = 1 => result[2] = None
        /\ o.round = 2 => result[1] = "PASSED"
    BY <1>1, <2>1 DEF Knows
  <2>4. o.round \in {1, 2} /\ o.decision \in ApplicationDecision
    BY <1>1, <2>3 DEF Handler, Rounds
  <2>5. /\ result' \in [Rounds -> ApplicationDecision \cup {None}]
        /\ result'[o.round] = o.decision
        /\ o.round = 1 => result'[2] = None
        /\ o.round = 2 => result'[1] = "PASSED"
    BY <1>1, <2>1, <2>3, <2>4 DEF Rounds
  <2>6. (result[2] # None => isGks)' /\ RoundsAgree' /\ ~ Open'
    BY <2>1, <2>3, <2>4, <2>5 DEF RoundsAgree, Open, isGks
  <2>7. Knows'
    BY <2>2, <2>3, <2>4, <2>5, <2>6 DEF Knows, None, isGks
  <2> QED
    BY <1>1, <2>1, <2>5, <2>6, <2>7 DEF ApplicationInv
<1> QED
  BY <1>3, <1>4

(* A decision that was recorded is followed, and the case is told of it.   *)
LEMMA DecidingKeepsApplication ==
  ASSUME IInv, Decide(Officer)
  PROVE  ApplicationInv'
<1> DEFINE o == req[Officer]
           target == CaseStageFor(o.decision, o.round)
<1>1. /\ req \in [Requests -> Handler] /\ o \in Handler /\ ApplicationInv
      /\ Officer \in Requests /\ o.step = "decide" /\ Knows
      /\ result \in [Rounds -> ApplicationDecision \cup {None}]
  BY OfficerAssumption DEF IInv, PapersInv, PapersTyped, ApplicationInv, Decide, At
<1>2. /\ o.decision \in ApplicationDecision /\ o.round \in {1, 2}
      /\ ~ isGks => o.round = 1
      /\ o.round = 1 => result[2] = None
      /\ result[o.round] = o.decision
      /\ "PASSED" # None /\ "FAILED" # None /\ o.decision # None
  BY <1>1 DEF Knows, Handler, Rounds, None
<1>3. Concluded = o.round /\ result[Concluded] = o.decision
  BY <1>2 DEF Concluded
<1>4. /\ UNCHANGED <<result, stage>> /\ app' = StatusFor(o.decision, o.round)
      /\ req'[Officer] = IF target = None THEN Idle
                         ELSE [Idle EXCEPT !.step = "look", !.target = target]
  BY <1>1 DEF Decide
<1>5. app' \in ApplicationStatus /\ ~ Open' /\ Concluded' = o.round
  BY <1>2, <1>3, <1>4 DEF StatusFor, ApplicationStatus, DECIDABLE_STATUSES,
     DECISION_STATUSES, Open, None, Concluded
<1>6. Follows'
  BY <1>2, <1>4, <1>5 DEF StatusFor, Follows, None, isGks, ApplicationDecision
<1>7. CASE target = None
  <2>1. req'[Officer].step = "idle" /\ req'[Officer].to = None
    BY <1>4, <1>7 DEF Idle
  <2>2. o.decision \in ApplicationDecision \ {"PASSED", "FAILED"}
    BY <1>2, <1>7 DEF CaseStageFor, None
  <2>3. Story'
    BY <1>2, <1>4, <1>5, <2>2 DEF Story
  <2>4. Knows'
    BY <1>6, <2>1, <2>3 DEF Knows, None
  <2> QED
    BY <1>1, <1>4, <1>5, <2>4 DEF ApplicationInv, RoundsAgree
<1>8. CASE target # None
  <2>1. /\ req'[Officer].step = "look" /\ req'[Officer].to = None
        /\ req'[Officer].target = target
    BY <1>4, <1>8 DEF Idle
  <2>2. target = CaseStageFor(result[Concluded], Concluded)'
    BY <1>2, <1>4, <1>5 DEF CaseStageFor, isGks
  <2>3. Knows'
    BY <1>6, <1>8, <2>1, <2>2 DEF Knows, None
  <2> QED
    BY <1>1, <1>4, <1>5, <2>3 DEF ApplicationInv, RoundsAgree
<1> QED
  BY <1>7, <1>8

(* The case is told, unless it stands there, or further on, or nowhere.    *)
LEMMA TellingKeepsApplication ==
  ASSUME IInv, CaseReads(Officer) \/ CaseMoves(Officer)
  PROVE  ApplicationInv'
<1> DEFINE o == req[Officer]
           told == result[Concluded]
<1>1. /\ req \in [Requests -> Handler] /\ o \in Handler /\ ApplicationInv
      /\ Officer \in Requests /\ o.step \in {"look", "move"} /\ Knows
      /\ UNCHANGED <<app, result>>
      /\ result \in [Rounds -> ApplicationDecision \cup {None}]
      /\ stage \in (MainLine(Service) \cup ESCAPE_STAGES) \ {"COMPLETED"}
  BY OfficerAssumption DEF IInv, PapersInv, PapersTyped, ApplicationInv, CaseReads,
     CaseMoves, At
<1>2. /\ Follows /\ o.target # None /\ o.target \in Targets
      /\ NoResult \/ o.target = CaseStageFor(told, Concluded)
  BY <1>1 DEF Knows, Handler
<1>3. told \in ApplicationDecision \cup {None}
  BY <1>1 DEF Rounds, Concluded
<1>4. NoResult => Story
  BY DEF NoResult, Story, Concluded
<1>5. told = "PASSED" => CaseStageFor(told, Concluded) \in MainLine(Service)
  BY <1>1, DecisionStages DEF ApplicationInv, CaseStageFor, Concluded, isGks
<1>6. CASE CaseReads(Officer)
  <2>1. UNCHANGED stage /\ o.step = "look"
    BY <1>6 DEF CaseReads, At
  <2>2. CASE stage # o.target /\ Reachable(stage, o.target)
    <3>1. req'[Officer] = [o EXCEPT !.step = "move", !.seen = stage]
      BY <1>1, <1>6, <2>2 DEF CaseReads
    <3>2. /\ req'[Officer].step = "move" /\ req'[Officer].to = o.to
          /\ req'[Officer].target = o.target /\ req'[Officer].seen = stage
      BY <1>1, <3>1 DEF Handler
    <3>3. Follows'
      BY <1>1, <1>2 DEF Follows, Concluded
    <3>4. Knows'
      BY <1>1, <1>2, <2>1, <2>2, <3>2, <3>3 DEF Knows, NoResult, Open, Concluded
    <3> QED
      BY <1>1, <2>1, <3>4, OnlyKnowledgeChanges
  <2>3. CASE ~ (stage # o.target /\ Reachable(stage, o.target))
    <3>1. req'[Officer] = Idle
      BY <1>1, <1>6, <2>3 DEF CaseReads, Finish
    <3>2. ASSUME told = "FAILED" /\ o.target = CaseStageFor(told, Concluded)
          PROVE  Story
      <4>1. o.target = "ON_HOLD"
        BY <3>2 DEF CaseStageFor
      <4>2. stage \in ESCAPE_STAGES
        BY <1>1, <2>3, <4>1, CasesCanBePaused DEF ESCAPE_STAGES
      <4> QED
        BY <4>2 DEF Story
    <3>3. ASSUME told = "PASSED" /\ o.target = CaseStageFor(told, Concluded)
          PROVE  Story
      <4>1. \/ stage \in ESCAPE_STAGES \/ stage = o.target
            \/ Ahead(Service, o.target, stage)
        BY <1>1, <1>5, <2>3, <3>3, LineIsTotal DEF Reachable
      <4> QED
        BY <3>3, <4>1 DEF Story
    <3>4. Story
      BY <1>2, <1>3, <1>4, <3>2, <3>3 DEF Story
    <3> QED
      BY <1>1, <1>2, <2>1, <3>1, <3>4, EndingKeepsApplication
  <2> QED
    BY <2>2, <2>3
<1>7. CASE CaseMoves(Officer)
  <2>1. /\ stage' = IF stage = o.seen THEN o.target ELSE stage
        /\ o.step = "move" /\ req'[Officer] = Idle
    BY <1>1, <1>7 DEF CaseMoves, At, Finish
  <2>2. /\ Reachable(o.seen, o.target)
        /\ stage = o.seen \/ stage \in ESCAPE_STAGES
    BY <1>1, <2>1 DEF Knows
  <2>3. stage' \in (MainLine(Service) \cup ESCAPE_STAGES) \ {"COMPLETED"}
    BY <1>1, <1>2, <2>1, <2>2, ReachableStages
  <2>4. ASSUME stage # o.seen \/ NoResult
        PROVE  Story'
    BY <1>1, <2>1, <2>2, <2>4 DEF Story, Concluded, NoResult
  <2>5. ASSUME stage = o.seen /\ o.target = CaseStageFor(told, Concluded)
        PROVE  Story'
    <3>1. stage' = CaseStageFor(told, Concluded) /\ told' = told /\ Concluded' = Concluded
      BY <1>1, <2>1, <2>5 DEF Concluded
    <3>2. told = "FAILED" => stage' \in ESCAPE_STAGES
      BY <3>1 DEF CaseStageFor, ESCAPE_STAGES
    <3> QED
      BY <1>3, <3>1, <3>2 DEF Story
  <2>6. Story' /\ Follows'
    BY <1>1, <1>2, <2>4, <2>5 DEF Follows, Concluded
  <2>7. req'[Officer].step = "idle" /\ req'[Officer].to = None
    BY <2>1 DEF Idle
  <2>8. Knows'
    BY <2>6, <2>7 DEF Knows, None
  <2> QED
    BY <1>1, <2>3, <2>8 DEF ApplicationInv, RoundsAgree, Open, NoResult
<1> QED
  BY <1>6, <1>7

(* Every step keeps the application's half.                                *)
LEMMA ApplicationIsKept ==
  ASSUME IInv, [Next]_vars
  PROVE  ApplicationInv'
<1>1. ApplicationInv
  BY DEF IInv
<1>2. CASE OfApplication(Officer)
  BY <1>2, GoingOnKeepsApplication, WritingKeepsApplication, RecordingKeepsApplication,
     DecidingKeepsApplication, TellingKeepsApplication DEF OfApplication
<1>3. ASSUME NEW d \in Docs, Remove(d)
      PROVE  ApplicationInv'
  BY <1>1, <1>3, OthersKeepApplication DEF Remove
<1>4. CASE UNCHANGED vars
  BY <1>1, <1>4, OthersKeepApplication DEF vars
<1> QED
  BY <1>1, <1>2, <1>3, <1>4, PaperStepsKeepApplication, ChecklistKeepsApplication,
     PausingKeepsApplication DEF Next

-----------------------------------------------------------------------------
(* A case that stands at DOCUMENTS, its checklist just built.              *)
LEMMA InitHolds == Init => IInv
<1> SUFFICES ASSUME Init
             PROVE  IInv
  OBVIOUS
<1>1. \A q \in Requests : req[q] = Idle
  BY DEF Init
<1>2. /\ Idle.step = "idle" /\ Idle.to = None /\ Idle.verdict = None
  BY DEF Idle
<1>3. PapersTyped
  <2>1. \A d \in Docs : doc[d] = [status |-> "NOT_STARTED", live |-> TRUE, ruled |-> TRUE]
                        \/ doc[d] = NoRow
    BY DEF Init
  <2>2. doc \in [Docs -> Row]
    BY <2>1 DEF Init, Row, NoRow, DocumentStatus, AWAITING_SUBMISSION
  <2>3. \A d \in Docs : ~ Exists(d) => doc[d] = NoRow /\ earned[d] = NewIn
    BY <2>1 DEF Init, Exists, None
  <2>4. req \in [Requests -> Handler] /\ earned \in [Docs -> SUBSET Word]
    BY IdleIsAHandler DEF Init, NewIn
  <2> QED
    BY <2>2, <2>3, <2>4 DEF Init, PapersTyped
<1>4. \A q \in Requests : Relies(q)
  BY <1>1, <1>2 DEF Relies, PaperSteps
<1>5. \A d \in Docs : Earned(d)
  BY DEF Init, Earned, NoRow, None, NewIn, SETTLED_STATUSES
<1>6. Knows
  BY <1>1, <1>2, OfficerAssumption
  DEF Init, Knows, Follows, Story, Concluded, None, Rounds, isGks
<1>7. "DOCUMENTS" \in MainLine(Service)
  BY ServiceAssumption, Positions DEF MainLine, StagesOnLine
<1>8. ApplicationInv
  BY <1>6, <1>7
  DEF Init, ApplicationInv, RoundsAgree, Open, NoResult, None, Rounds
<1> QED
  BY <1>3, <1>4, <1>5, <1>8 DEF IInv, PapersInv

(* The invariant holds in every reachable state.                           *)
THEOREM Invariance == Spec => []IInv
<1>1. IInv /\ [Next]_vars => IInv'
  BY PapersAreKept, ApplicationIsKept DEF IInv
<1> QED
  BY <1>1, InitHolds, PTL DEF Spec

(* Every variable keeps its type, a row that was never made says nothing,  *)
(* and a handler about to write a status names a row that is there.        *)
THEOREM TypeCorrect == Spec => []TypeOK
<1>1. IInv => TypeOK
  <2> SUFFICES ASSUME IInv
               PROVE  TypeOK
    OBVIOUS
  <2>1. /\ PapersTyped /\ ApplicationInv
        /\ \A q \in Requests : Relies(q) /\ req[q] \in Handler
    BY DEF IInv, PapersInv, PapersTyped
  <2>2. \A q \in Requests :
          /\ req[q].step \in Steps
          /\ At(q, "apply") => Exists(req[q].doc) /\ req[q].plan # <<>>
          /\ req[q].todo \cup req[q].adds \cup req[q].drops \subseteq Docs
    BY <2>1 DEF Relies, Sound, Path, Handler, At
  <2> QED
    BY <2>1, <2>2 DEF TypeOK, PapersTyped, ApplicationInv, Row, Word
<1> QED
  BY <1>1, Invariance, PTL

(* A paper that counts as collected was accepted since it was last handed  *)
(* in, and translated where it must be: applyStatus writes over the status *)
(* that was read, so no two handlers carry a paper past a step together.   *)
THEOREM SettledPapersAreEarned == Spec => []SettledIsEarned
<1>1. IInv => SettledIsEarned
  BY DEF IInv, PapersInv, Earned, SettledIsEarned
<1> QED
  BY <1>1, Invariance, PTL

(* Of one submission the client is told one thing.                         *)
THEOREM OneVerdictIsGiven == Spec => []OneVerdict
<1>1. IInv => OneVerdict
  BY DEF IInv, PapersInv, Earned, OneVerdict, SETTLED_STATUSES
<1> QED
  BY <1>1, Invariance, PTL

(* Whatever order the rounds are recorded and corrected in, a second round *)
(* stands on a first that passed.                                          *)
THEOREM RoundsStayInOrder == Spec => []RoundsAgree
<1>1. IInv => RoundsAgree
  BY DEF IInv, ApplicationInv
<1> QED
  BY <1>1, Invariance, PTL

(* Between two handlers of the officer the application stands where its    *)
(* last decision says.                                                     *)
THEOREM StatusIsTheResults == Spec => []StatusFollowsResult
<1>1. IInv => StatusFollowsResult
  BY DEF IInv, ApplicationInv, Knows, Follows, StatusFollowsResult, At
<1> QED
  BY <1>1, Invariance, PTL

(* ... and so does the case, unless staff paused or ended it.              *)
THEOREM CaseAndApplicationAgree == Spec => []CaseTellsTheSameStory
<1>1. IInv => CaseTellsTheSameStory
  BY DEF IInv, ApplicationInv, Knows, Story, CaseTellsTheSameStory, At
<1> QED
  BY <1>1, Invariance, PTL
=============================================================================
