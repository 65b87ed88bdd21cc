----------------------- MODULE CaseLifecycle_proofs -----------------------
(***************************************************************************)
(* What holds of CaseLifecycle for every set of requests, services and     *)
(* events.  The lemmas about the stage graph come first, each a fact about *)
(* the five lines of CASE_FLOWS and the rows built from them; the          *)
(* invariant follows, and the theorems last.                               *)
(***************************************************************************)
EXTENDS CaseLifecycle, TLAPS

(* `Ahead` says that the positions are in order.                           *)
LEMMA AheadByPosition ==
  ASSUME NEW sv \in ServiceType, NEW f, NEW t
  PROVE  Ahead(sv, f, t) <=>
           \E i, j \in DOMAIN CASE_FLOWS[sv] :
              i < j /\ f = CASE_FLOWS[sv][i] /\ t = CASE_FLOWS[sv][j]
BY SMTT(30) DEF Ahead, AheadOnLine, CASE_FLOWS, REGULAR_BASE, GKS_BASE, TAIL, ServiceType

(* No stage occurs twice on a line.                                        *)
LEMMA LinesAreInjective ==
  ASSUME NEW sv \in ServiceType,
         NEW i \in DOMAIN CASE_FLOWS[sv], NEW j \in DOMAIN CASE_FLOWS[sv],
         CASE_FLOWS[sv][i] = CASE_FLOWS[sv][j]
  PROVE  i = j
BY SMTT(30) DEF CASE_FLOWS, REGULAR_BASE, GKS_BASE, TAIL, ServiceType

(* Positions on a line are numbers.                                        *)
LEMMA DomainIsInterval ==
  ASSUME NEW sv \in ServiceType
  PROVE  DOMAIN CASE_FLOWS[sv] \subseteq Nat
BY SMTT(30) DEF CASE_FLOWS, REGULAR_BASE, GKS_BASE, TAIL, ServiceType

(* A position that is not the last one is followed by another.             *)
LEMMA NextPosition ==
  ASSUME NEW sv \in ServiceType, NEW i \in 1 .. Len(CASE_FLOWS[sv]) - 1
  PROVE  i \in DOMAIN CASE_FLOWS[sv] /\ i + 1 \in DOMAIN CASE_FLOWS[sv] /\ i < i + 1
BY SMTT(30) DEF CASE_FLOWS, REGULAR_BASE, GKS_BASE, TAIL, ServiceType

(* What lies ahead of a stage ahead lies ahead.                            *)
LEMMA AheadIsTransitive ==
  ASSUME NEW sv \in ServiceType, NEW a, NEW b, NEW c,
         Ahead(sv, a, b), Ahead(sv, b, c)
  PROVE  Ahead(sv, a, c)
<1>1. PICK i \in DOMAIN CASE_FLOWS[sv], j \in DOMAIN CASE_FLOWS[sv] :
        i < j /\ a = CASE_FLOWS[sv][i] /\ b = CASE_FLOWS[sv][j]
  BY AheadByPosition
<1>2. PICK k \in DOMAIN CASE_FLOWS[sv], l \in DOMAIN CASE_FLOWS[sv] :
        k < l /\ b = CASE_FLOWS[sv][k] /\ c = CASE_FLOWS[sv][l]
  BY AheadByPosition
<1>3. j = k
  BY <1>1, <1>2, LinesAreInjective
<1>4. i < l
  BY <1>1, <1>2, <1>3, DomainIsInterval
<1> QED
  BY <1>1, <1>2, <1>4, AheadByPosition

(* Every line begins with the same four stages.                            *)
LEMMA Landmarks ==
  ASSUME NEW sv \in ServiceType
  PROVE  /\ 1 .. 4 \subseteq DOMAIN CASE_FLOWS[sv]
         /\ CASE_FLOWS[sv][1] = FirstStage
         /\ CASE_FLOWS[sv][2] = "CONTRACT_SIGNED"
         /\ CASE_FLOWS[sv][3] = "PREPAYMENT_PAID"
         /\ CASE_FLOWS[sv][4] = "DOCUMENTS"
BY SMTT(30) DEF FirstStage, CASE_FLOWS, REGULAR_BASE, GKS_BASE, TAIL, ServiceType

(* Where BALANCE_PAID stands on the line, in GKS and outside it.           *)
LEMMA BalancePosition ==
  ASSUME NEW sv \in ServiceType
  PROVE  LET p == IF sv = "GKS_SCHOLARSHIP" THEN 8 ELSE 11
         IN  p \in DOMAIN CASE_FLOWS[sv] /\ CASE_FLOWS[sv][p] = "BALANCE_PAID"
BY SMTT(30) DEF CASE_FLOWS, REGULAR_BASE, GKS_BASE, TAIL, ServiceType

(* COMPLETED ends every line: nothing lies ahead of it.                    *)
LEMMA LastStage ==
  ASSUME NEW sv \in ServiceType, NEW i \in DOMAIN CASE_FLOWS[sv],
         NEW j \in DOMAIN CASE_FLOWS[sv], i < j
  PROVE  CASE_FLOWS[sv][i] # "COMPLETED"
BY SMTT(30) DEF CASE_FLOWS, REGULAR_BASE, GKS_BASE, TAIL, ServiceType

(* No escape stage is on a line.                                           *)
LEMMA NoEscapeOnLine ==
  ASSUME NEW sv \in ServiceType, NEW i \in DOMAIN CASE_FLOWS[sv]
  PROVE  CASE_FLOWS[sv][i] \notin ESCAPE_STAGES
BY SMTT(30) DEF ESCAPE_STAGES, CASE_FLOWS, REGULAR_BASE, GKS_BASE, TAIL, ServiceType

(* Both ends of a stretch of a line are stages of it, and it does not      *)
(* start at the end.                                                       *)
LEMMA AheadOnMainLine ==
  ASSUME NEW sv \in ServiceType, NEW f, NEW t, Ahead(sv, f, t)
  PROVE  f \in MainLine(sv) /\ t \in MainLine(sv) /\ f # "COMPLETED"
BY AheadByPosition, LastStage DEF MainLine, StagesOnLine

(* The landmarks are stages of every line, and the escape stages of none.  *)
LEMMA LinesHaveNoEscape ==
  ASSUME NEW sv \in ServiceType
  PROVE  /\ MainLine(sv) \cap ESCAPE_STAGES = {}
         /\ {FirstStage, "CONTRACT_SIGNED", "PREPAYMENT_PAID", "DOCUMENTS",
             "BALANCE_PAID"} \subseteq MainLine(sv)
BY Landmarks, BalancePosition, NoEscapeOnLine DEF MainLine, StagesOnLine

(* The three kinds of rows.                                                *)
LEMMA EdgeKinds ==
  ASSUME NEW sv \in ServiceType, NEW f, NEW t, Edge(sv, f, t)
  PROVE  \/ Ahead(sv, f, t)
         \/ /\ f \in MainLine(sv) \ {"COMPLETED"}
            /\ t \in ESCAPE_STAGES
         \/ /\ f = "ON_HOLD"
            /\ t \in MainLine(sv) \ (SYSTEM_ONLY_TARGETS \cup {"COMPLETED"})
<1>1. CASE <<f, t>> \in MainLineEdges(sv)
  <2>1. PICK i \in 1 .. Len(CASE_FLOWS[sv]) - 1 :
          f = CASE_FLOWS[sv][i] /\ t = CASE_FLOWS[sv][i + 1]
    BY <1>1 DEF MainLineEdges
  <2>2. i \in DOMAIN CASE_FLOWS[sv] /\ i + 1 \in DOMAIN CASE_FLOWS[sv] /\ i < i + 1
    BY <2>1, NextPosition
  <2> QED
    BY <2>1, <2>2, AheadByPosition
<1>2. CASE <<f, t>> \in EscapeEdges(sv)
  BY <1>2 DEF EscapeEdges
<1>3. CASE <<f, t>> \in ResumeEdges(sv)
  BY <1>3 DEF ResumeEdges
<1> QED
  BY <1>1, <1>2, <1>3 DEF Edge, CaseFlowDefinition

(* An edge between two stages of a line leads forward.                     *)
LEMMA EdgeOnLineIsAhead ==
  ASSUME NEW sv \in ServiceType, NEW f \in MainLine(sv), NEW t \in MainLine(sv),
         Edge(sv, f, t)
  PROVE  Ahead(sv, f, t)
BY EdgeKinds, LinesHaveNoEscape DEF ESCAPE_STAGES

(* A row to a stage of the line, but from a pause, comes from the stage    *)
(* before.                                                                 *)
LEMMA RowsLeadToTheNext ==
  ASSUME NEW sv \in ServiceType, NEW f, NEW t \in MainLine(sv), Edge(sv, f, t),
         f # "ON_HOLD" \/ t \in SYSTEM_ONLY_TARGETS
  PROVE  \E i \in DOMAIN CASE_FLOWS[sv] :
            /\ i + 1 \in DOMAIN CASE_FLOWS[sv]
            /\ f = CASE_FLOWS[sv][i] /\ t = CASE_FLOWS[sv][i + 1]
<1>1. <<f, t>> \in MainLineEdges(sv)
  BY LinesHaveNoEscape DEF Edge, CaseFlowDefinition, EscapeEdges, ResumeEdges
<1>2. PICK i \in 1 .. Len(CASE_FLOWS[sv]) - 1 :
        f = CASE_FLOWS[sv][i] /\ t = CASE_FLOWS[sv][i + 1]
  BY <1>1 DEF MainLineEdges
<1> QED
  BY <1>2, NextPosition

(* The rows that lead to the first two stages the system alone enters.     *)
LEMMA EdgesToTheFirstMarks ==
  ASSUME NEW sv \in ServiceType, NEW f
  PROVE  /\ Edge(sv, f, "CONTRACT_SIGNED") => f = FirstStage
         /\ Edge(sv, f, "PREPAYMENT_PAID") => f = "CONTRACT_SIGNED"
<1>1. \A i \in DOMAIN CASE_FLOWS[sv] :
        /\ i + 1 \in DOMAIN CASE_FLOWS[sv]
        => /\ CASE_FLOWS[sv][i + 1] = "CONTRACT_SIGNED" => i + 1 = 2
           /\ CASE_FLOWS[sv][i + 1] = "PREPAYMENT_PAID" => i + 1 = 3
  BY Landmarks, LinesAreInjective
<1>2. \A i \in DOMAIN CASE_FLOWS[sv] : i + 1 = 2 => i = 1
  BY DomainIsInterval
<1>3. \A i \in DOMAIN CASE_FLOWS[sv] : i + 1 = 3 => i = 2
  BY DomainIsInterval
<1>4. CASE_FLOWS[sv][1] = FirstStage /\ CASE_FLOWS[sv][2] = "CONTRACT_SIGNED"
  BY Landmarks
<1>5. {"CONTRACT_SIGNED", "PREPAYMENT_PAID"} \subseteq MainLine(sv) \cap SYSTEM_ONLY_TARGETS
  BY LinesHaveNoEscape DEF SYSTEM_ONLY_TARGETS
<1> QED
  BY <1>1, <1>2, <1>3, <1>4, <1>5, RowsLeadToTheNext

(* A row to a stage past a mark comes from the mark, from past it, or from *)
(* a pause.                                                                *)
LEMMA EdgesPastAMark ==
  ASSUME NEW sv \in ServiceType, NEW m, NEW f, NEW t,
         Edge(sv, f, t), Ahead(sv, m, t)
  PROVE  f = "ON_HOLD" \/ f = m \/ Ahead(sv, m, f)
<1> SUFFICES ASSUME f # "ON_HOLD"
             PROVE  f = m \/ Ahead(sv, m, f)
  OBVIOUS
<1>1. PICK i \in DOMAIN CASE_FLOWS[sv] :
        /\ i + 1 \in DOMAIN CASE_FLOWS[sv]
        /\ f = CASE_FLOWS[sv][i] /\ t = CASE_FLOWS[sv][i + 1]
  BY RowsLeadToTheNext, AheadOnMainLine
<1>2. PICK j \in DOMAIN CASE_FLOWS[sv], k \in DOMAIN CASE_FLOWS[sv] :
        j < k /\ m = CASE_FLOWS[sv][j] /\ t = CASE_FLOWS[sv][k]
  BY AheadByPosition
<1>3. k = i + 1
  BY <1>1, <1>2, LinesAreInjective
<1>4. j = i \/ j < i
  BY <1>2, <1>3, DomainIsInterval
<1> QED
  BY <1>1, <1>2, <1>4, AheadByPosition

-----------------------------------------------------------------------------
(* A row of the table never leaves a final stage and always ends on a      *)
(* stage of the service.                                                   *)
LEMMA EdgeEnds ==
  ASSUME NEW sv \in ServiceType, NEW f, NEW t, Edge(sv, f, t) \/ Ahead(sv, f, t)
  PROVE  f \notin FINAL_STAGES /\ t \in StagesOf(sv)
BY EdgeKinds, AheadOnMainLine, LinesHaveNoEscape
   DEF FINAL_STAGES, StagesOf, ESCAPE_STAGES

(* A walk of mainLineForward stays on the line.                            *)
LEMMA HopsLieOnLine ==
  ASSUME NEW sv \in ServiceType, NEW f, NEW t, NEW h \in mainLineForward(sv, f, t)
  PROVE  h \in StagesOf(sv) /\ (h = t \/ Ahead(sv, h, t))
BY DEF mainLineForward, StagesOf

-----------------------------------------------------------------------------
(* The stages from BALANCE_PAID on.                                        *)
Late(s) == AtOrPast("BALANCE_PAID", s)

(* Neither an event nor an early stage of the system is that far, outside  *)
(* GKS.                                                                    *)
LEMMA EarlyStages ==
  ASSUME NEW s \in DomainTargets \cup ESCAPE_STAGES \cup
                    {FirstStage, "CONTRACT_SIGNED", "PREPAYMENT_PAID"},
         service \in ServiceType, service # "GKS_SCHOLARSHIP"
  PROVE  ~ Late(s)
<1> SUFFICES ASSUME NEW i \in DOMAIN CASE_FLOWS[service],
                    NEW j \in DOMAIN CASE_FLOWS[service], i < j,
                    CASE_FLOWS[service][i] = "BALANCE_PAID",
                    CASE_FLOWS[service][j] = s
             PROVE  FALSE
  BY AheadByPosition DEF Late, AtOrPast, DomainTargets, ESCAPE_STAGES, FirstStage
<1> QED
  BY SMTT(30) DEF DomainTargets, ESCAPE_STAGES, FirstStage, CASE_FLOWS, REGULAR_BASE, GKS_BASE, TAIL, ServiceType

(* What lies ahead of a late stage is late.                                *)
LEMMA LateIsUpwardClosed ==
  ASSUME NEW f, NEW t, service \in ServiceType, Late(f), Ahead(service, f, t)
  PROVE  Late(t)
BY AheadIsTransitive DEF Late, AtOrPast

(* Staff reach a late stage from a late stage or from a pause.             *)
LEMMA StaffEdgeToLate ==
  ASSUME NEW f, NEW t, service \in ServiceType, StaffEdge(service, f, t), Late(t)
  PROVE  f = "ON_HOLD" \/ Late(f)
BY EdgesPastAMark DEF Late, AtOrPast, StaffEdge, SYSTEM_ONLY_TARGETS

(* A write in flight follows a row of the table or the line.               *)
WritesFollowTheFlow ==
  \A q \in Requests : req[q].phase = "write" =>
    \/ Edge(service, req[q].from, req[q].to)
    \/ Ahead(service, req[q].from, req[q].to)

(* Whatever names a late stage, be it the case, its trail or a request in  *)
(* flight, comes after the balance was credited.                           *)
LateIsPaid ==
  service # "GKS_SCHOLARSHIP" =>
    /\ \A s \in visited \cup {stage} : Late(s) => "BALANCE" \in credited
    /\ \A q \in Requests : req[q].phase \in {"write", "progress"} /\ Late(req[q].to)
                             => "BALANCE" \in credited

IInv == TypeOK /\ WritesFollowTheFlow /\ LateIsPaid

(* A case just opened satisfies the invariant.                             *)
LEMMA InitIInv == Init => IInv
<1> SUFFICES ASSUME Init PROVE IInv
  OBVIOUS
<1>1. service \in ServiceType
  BY ServicesAssumption DEF Init
<1>2. FirstStage \in StagesOf(service)
  BY <1>1, LinesHaveNoEscape DEF StagesOf
<1>3. TypeOK
  BY <1>2 DEF Init, TypeOK, Idle
<1>4. LateIsPaid
  BY <1>1, EarlyStages DEF Init, LateIsPaid, Idle
<1> QED
  BY <1>3, <1>4 DEF IInv, WritesFollowTheFlow, Init, Idle

(* No step of Next breaks the invariant.  A step that reads keeps what the *)
(* flow said of the move; a step that writes lands where the flow said.    *)
LEMMA NextIInv == IInv /\ [Next]_vars => IInv'
<1> SUFFICES ASSUME IInv, [Next]_vars PROVE IInv'
  OBVIOUS
<1> USE DEF IInv
<1>sv. service \in ServiceType /\ service' = service
  BY ServicesAssumption DEF TypeOK, Next, StaffRead, ChecklistResolved, DomainRead,
     SweepRead, Write, Confirm, Progress, Crash, Sign, RaiseInvoice, RetireInvoice, vars
<1>l. ASSUME NEW s PROVE Late(s)' <=> Late(s)
  BY <1>sv DEF Late, AtOrPast, Ahead
<1>i. Idle \in [phase : {"idle", "resolved", "write", "progress"},
                from : StagesOf(service), to : StagesOf(service)]
  BY <1>sv, LinesHaveNoEscape DEF Idle, StagesOf
<1>1. ASSUME NEW q \in Requests, NEW to \in CaseStage, StaffRead(q, to)
      PROVE  IInv'
  <2>1. Edge(service, stage, to) /\ to \in StagesOf(service)
    BY <1>1, <1>sv, EdgeEnds DEF StaffRead, StaffEdge
  <2>2. TypeOK'
    BY <1>1, <1>sv, <2>1 DEF StaffRead, TypeOK, caseVars, moneyVars
  <2>3. WritesFollowTheFlow'
    BY <1>1, <1>sv, <2>1 DEF StaffRead, WritesFollowTheFlow, TypeOK, Edge, Ahead
  <2>4. service # "GKS_SCHOLARSHIP" /\ Late(to) => "BALANCE" \in credited
    <3> SUFFICES ASSUME service # "GKS_SCHOLARSHIP", Late(to)
                 PROVE  "BALANCE" \in credited
      OBVIOUS
    <3>1. CASE Late(stage)
      BY <3>1 DEF LateIsPaid
    <3>2. CASE stage = "ON_HOLD"
      BY <3>2, <1>1, <1>sv, EarlyStages DEF StaffRead, Resumable, LateIsPaid
    <3> QED
      BY <3>1, <3>2, <1>1, <1>sv, StaffEdgeToLate DEF StaffRead
  <2>5. LateIsPaid'
    BY <1>1, <1>sv, <1>l, <2>4 DEF StaffRead, LateIsPaid, TypeOK, caseVars, moneyVars
  <2> QED
    BY <2>2, <2>3, <2>5
<1>2. ASSUME NEW q \in Requests, ChecklistResolved(q)
      PROVE  IInv'
  <2>1. "DOCUMENTS" \in StagesOf(service)
    BY <1>sv, LinesHaveNoEscape DEF StagesOf
  <2>2. TypeOK'
    BY <1>2, <1>sv, <2>1 DEF ChecklistResolved, TypeOK, caseVars, moneyVars
  <2>3. WritesFollowTheFlow'
    BY <1>2, <1>sv DEF ChecklistResolved, WritesFollowTheFlow, TypeOK, Edge, Ahead
  <2>4. LateIsPaid'
    BY <1>2, <1>sv, <1>l DEF ChecklistResolved, LateIsPaid, TypeOK, caseVars, moneyVars
  <2> QED
    BY <2>2, <2>3, <2>4
<1>3. ASSUME NEW q \in Requests, NEW to \in Events[service], DomainRead(q, to)
      PROVE  IInv'
  <2> DEFINE goes == /\ stage # to
                     /\ Edge(service, stage, to) \/ Ahead(service, stage, to)
             new  == [phase |-> "write", from |-> stage, to |-> to]
  <2>1. /\ req' = [req EXCEPT ![q] = IF goes THEN new ELSE Idle]
        /\ UNCHANGED <<service, stage, visited, signed, open, credited>>
    BY <1>3 DEF DomainRead, caseVars, moneyVars
  <2>2. goes => to \in StagesOf(service)
    BY <1>sv, EdgeEnds
  <2>3. TypeOK'
    BY <1>sv, <1>i, <2>1, <2>2 DEF TypeOK
  <2>4. WritesFollowTheFlow'
    BY <1>sv, <2>1 DEF WritesFollowTheFlow, TypeOK, Edge, Ahead, Idle
  <2>5. service # "GKS_SCHOLARSHIP" => ~ Late(to)
    <3>1. to \in DomainTargets
      BY EventsAssumption DEF TypeOK
    <3> QED
      BY <1>sv, <3>1, EarlyStages
  <2>6. LateIsPaid'
    BY <1>sv, <1>l, <2>1, <2>5 DEF LateIsPaid, TypeOK, Idle
  <2> QED
    BY <2>3, <2>4, <2>6
<1>4. ASSUME NEW q \in Requests, SweepRead(q)
      PROVE  IInv'
  <2>1. "CANCELLED" \in StagesOf(service)
    BY DEF StagesOf, ESCAPE_STAGES
  <2>2. Edge(service, stage, "CANCELLED")
    <3>1. stage \in MainLine(service) \ {"COMPLETED"}
      BY <1>4, <1>sv, LinesHaveNoEscape DEF SweepRead, PRE_PREPAYMENT_STAGES, FirstStage
    <3> QED
      BY <3>1, <1>sv DEF Edge, CaseFlowDefinition, EscapeEdges, ESCAPE_STAGES
  <2>3. TypeOK'
    BY <1>4, <1>sv, <2>1 DEF SweepRead, TypeOK, caseVars, moneyVars
  <2>4. WritesFollowTheFlow'
    BY <1>4, <1>sv, <2>2 DEF SweepRead, WritesFollowTheFlow, TypeOK, Edge, Ahead
  <2>5. service # "GKS_SCHOLARSHIP" => ~ Late("CANCELLED")
    BY <1>sv, EarlyStages DEF ESCAPE_STAGES
  <2>6. LateIsPaid'
    BY <1>4, <1>sv, <1>l, <2>5 DEF SweepRead, LateIsPaid, TypeOK, caseVars, moneyVars
  <2> QED
    BY <2>3, <2>4, <2>6
<1>5. ASSUME NEW q \in Requests, Write(q)
      PROVE  IInv'
  <2>1. \A h \in Hops(q) : h \in StagesOf(service) /\ (h = req[q].to \/ Ahead(service, h, req[q].to))
    BY <1>5, <1>sv, HopsLieOnLine DEF Hops, TypeOK, Write
  <2>2. req' = [req EXCEPT ![q] = Idle]
        /\ UNCHANGED <<service, signed, open, credited>>
    BY <1>5 DEF Write, Finish, moneyVars
  <2>3. \/ UNCHANGED <<stage, visited>>
        \/ stage' = req[q].to /\ visited' = visited \cup Hops(q)
    BY <1>5 DEF Write, Move, caseVars
  <2>4. TypeOK'
    BY <1>sv, <1>i, <2>1, <2>2, <2>3 DEF TypeOK
  <2>5. WritesFollowTheFlow'
    BY <1>sv, <2>2 DEF WritesFollowTheFlow, TypeOK, Edge, Ahead, Idle
  <2>6. ASSUME service # "GKS_SCHOLARSHIP", NEW s \in visited' \cup {stage'}, Late(s)
        PROVE  "BALANCE" \in credited
    <3>1. CASE s \in visited \cup {stage}
      BY <2>6, <3>1 DEF LateIsPaid
    <3>2. CASE s = req[q].to \/ s \in Hops(q)
      <4>1. Late(req[q].to)
        BY <1>sv, <2>1, <2>6, <3>2, LateIsUpwardClosed
      <4> QED
        BY <1>5, <2>6, <4>1 DEF LateIsPaid, Write
    <3> QED
      BY <2>3, <2>6, <3>1, <3>2
  <2>7. LateIsPaid'
    BY <1>sv, <1>l, <2>2, <2>6 DEF LateIsPaid, TypeOK, Idle
  <2> QED
    BY <2>4, <2>5, <2>7
<1>6. ASSUME NEW q \in Requests, NEW kind \in Kinds, Confirm(q, kind)
      PROVE  IInv'
  <2>1. PROGRESS_TARGET[kind] \in StagesOf(service)
    BY <1>sv, LinesHaveNoEscape DEF PROGRESS_TARGET, Kinds, StagesOf
  <2>2. TypeOK'
    BY <1>6, <1>sv, <1>i, <2>1 DEF Confirm, TypeOK, caseVars, Idle
  <2>3. WritesFollowTheFlow'
    BY <1>6, <1>sv DEF Confirm, WritesFollowTheFlow, TypeOK, Edge, Ahead
  <2>4. service # "GKS_SCHOLARSHIP" /\ Late(PROGRESS_TARGET[kind]) => kind = "BALANCE"
    BY <1>sv, EarlyStages DEF PROGRESS_TARGET, Kinds
  <2>5. LateIsPaid'
    BY <1>6, <1>sv, <1>l, <2>4 DEF Confirm, LateIsPaid, TypeOK, caseVars
  <2> QED
    BY <2>2, <2>3, <2>5
<1>7. ASSUME NEW q \in Requests, Progress(q)
      PROVE  IInv'
  <2>1. /\ req' = [req EXCEPT ![q] = Idle]
        /\ UNCHANGED <<service, signed, open, credited>>
        /\ \/ UNCHANGED <<stage, visited>>
           \/ stage' = req[q].to /\ visited' = visited \cup {req[q].to}
    BY <1>7 DEF Progress, Finish, Move, caseVars, moneyVars
  <2>2. TypeOK'
    BY <1>sv, <1>i, <2>1 DEF TypeOK
  <2>3. WritesFollowTheFlow'
    BY <1>sv, <2>1 DEF WritesFollowTheFlow, TypeOK, Edge, Ahead, Idle
  <2>4. LateIsPaid'
    BY <1>7, <1>sv, <1>l, <2>1 DEF LateIsPaid, TypeOK, Idle, Progress
  <2> QED
    BY <2>2, <2>3, <2>4
<1>8. ASSUME NEW q \in Requests, Crash(q)
      PROVE  IInv'
  BY <1>8, <1>sv, <1>l, <1>i DEF Crash, Finish, caseVars, moneyVars, TypeOK,
     WritesFollowTheFlow, LateIsPaid, Edge, Ahead, Idle
<1>9. ASSUME Sign
      PROVE  IInv'
  <2>1. "CONTRACT_SIGNED" \in StagesOf(service)
    BY <1>sv, LinesHaveNoEscape DEF StagesOf
  <2>2. service # "GKS_SCHOLARSHIP" => ~ Late("CONTRACT_SIGNED")
    BY <1>sv, EarlyStages
  <2>3. TypeOK' /\ WritesFollowTheFlow'
    BY <1>9, <1>sv, <2>1 DEF Sign, Move, moneyVars, TypeOK, WritesFollowTheFlow, Edge, Ahead
  <2>4. LateIsPaid'
    BY <1>9, <1>sv, <1>l, <2>2 DEF Sign, Move, moneyVars, LateIsPaid
  <2> QED
    BY <2>3, <2>4
<1>10. ASSUME NEW kind \in Kinds, RaiseInvoice(kind) \/ RetireInvoice(kind)
       PROVE  IInv'
  BY <1>10, <1>sv, <1>l DEF RaiseInvoice, RetireInvoice, caseVars, TypeOK,
     WritesFollowTheFlow, LateIsPaid, Edge, Ahead
<1>11. CASE UNCHANGED vars
  BY <1>11, <1>sv, <1>l DEF vars, caseVars, moneyVars, TypeOK, WritesFollowTheFlow,
     LateIsPaid, Edge, Ahead
<1> QED
  BY <1>1, <1>2, <1>3, <1>4, <1>5, <1>6, <1>7, <1>8, <1>9, <1>10, <1>11 DEF Next

(* However staff, events, payments, the signing and the sweep overlap on a *)
(* case, the invariant holds.                                              *)
THEOREM Invariance == Spec => []IInv
BY InitIInv, NextIInv, PTL DEF Spec

-----------------------------------------------------------------------------
(* Every state keeps the case, its trail and the requests in flight on the *)
(* stages of the case's own service.                                       *)
THEOREM TypeCorrect == Spec => []TypeOK
<1>1. IInv => TypeOK
  BY DEF IInv
<1> QED
  BY <1>1, Invariance, PTL

(* Outside GKS nobody departs, or stands anywhere past BALANCE_PAID, with  *)
(* the balance unpaid, however many requests overlap.                      *)
THEOREM DepartsOnlyPaidHolds == Spec => []DepartsOnlyPaid
<1>1. IInv => DepartsOnlyPaid
  BY DEF IInv, LateIsPaid, DepartsOnlyPaid, Late
<1> QED
  BY <1>1, Invariance, PTL

(* A move starts where the flow lets a case leave and ends where the move  *)
(* was meant to end.                                                       *)
LEMMA MovesFollowTheFlow ==
  ASSUME IInv, Next, stage' # stage
  PROVE  Edge(service, stage, stage') \/ Ahead(service, stage, stage')
<1>1. ASSUME NEW q \in Requests, Write(q)
      PROVE  Edge(service, stage, stage') \/ Ahead(service, stage, stage')
  BY <1>1 DEF Write, Move, caseVars, IInv, WritesFollowTheFlow
<1>2. ASSUME NEW q \in Requests, Progress(q)
      PROVE  Edge(service, stage, stage')
  BY <1>2 DEF Progress, Move, caseVars, SystemEdge
<1>3. ASSUME Sign
      PROVE  Edge(service, stage, stage')
  BY <1>3 DEF Sign, Move, SystemEdge
<1> QED
  BY <1>1, <1>2, <1>3 DEF Next, StaffRead, ChecklistResolved, DomainRead, SweepRead,
     Confirm, Crash, RaiseInvoice, RetireInvoice, caseVars

(* An ended case stays ended, for every set of requests in flight.         *)
THEOREM FinalStagesAreFinalHolds == Spec => FinalStagesAreFinal
<1>1. IInv /\ [Next]_vars => [(stage \in FINAL_STAGES) => (stage' = stage)]_vars
  BY MovesFollowTheFlow, EdgeEnds, ServicesAssumption DEF IInv, TypeOK, vars, caseVars
<1> QED
  BY <1>1, Invariance, PTL DEF Spec, FinalStagesAreFinal

(* No late event and no stale page pulls a case back along its main line.  *)
THEOREM NeverDraggedBackHolds == Spec => NeverDraggedBack
<1>1. IInv /\ [Next]_vars =>
        [{stage, stage'} \subseteq MainLine(service) /\ stage' # stage
           => Ahead(service, stage, stage')]_vars
  BY MovesFollowTheFlow, EdgeOnLineIsAhead, ServicesAssumption
     DEF IInv, TypeOK, vars, caseVars
<1> QED
  BY <1>1, Invariance, PTL DEF Spec, NeverDraggedBack

-----------------------------------------------------------------------------
(* The two properties of a service whose only event is the checklist's.    *)

(* The stages from PREPAYMENT_PAID on, those the case is known to have     *)
(* been at, and those a stage comes after.                                 *)
Past(s)   == AtOrPast("PREPAYMENT_PAID", s)
Known     == visited \cup {FirstStage}
Before(s) == {p \in MainLine(service) : Ahead(service, p, s)}

(* What a request in flight stands on: a checklist was resolved at         *)
(* PREPAYMENT_PAID; a write starts at a known stage and, out of a pause,   *)
(* leads to one whose predecessors are known.                              *)
StandsOnTheTrail(q) ==
  /\ req[q].phase = "resolved" => "PREPAYMENT_PAID" \in visited
  /\ req[q].phase = "write" =>
       /\ req[q].from \in Known
       /\ req[q].from = "ON_HOLD" => Before(req[q].to) \subseteq Known
       /\ Past(req[q].to) => "PREPAYMENT" \in credited
  /\ req[q].phase = "progress" =>
       \E kind \in Kinds : req[q].to = PROGRESS_TARGET[kind] /\ kind \in credited

(* While the checklist is the only event.                                  *)
ChecklistInv ==
  OnlyChecklist =>
    /\ \A s \in visited \cup {stage} : Past(s) => "PREPAYMENT" \in credited
    /\ TrailIsComplete
    /\ \A q \in Requests : StandsOnTheTrail(q)

(* A pair of AheadOnLine is one stage ahead of another.                    *)
LEMMA PairsAhead ==
  ASSUME NEW sv \in ServiceType, NEW p \in AheadOnLine[sv]
  PROVE  Ahead(sv, p[1], p[2])
<1>1. PICK j \in DOMAIN CASE_FLOWS[sv] :
        p \in {<<CASE_FLOWS[sv][i], CASE_FLOWS[sv][j]>> : i \in 1 .. j - 1}
  BY DEF AheadOnLine
<1>2. p = <<p[1], p[2]>>
  BY <1>1
<1> QED
  BY <1>2 DEF Ahead

(* The second half of TrailIsComplete, said stage by stage.                *)
LEMMA TrailByStage ==
  ASSUME NEW sv \in ServiceType, NEW named, NEW known
  PROVE  (\A p \in AheadOnLine[sv] : p[2] \in named => p[1] \in known)
           <=> \A s \in named : \A p : Ahead(sv, p, s) => p \in known
<1>1. ASSUME \A p \in AheadOnLine[sv] : p[2] \in named => p[1] \in known,
             NEW s \in named, NEW r, Ahead(sv, r, s)
      PROVE  r \in known
  <2>1. <<r, s>>[2] \in named => <<r, s>>[1] \in known
    BY <1>1 DEF Ahead
  <2> QED
    BY <2>1
<1>2. ASSUME \A s \in named : \A p : Ahead(sv, p, s) => p \in known,
             NEW p \in AheadOnLine[sv], p[2] \in named
      PROVE  p[1] \in known
  BY <1>2, PairsAhead
<1> QED
  BY <1>1, <1>2

(* Of two stages of a line one lies ahead of the other.                    *)
LEMMA LineIsTotal ==
  ASSUME NEW sv \in ServiceType, NEW a \in MainLine(sv), NEW b \in MainLine(sv), a # b
  PROVE  Ahead(sv, a, b) \/ Ahead(sv, b, a)
<1>1. PICK i \in DOMAIN CASE_FLOWS[sv], j \in DOMAIN CASE_FLOWS[sv] :
        a = CASE_FLOWS[sv][i] /\ b = CASE_FLOWS[sv][j]
  BY DEF MainLine, StagesOnLine
<1>2. i # j /\ i \in Nat /\ j \in Nat
  BY <1>1, DomainIsInterval
<1>3. i < j \/ j < i
  BY <1>2
<1> QED
  BY <1>1, <1>3, AheadByPosition

(* Nothing comes before the first stage.                                   *)
LEMMA NothingBeforeTheFirst ==
  ASSUME NEW sv \in ServiceType, NEW p
  PROVE  ~ Ahead(sv, p, FirstStage)
<1>1. \A i \in DOMAIN CASE_FLOWS[sv] : i \in Nat \ {0}
  BY SMTT(30) DEF CASE_FLOWS, REGULAR_BASE, GKS_BASE, TAIL, ServiceType
<1>2. \A j \in DOMAIN CASE_FLOWS[sv] : CASE_FLOWS[sv][j] = FirstStage => j = 1
  BY Landmarks, LinesAreInjective
<1>3. \A i, j \in DOMAIN CASE_FLOWS[sv] : i < j => j # 1
  BY <1>1
<1> QED
  BY <1>2, <1>3, AheadByPosition

(* What comes before the next stage is this one, or comes before it.       *)
LEMMA BeforeTheNext ==
  ASSUME NEW sv \in ServiceType, NEW i \in DOMAIN CASE_FLOWS[sv],
         i + 1 \in DOMAIN CASE_FLOWS[sv], NEW p, Ahead(sv, p, CASE_FLOWS[sv][i + 1])
  PROVE  p = CASE_FLOWS[sv][i] \/ Ahead(sv, p, CASE_FLOWS[sv][i])
<1>1. PICK j \in DOMAIN CASE_FLOWS[sv], k \in DOMAIN CASE_FLOWS[sv] :
        j < k /\ p = CASE_FLOWS[sv][j] /\ CASE_FLOWS[sv][i + 1] = CASE_FLOWS[sv][k]
  BY AheadByPosition
<1>2. k = i + 1
  BY <1>1, LinesAreInjective
<1>3. j = i \/ j < i
  BY <1>1, <1>2, DomainIsInterval
<1> QED
  BY <1>1, <1>3, AheadByPosition

(* A case moved by a row or along the line keeps its trail whole, if a     *)
(* resume goes to a stage whose predecessors are known.                    *)
LEMMA MovesKeepTheTrail ==
  ASSUME service \in ServiceType, service' = service, TrailIsComplete, NEW to, NEW hops,
         stage' = to, visited' = visited \cup hops,
         stage = "ON_HOLD" /\ to \notin SYSTEM_ONLY_TARGETS => Before(to) \subseteq Known,
         \/ Edge(service, stage, to) /\ hops = {to}
         \/ Ahead(service, stage, to) /\ hops = mainLineForward(service, stage, to)
  PROVE  TrailIsComplete'
<1>1. \A s, p : Ahead(service, p, s) <=> p \in Before(s)
  BY AheadOnMainLine DEF Before
<1>2. stage \in Known /\ \A s \in visited : Before(s) \subseteq Known
  <2>1. (\A p \in AheadOnLine[service] : p[2] \in visited => p[1] \in Known)
           <=> \A s \in visited : \A p : Ahead(service, p, s) => p \in Known
    BY TrailByStage
  <2> QED
    BY <1>1, <2>1 DEF TrailIsComplete, Known
<1>3. TrailIsComplete' <=>
        stage' \in Known' /\ \A s \in visited' : Before(s) \subseteq Known'
  <2>1. (\A p \in AheadOnLine[service] : p[2] \in visited' => p[1] \in Known')
           <=> \A s \in visited' : \A p : Ahead(service, p, s) => p \in Known'
    BY TrailByStage
  <2> QED
    BY <1>1, <2>1 DEF TrailIsComplete, Known
<1>4. Before(stage) \subseteq Known /\ Known' = Known \cup hops
  BY <1>2, NothingBeforeTheFirst DEF Known, Before
<1>5. CASE Edge(service, stage, to) /\ hops = {to}
  <2>1. Before(to) \subseteq Known
    <3>1. CASE to \notin MainLine(service)
      BY <3>1, AheadOnMainLine DEF Before
    <3>2. CASE to \in MainLine(service) /\ (stage # "ON_HOLD" \/ to \in SYSTEM_ONLY_TARGETS)
      <4>1. PICK i \in DOMAIN CASE_FLOWS[service] :
              /\ i + 1 \in DOMAIN CASE_FLOWS[service]
              /\ stage = CASE_FLOWS[service][i] /\ to = CASE_FLOWS[service][i + 1]
        BY <1>5, <3>2, RowsLeadToTheNext
      <4>2. ASSUME NEW p \in Before(to)
            PROVE  p = stage \/ p \in Before(stage)
        BY <4>1, <4>2, BeforeTheNext DEF Before
      <4> QED
        BY <1>2, <1>4, <4>2
    <3> QED
      BY <3>1, <3>2
  <2>2. stage' \in Known' /\ \A s \in visited' : Before(s) \subseteq Known'
    BY <1>2, <1>4, <1>5, <2>1
  <2> QED
    BY <1>3, <2>2
<1>6. CASE Ahead(service, stage, to) /\ hops = mainLineForward(service, stage, to)
  <2>1. to \in hops
    BY <1>6, AheadOnMainLine DEF mainLineForward
  <2>2. ASSUME NEW h \in hops, NEW p \in Before(h)
        PROVE  p \in Known \cup hops
    <3>1. p \in MainLine(service) /\ stage \in MainLine(service)
      BY <1>6, AheadOnMainLine DEF Before
    <3>2. CASE p = stage \/ Ahead(service, p, stage)
      BY <1>2, <1>4, <3>1, <3>2 DEF Before
    <3>3. CASE Ahead(service, stage, p)
      <4>1. Ahead(service, p, h) /\ (h = to \/ Ahead(service, h, to))
        BY <1>6, <2>2 DEF Before, mainLineForward
      <4>2. Ahead(service, p, to)
        BY <4>1, AheadIsTransitive
      <4> QED
        BY <1>6, <3>1, <3>3, <4>2 DEF mainLineForward
    <3> QED
      BY <3>1, <3>2, <3>3, LineIsTotal
  <2>3. stage' \in Known' /\ \A s \in visited' : Before(s) \subseteq Known'
    BY <1>2, <1>4, <2>1, <2>2
  <2> QED
    BY <1>3, <2>3
<1> QED
  BY <1>5, <1>6

(* What the moves of a case may rely on and what they leave: a request     *)
(* stands on the trail as long as the trail and the credits only grow.     *)
LEMMA StandsForLong ==
  ASSUME NEW q \in Requests, StandsOnTheTrail(q), req'[q] = req[q], service' = service,
         visited \subseteq visited', credited \subseteq credited'
  PROVE  StandsOnTheTrail(q)'
BY DEF StandsOnTheTrail, Known, Before, Past, AtOrPast, Ahead

(* A step of one request that reads, or ends, keeps what the others stand  *)
(* on, and the trail as it is.                                             *)
LEMMA ReadsKeepChecklistInv ==
  ASSUME TypeOK, ChecklistInv, NEW q \in Requests, service' = service, UNCHANGED caseVars,
         credited \subseteq credited', req' = [req EXCEPT ![q] = req'[q]],
         OnlyChecklist => StandsOnTheTrail(q)'
  PROVE  ChecklistInv'
<1> SUFFICES ASSUME OnlyChecklist
             PROVE  /\ \A s \in visited \cup {stage} : Past(s) => "PREPAYMENT" \in credited
                    /\ TrailIsComplete'
                    /\ \A p \in Requests : StandsOnTheTrail(p)'
  BY DEF ChecklistInv, OnlyChecklist, caseVars, Past, AtOrPast, Ahead
<1>1. \A p \in Requests \ {q} : req'[p] = req[p]
  BY DEF TypeOK
<1>2. TrailIsComplete'
  BY DEF ChecklistInv, TrailIsComplete, caseVars
<1>3. \A p \in Requests : StandsOnTheTrail(p)'
  BY <1>1, StandsForLong DEF ChecklistInv, caseVars
<1> QED
  BY <1>2, <1>3 DEF ChecklistInv

(* A move keeps the checklist's invariant, if it goes by the flow, comes   *)
(* past the prepayment only paid, and out of a pause only to a place whose *)
(* predecessors are known; the request that makes it ends.                 *)
LEMMA MovesKeepChecklistInv ==
  ASSUME TypeOK, ChecklistInv, service \in ServiceType, service' = service, NEW to, NEW hops,
         stage' = to, visited' = visited \cup hops, UNCHANGED moneyVars,
         \A q \in Requests : req'[q] \in {req[q], Idle},
         \/ Edge(service, stage, to) /\ hops = {to}
         \/ Ahead(service, stage, to) /\ hops = mainLineForward(service, stage, to),
         OnlyChecklist =>
           /\ stage = "ON_HOLD" /\ to \notin SYSTEM_ONLY_TARGETS => Before(to) \subseteq Known
           /\ Past(to) => "PREPAYMENT" \in credited
  PROVE  ChecklistInv'
<1> SUFFICES ASSUME OnlyChecklist
             PROVE  /\ \A s \in visited' \cup {to} : Past(s) => "PREPAYMENT" \in credited
                    /\ TrailIsComplete'
                    /\ \A p \in Requests : StandsOnTheTrail(p)'
  BY DEF ChecklistInv, OnlyChecklist, moneyVars, Past, AtOrPast, Ahead
<1>1. ASSUME NEW s \in visited' \cup {to}, Past(s)
      PROVE  "PREPAYMENT" \in credited
  <2>1. s \in visited \/ s = to \/ Ahead(service, s, to)
    BY DEF mainLineForward
  <2>2. CASE Ahead(service, s, to)
    BY <1>1, <2>2, AheadIsTransitive DEF Past, AtOrPast
  <2> QED
    BY <1>1, <2>1, <2>2 DEF ChecklistInv
<1>2. TrailIsComplete'
  BY MovesKeepTheTrail DEF ChecklistInv
<1>3. ASSUME NEW p \in Requests
      PROVE  StandsOnTheTrail(p)'
  <2>1. CASE req'[p] = req[p]
    BY <2>1, StandsForLong DEF ChecklistInv, moneyVars
  <2>2. CASE req'[p] = Idle
    BY <2>2 DEF StandsOnTheTrail, Idle
  <2> QED
    BY <2>1, <2>2
<1> QED
  BY <1>1, <1>2, <1>3

(* The stages before PREPAYMENT_PAID and the escape stages.                *)
LEMMA UnpaidStages ==
  ASSUME NEW s \in ESCAPE_STAGES \cup {FirstStage, "CONTRACT_SIGNED"}, service \in ServiceType
  PROVE  ~ Past(s)
<1>1. s \in ESCAPE_STAGES \/ s = CASE_FLOWS[service][1] \/ s = CASE_FLOWS[service][2]
  BY Landmarks
<1>2. /\ 1 \in DOMAIN CASE_FLOWS[service] /\ 2 \in DOMAIN CASE_FLOWS[service]
      /\ 3 \in DOMAIN CASE_FLOWS[service] /\ CASE_FLOWS[service][3] = "PREPAYMENT_PAID"
  BY Landmarks
<1>3. \A j \in DOMAIN CASE_FLOWS[service] : 3 < j \/ j = 3 => j # 1 /\ j # 2
  BY DomainIsInterval
<1>4. \A i, j \in DOMAIN CASE_FLOWS[service] :
        i < j /\ CASE_FLOWS[service][i] = "PREPAYMENT_PAID" => 3 < j
  BY <1>2, LinesAreInjective
<1>5. CASE s \in ESCAPE_STAGES
  BY <1>5, LinesHaveNoEscape, AheadOnMainLine DEF Past, AtOrPast
<1>6. CASE s = CASE_FLOWS[service][1] \/ s = CASE_FLOWS[service][2]
  <2>1. \A j \in DOMAIN CASE_FLOWS[service] : CASE_FLOWS[service][j] = s => j = 1 \/ j = 2
    BY <1>2, <1>6, LinesAreInjective
  <2> QED
    BY <1>2, <1>3, <1>4, <2>1, AheadByPosition DEF Past, AtOrPast
<1> QED
  BY <1>1, <1>5, <1>6

(* All that comes before DOCUMENTS is known of a case that has been at the *)
(* stage before it.                                                        *)
LEMMA BeforeDocuments ==
  ASSUME service \in ServiceType, TrailIsComplete, "PREPAYMENT_PAID" \in visited
  PROVE  Before("DOCUMENTS") \subseteq Known
<1>1. \A p \in AheadOnLine[service] : p[2] \in visited => p[1] \in Known
  BY DEF TrailIsComplete, Known
<1>2. \A p : Ahead(service, p, "PREPAYMENT_PAID") => p \in Known
  BY <1>1, TrailByStage
<1>3. /\ 3 \in DOMAIN CASE_FLOWS[service] /\ CASE_FLOWS[service][3] = "PREPAYMENT_PAID"
      /\ 4 \in DOMAIN CASE_FLOWS[service] /\ CASE_FLOWS[service][4] = "DOCUMENTS"
      /\ 3 + 1 = 4
  BY Landmarks
<1>4. \A p : Ahead(service, p, "DOCUMENTS") =>
              p = "PREPAYMENT_PAID" \/ Ahead(service, p, "PREPAYMENT_PAID")
  BY <1>3, BeforeTheNext
<1> QED
  BY <1>2, <1>4 DEF Before, Known

(* A row out of a pause leads, for staff, where the trail says; for the    *)
(* checklist, to DOCUMENTS.  No step of Next breaks the invariant.         *)
LEMMA NextChecklistInv == IInv /\ ChecklistInv /\ Next => ChecklistInv'
<1> SUFFICES ASSUME IInv, ChecklistInv, Next PROVE ChecklistInv'
  OBVIOUS
<1>sv. /\ TypeOK /\ service \in ServiceType /\ service' = service
       /\ req \in [Requests -> [phase : {"idle", "resolved", "write", "progress"},
                               from : StagesOf(service), to : StagesOf(service)]]
  BY ServicesAssumption DEF IInv, TypeOK, Next, StaffRead, ChecklistResolved, DomainRead,
     SweepRead, Write, Confirm, Progress, Crash, Sign, RaiseInvoice, RetireInvoice
<1>k. OnlyChecklist =>
        /\ stage \in Known /\ TrailIsComplete
        /\ \A s \in visited \cup {stage} : Past(s) => "PREPAYMENT" \in credited
        /\ \A q \in Requests : StandsOnTheTrail(q)
        /\ \A s \in visited : Before(s) \subseteq Known
  <2>1. OnlyChecklist => \A p \in AheadOnLine[service] : p[2] \in visited => p[1] \in Known
    BY DEF ChecklistInv, TrailIsComplete, Known
  <2>2. OnlyChecklist => \A s \in visited : \A p : Ahead(service, p, s) => p \in Known
    BY <1>sv, <2>1, TrailByStage
  <2> QED
    BY <2>2 DEF ChecklistInv, TrailIsComplete, Known, Before
<1>p. Past("PREPAYMENT_PAID")
  BY DEF Past, AtOrPast
<1>1. ASSUME NEW q \in Requests, NEW to \in CaseStage, StaffRead(q, to)
      PROVE  ChecklistInv'
  <2>1. /\ req' = [req EXCEPT ![q] = [phase |-> "write", from |-> stage, to |-> to]]
        /\ UNCHANGED <<service, stage, visited, credited>>
        /\ Edge(service, stage, to) /\ to \notin SYSTEM_ONLY_TARGETS
        /\ stage = "ON_HOLD" => Resumable(to)
    BY <1>1 DEF StaffRead, StaffEdge, caseVars, moneyVars
  <2>2. req'[q] = [phase |-> "write", from |-> stage, to |-> to]
    BY <1>sv, <2>1
  <2>3. OnlyChecklist /\ stage = "ON_HOLD" =>
          Before(to) \subseteq Known /\ (Past(to) => "PREPAYMENT" \in credited)
    BY <1>sv, <1>k, <2>1, UnpaidStages, NothingBeforeTheFirst DEF Resumable, Before
  <2>4. OnlyChecklist /\ stage # "ON_HOLD" /\ Past(to) => "PREPAYMENT" \in credited
    BY <1>sv, <1>k, <2>1, EdgesPastAMark DEF Past, AtOrPast, SYSTEM_ONLY_TARGETS
  <2>5. OnlyChecklist => StandsOnTheTrail(q)'
    BY <1>sv, <1>k, <2>1, <2>2, <2>3, <2>4 DEF StandsOnTheTrail, Known, Before, Past, AtOrPast, Ahead
  <2> QED
    BY <1>sv, <2>1, <2>2, <2>5, ReadsKeepChecklistInv DEF caseVars
<1>2. ASSUME NEW q \in Requests, ChecklistResolved(q)
      PROVE  ChecklistInv'
  <2>1. /\ req' = [req EXCEPT ![q] = [phase |-> "resolved", from |-> stage, to |-> "DOCUMENTS"]]
        /\ UNCHANGED <<service, stage, visited, credited>>
        /\ stage = "PREPAYMENT_PAID"
    BY <1>2 DEF ChecklistResolved, caseVars, moneyVars
  <2>2. req'[q] = [phase |-> "resolved", from |-> stage, to |-> "DOCUMENTS"]
    BY <1>sv, <2>1
  <2>3. OnlyChecklist => StandsOnTheTrail(q)'
    BY <1>k, <2>1, <2>2 DEF StandsOnTheTrail, Known, FirstStage
  <2> QED
    BY <1>sv, <2>1, <2>2, <2>3, ReadsKeepChecklistInv DEF caseVars
<1>3. ASSUME NEW q \in Requests, NEW to \in Events[service], DomainRead(q, to)
      PROVE  ChecklistInv'
  <2>1. /\ \/ req' = [req EXCEPT ![q] = Idle]
           \/ req' = [req EXCEPT ![q] = [phase |-> "write", from |-> stage, to |-> to]]
        /\ UNCHANGED <<service, stage, visited, credited>>
        /\ to = "DOCUMENTS" => req[q].phase = "resolved"
    BY <1>3 DEF DomainRead, caseVars, moneyVars
  <2>2. req'[q] \in {Idle, [phase |-> "write", from |-> stage, to |-> to]}
        /\ req' = [req EXCEPT ![q] = req'[q]]
    BY <1>sv, <2>1
  <2>3. OnlyChecklist => to = "DOCUMENTS" /\ "PREPAYMENT_PAID" \in visited
    BY <1>k, <2>1 DEF OnlyChecklist, StandsOnTheTrail
  <2>4. OnlyChecklist => Before(to) \subseteq Known /\ "PREPAYMENT" \in credited
    BY <1>sv, <1>k, <1>p, <2>3, BeforeDocuments
  <2>5. OnlyChecklist => StandsOnTheTrail(q)'
    BY <1>k, <2>1, <2>2, <2>4 DEF StandsOnTheTrail, Idle, Known, Before, Past, AtOrPast, Ahead
  <2> QED
    BY <1>sv, <2>1, <2>2, <2>5, ReadsKeepChecklistInv DEF caseVars
<1>4. ASSUME NEW q \in Requests, SweepRead(q)
      PROVE  ChecklistInv'
  <2>1. /\ req' = [req EXCEPT ![q] = [phase |-> "write", from |-> stage, to |-> "CANCELLED"]]
        /\ UNCHANGED <<service, stage, visited, credited>>
        /\ stage \in PRE_PREPAYMENT_STAGES
    BY <1>4 DEF SweepRead, caseVars, moneyVars
  <2>2. req'[q] = [phase |-> "write", from |-> stage, to |-> "CANCELLED"]
    BY <1>sv, <2>1
  <2>3. ~ Past("CANCELLED") /\ stage # "ON_HOLD"
    BY <1>sv, <2>1, UnpaidStages DEF ESCAPE_STAGES, PRE_PREPAYMENT_STAGES
  <2>4. OnlyChecklist => StandsOnTheTrail(q)'
    BY <1>k, <2>1, <2>2, <2>3 DEF StandsOnTheTrail, Known, Past, AtOrPast, Ahead
  <2> QED
    BY <1>sv, <2>1, <2>2, <2>4, ReadsKeepChecklistInv DEF caseVars
<1>5. ASSUME NEW q \in Requests, Write(q)
      PROVE  ChecklistInv'
  <2>1. req' = [req EXCEPT ![q] = Idle] /\ UNCHANGED moneyVars /\ req[q].phase = "write"
    BY <1>5 DEF Write, Finish
  <2>2. \A p \in Requests : req'[p] \in {req[p], Idle}
    BY <1>sv, <2>1
  <2>3. CASE stage = req[q].from
    <3>1. stage' = req[q].to /\ visited' = visited \cup Hops(q)
      BY <1>5, <2>3 DEF Write, Move
    <3>2. \/ Edge(service, stage, req[q].to) /\ Hops(q) = {req[q].to}
          \/ Ahead(service, stage, req[q].to)
             /\ Hops(q) = mainLineForward(service, stage, req[q].to)
      BY <2>1, <2>3 DEF IInv, WritesFollowTheFlow, Hops
    <3>3. OnlyChecklist =>
            /\ stage = "ON_HOLD" => Before(req[q].to) \subseteq Known
            /\ Past(req[q].to) => "PREPAYMENT" \in credited
      BY <1>k, <2>1, <2>3 DEF StandsOnTheTrail
    <3> QED
      BY <1>sv, <2>1, <2>2, <3>1, <3>2, <3>3, MovesKeepChecklistInv
  <2>4. CASE stage # req[q].from
    <3>1. UNCHANGED caseVars /\ req'[q] = Idle /\ credited' = credited
      BY <1>5, <1>sv, <2>1, <2>4 DEF Write, moneyVars
    <3>2. StandsOnTheTrail(q)'
      BY <3>1 DEF StandsOnTheTrail, Idle
    <3> QED
      BY <1>sv, <2>1, <3>1, <3>2, ReadsKeepChecklistInv
  <2> QED
    BY <2>3, <2>4
<1>6. ASSUME NEW q \in Requests, NEW kind \in Kinds, Confirm(q, kind)
      PROVE  ChecklistInv'
  <2>1. /\ req' = [req EXCEPT ![q] =
             [phase |-> "progress", from |-> FirstStage, to |-> PROGRESS_TARGET[kind]]]
        /\ UNCHANGED <<service, stage, visited>> /\ credited' = credited \cup {kind}
    BY <1>6 DEF Confirm, caseVars
  <2>2. req'[q] = [phase |-> "progress", from |-> FirstStage, to |-> PROGRESS_TARGET[kind]]
    BY <1>sv, <2>1
  <2>3. StandsOnTheTrail(q)'
    BY <2>1, <2>2 DEF StandsOnTheTrail
  <2> QED
    BY <1>sv, <2>1, <2>2, <2>3, ReadsKeepChecklistInv DEF caseVars
<1>7. ASSUME NEW q \in Requests, Progress(q)
      PROVE  ChecklistInv'
  <2>1. req' = [req EXCEPT ![q] = Idle] /\ UNCHANGED moneyVars /\ req[q].phase = "progress"
    BY <1>7 DEF Progress, Finish
  <2>2. \A p \in Requests : req'[p] \in {req[p], Idle}
    BY <1>sv, <2>1
  <2>3. CASE SystemEdge(service, stage, req[q].to)
    <3>1. stage' = req[q].to /\ visited' = visited \cup {req[q].to}
      BY <1>7, <2>3 DEF Progress, Move
    <3>2. Edge(service, stage, req[q].to) /\ req[q].to \in SYSTEM_ONLY_TARGETS
      BY <2>3 DEF SystemEdge
    <3>3. OnlyChecklist /\ Past(req[q].to) => "PREPAYMENT" \in credited
      <4> SUFFICES ASSUME OnlyChecklist, Past(req[q].to)
                   PROVE  "PREPAYMENT" \in credited
        OBVIOUS
      <4>1. PICK kind \in Kinds : req[q].to = PROGRESS_TARGET[kind] /\ kind \in credited
        BY <1>k, <2>1 DEF StandsOnTheTrail
      <4>2. CASE kind = "PREPAYMENT"
        BY <4>1, <4>2
      <4>3. CASE kind = "BALANCE"
        <5>1. req[q].to = "BALANCE_PAID"
          BY <4>1, <4>3 DEF PROGRESS_TARGET, Kinds
        <5>2. Ahead(service, "PREPAYMENT_PAID", req[q].to) /\ stage # "ON_HOLD"
          <6>1. stage \in MainLine(service)
            BY <1>sv, <3>2, <5>1, LinesHaveNoEscape, RowsLeadToTheNext DEF MainLine, StagesOnLine
          <6> QED
            BY <1>sv, <5>1, <6>1, LinesHaveNoEscape DEF Past, AtOrPast, ESCAPE_STAGES
        <5>3. Past(stage)
          BY <1>sv, <3>2, <5>2, EdgesPastAMark DEF Past, AtOrPast
        <5> QED
          BY <1>k, <5>3
      <4> QED
        BY <4>2, <4>3 DEF Kinds
    <3> QED
      BY <1>sv, <2>1, <2>2, <3>1, <3>2, <3>3, MovesKeepChecklistInv
  <2>4. CASE ~ SystemEdge(service, stage, req[q].to)
    <3>1. UNCHANGED caseVars /\ req'[q] = Idle /\ credited' = credited
      BY <1>7, <1>sv, <2>1, <2>4 DEF Progress, moneyVars
    <3>2. StandsOnTheTrail(q)'
      BY <3>1 DEF StandsOnTheTrail, Idle
    <3> QED
      BY <1>sv, <2>1, <3>1, <3>2, ReadsKeepChecklistInv
  <2> QED
    BY <2>3, <2>4
<1>8. ASSUME NEW q \in Requests, Crash(q)
      PROVE  ChecklistInv'
  <2>1. /\ req' = [req EXCEPT ![q] = Idle] /\ UNCHANGED caseVars /\ credited' = credited
        /\ req'[q] = Idle
    BY <1>8, <1>sv DEF Crash, Finish, moneyVars
  <2>2. StandsOnTheTrail(q)'
    BY <2>1 DEF StandsOnTheTrail, Idle
  <2> QED
    BY <1>sv, <2>1, <2>2, ReadsKeepChecklistInv
<1>9. CASE Sign
  <2>1. /\ Edge(service, stage, "CONTRACT_SIGNED") /\ "CONTRACT_SIGNED" \in SYSTEM_ONLY_TARGETS
        /\ stage' = "CONTRACT_SIGNED" /\ visited' = visited \cup {"CONTRACT_SIGNED"}
        /\ UNCHANGED moneyVars /\ req' = req
    BY <1>9 DEF Sign, Move, SystemEdge
  <2>2. ~ Past("CONTRACT_SIGNED")
    BY <1>sv, UnpaidStages
  <2> QED
    BY <1>sv, <2>1, <2>2, MovesKeepChecklistInv
<1>10. ASSUME NEW kind \in Kinds, RaiseInvoice(kind) \/ RetireInvoice(kind)
       PROVE  ChecklistInv'
  <2>1. UNCHANGED <<service, stage, visited, credited, req>>
    BY <1>10 DEF RaiseInvoice, RetireInvoice, caseVars
  <2> QED
    BY <2>1 DEF ChecklistInv, OnlyChecklist, TrailIsComplete, StandsOnTheTrail, Known, Before,
        Past, AtOrPast, Ahead
<1> QED
  BY <1>1, <1>2, <1>3, <1>4, <1>5, <1>6, <1>7, <1>8, <1>9, <1>10 DEF Next

(* A case just opened: nothing is known of it but its first stage.         *)
LEMMA InitChecklistInv == Init => ChecklistInv
<1> SUFFICES ASSUME Init PROVE ChecklistInv
  OBVIOUS
<1>1. service \in ServiceType
  BY ServicesAssumption DEF Init
<1>2. ~ Past(FirstStage)
  BY <1>1, UnpaidStages
<1> QED
  BY <1>2 DEF Init, ChecklistInv, TrailIsComplete, StandsOnTheTrail, Idle

(* However the requests overlap.                                           *)
THEOREM ChecklistInvariance == Spec => []ChecklistInv
<1>1. IInv /\ ChecklistInv /\ [Next]_vars => ChecklistInv'
  <2>1. ChecklistInv /\ UNCHANGED vars => ChecklistInv'
    BY DEF vars, caseVars, moneyVars, ChecklistInv, OnlyChecklist, TrailIsComplete,
       StandsOnTheTrail, Known, Before, Past, AtOrPast, Ahead
  <2> QED
    BY <2>1, NextChecklistInv
<1> QED
  BY <1>1, InitChecklistInv, Invariance, PTL DEF Spec

(* While the checklist is the only event, nobody is past the prepayment    *)
(* unpaid.                                                                 *)
THEOREM ChecklistMovesNoUnpaidCaseHolds == Spec => []ChecklistMovesNoUnpaidCase
<1>1. ChecklistInv => ChecklistMovesNoUnpaidCase
  BY DEF ChecklistInv, ChecklistMovesNoUnpaidCase, PastPrepaymentIsPaid, Past
<1> QED
  BY <1>1, ChecklistInvariance, PTL

(* While the checklist is the only event, the trail skips no stage.        *)
THEOREM ChecklistLeavesNoGapHolds == Spec => []ChecklistLeavesNoGap
<1>1. ChecklistInv => ChecklistLeavesNoGap
  BY DEF ChecklistInv, ChecklistLeavesNoGap
<1> QED
  BY <1>1, ChecklistInvariance, PTL

-----------------------------------------------------------------------------
(* CaseLifecycle implements CaseDesk.                                      *)

(* What a request read still entitles it to its move when it writes, if    *)
(* the case has not left the stage: rows never change, and neither the     *)
(* trail nor the credits lose what they have.                              *)
StaffMay(r) ==
  /\ StaffEdge(service, r.from, r.to)
  /\ r.from = "ON_HOLD" => r.to \in Known
EventMay(r) ==
  /\ r.to \in Events[service] /\ r.to # r.from
  /\ Edge(service, r.from, r.to) \/ Ahead(service, r.from, r.to)
  /\ r.to = "DOCUMENTS" => "PREPAYMENT_PAID" \in visited
Entitled(r) ==
  /\ r.phase = "resolved" => "PREPAYMENT_PAID" \in visited
  /\ r.phase = "write" => StaffMay(r) \/ EventMay(r)
  /\ r.phase = "progress" => \E kind \in credited : r.to = PROGRESS_TARGET[kind]

DeskInv ==
  /\ stage \in Known
  /\ open # {} => signed
  /\ \A q \in Requests : Entitled(req[q])

(* No row and no stretch of a line leads back to where it starts.          *)
LEMMA NoLoops ==
  ASSUME NEW sv \in ServiceType, NEW s, Edge(sv, s, s) \/ Ahead(sv, s, s)
  PROVE  FALSE
<1>1. ~ Ahead(sv, s, s)
  <2> SUFFICES ASSUME NEW i \in DOMAIN CASE_FLOWS[sv], NEW j \in DOMAIN CASE_FLOWS[sv], i < j,
                      CASE_FLOWS[sv][i] = CASE_FLOWS[sv][j]
               PROVE  FALSE
    BY AheadByPosition
  <2>1. i = j
    BY LinesAreInjective
  <2> QED
    BY <2>1, DomainIsInterval
<1> QED
  BY <1>1, EdgeKinds, LinesHaveNoEscape DEF ESCAPE_STAGES

(* Every row leads to a stage there is.                                    *)
LEMMA StagesAreKnown ==
  ASSUME NEW sv \in ServiceType, NEW f, NEW t, Edge(sv, f, t)
  PROVE  t \in CaseStage
<1>1. \A i \in DOMAIN CASE_FLOWS[sv] : CASE_FLOWS[sv][i] \in CaseStage
  BY SMTT(30) DEF CaseStage, CASE_FLOWS, REGULAR_BASE, GKS_BASE, TAIL, ServiceType
<1>2. MainLine(sv) \subseteq CaseStage
  BY <1>1 DEF MainLine, StagesOnLine
<1> QED
  BY <1>2, EdgeKinds, AheadOnMainLine DEF CaseStage

(* A case is moved by who is entitled to it, to a stage that differs from  *)
(* the one it stands at and is put on the trail.                           *)
Entering(to, hops) == /\ stage' = to /\ visited' = visited \cup hops /\ to \in hops
                      /\ to # stage

(* The writes of a request as moves.                                       *)
LEMMA WriteMoves ==
  ASSUME IInv, DeskInv, NEW q \in Requests, Write(q)
  PROVE  \/ UNCHANGED caseVars
         \/ /\ StaffEdge(service, stage, req[q].to) /\ (stage = "ON_HOLD" => req[q].to \in Known)
            /\ Entering(req[q].to, {req[q].to})
         \/ /\ req[q].to \in Events[service]
            /\ req[q].to = "DOCUMENTS" => "PREPAYMENT_PAID" \in visited
            /\ Edge(service, stage, req[q].to) \/ Ahead(service, stage, req[q].to)
            /\ Entering(req[q].to, IF Edge(service, stage, req[q].to) THEN {req[q].to}
                                   ELSE mainLineForward(service, stage, req[q].to))
<1> SUFFICES ASSUME ~ UNCHANGED caseVars
             PROVE  \/ /\ StaffEdge(service, stage, req[q].to)
                       /\ stage = "ON_HOLD" => req[q].to \in Known
                       /\ Entering(req[q].to, {req[q].to})
                    \/ /\ req[q].to \in Events[service]
                       /\ req[q].to = "DOCUMENTS" => "PREPAYMENT_PAID" \in visited
                       /\ Edge(service, stage, req[q].to) \/ Ahead(service, stage, req[q].to)
                       /\ Entering(req[q].to, IF Edge(service, stage, req[q].to) THEN {req[q].to}
                                              ELSE mainLineForward(service, stage, req[q].to))
  OBVIOUS
<1>1. /\ req[q].phase = "write" /\ stage = req[q].from /\ stage' = req[q].to
      /\ visited' = visited \cup Hops(q) /\ service \in ServiceType
  BY ServicesAssumption DEF Write, Move, IInv, TypeOK
<1>2. StaffMay(req[q]) \/ EventMay(req[q])
  BY <1>1 DEF DeskInv, Entitled
<1>3. Edge(service, stage, req[q].to) \/ Ahead(service, stage, req[q].to)
  BY <1>1, <1>2 DEF StaffMay, EventMay, StaffEdge
<1>4. req[q].to # stage
  BY <1>1, <1>3, NoLoops
<1>5. /\ Hops(q) = IF Edge(service, stage, req[q].to) THEN {req[q].to}
                   ELSE mainLineForward(service, stage, req[q].to)
      /\ req[q].to \in Hops(q)
  <2>1. ~ Edge(service, stage, req[q].to) => req[q].to \in mainLineForward(service, stage, req[q].to)
    BY <1>1, <1>3, AheadOnMainLine DEF mainLineForward
  <2> QED
    BY <1>1, <2>1 DEF Hops
<1>6. CASE StaffMay(req[q])
  BY <1>1, <1>4, <1>5, <1>6 DEF StaffMay, StaffEdge, Entering
<1>7. CASE EventMay(req[q])
  BY <1>1, <1>3, <1>4, <1>5, <1>7 DEF EventMay, Entering
<1> QED
  BY <1>2, <1>6, <1>7

(* The moves the system makes.                                             *)
LEMMA SystemMoves ==
  ASSUME IInv, DeskInv
  PROVE  /\ Sign => /\ Edge(service, stage, "CONTRACT_SIGNED")
                    /\ Entering("CONTRACT_SIGNED", {"CONTRACT_SIGNED"})
         /\ \A q \in Requests : Progress(q) =>
              \/ UNCHANGED caseVars
              \/ \E kind \in credited :
                    /\ Edge(service, stage, PROGRESS_TARGET[kind])
                    /\ Entering(PROGRESS_TARGET[kind], {PROGRESS_TARGET[kind]})
<1>1. service \in ServiceType
  BY ServicesAssumption DEF IInv, TypeOK
<1>2. ASSUME Sign
      PROVE  /\ Edge(service, stage, "CONTRACT_SIGNED")
             /\ Entering("CONTRACT_SIGNED", {"CONTRACT_SIGNED"})
  BY <1>1, <1>2, NoLoops DEF Sign, Move, SystemEdge, Entering
<1>3. ASSUME NEW q \in Requests, Progress(q), ~ UNCHANGED caseVars
      PROVE  \E kind \in credited :
                /\ Edge(service, stage, PROGRESS_TARGET[kind])
                /\ Entering(PROGRESS_TARGET[kind], {PROGRESS_TARGET[kind]})
  <2>1. PICK kind \in credited : req[q].to = PROGRESS_TARGET[kind]
    BY <1>3 DEF Progress, DeskInv, Entitled
  <2>2. Edge(service, stage, req[q].to) /\ stage' = req[q].to /\ visited' = visited \cup {req[q].to}
    BY <1>3 DEF Progress, Move, SystemEdge
  <2>3. req[q].to # stage
    BY <1>1, <2>2, NoLoops
  <2> QED
    BY <2>1, <2>2, <2>3 DEF Entering
<1> QED
  BY <1>2, <1>3

(* What a request is entitled to it stays entitled to.                     *)
LEMMA EntitledForLong ==
  ASSUME service' = service, visited \subseteq visited', credited \subseteq credited', NEW r,
         Entitled(r)
  PROVE  Entitled(r)'
BY DEF Entitled, StaffMay, EventMay, Known, StaffEdge, Edge, Ahead

(* The case is at the first stage or at one of its trail, nothing is open  *)
(* before the contract is signed, and a request writes what it may.        *)
LEMMA NextDeskInv == IInv /\ DeskInv /\ Next => DeskInv'
<1> SUFFICES ASSUME IInv, DeskInv, Next
             PROVE  DeskInv'
  OBVIOUS
<1>1. service \in ServiceType /\ service' = service
  BY ServicesAssumption DEF IInv, TypeOK, Next, StaffRead, ChecklistResolved, DomainRead,
     SweepRead, Write, Confirm, Progress, Crash, Sign, RaiseInvoice, RetireInvoice
<1>2. ASSUME NEW q \in Requests, NEW r, req' = [req EXCEPT ![q] = r], Entitled(r)',
             visited \subseteq visited', credited \subseteq credited',
             stage' \in Known', open' # {} => signed'
      PROVE  DeskInv'
  <2>1. \A p \in Requests : Entitled(req[p])'
    BY <1>1, <1>2, EntitledForLong DEF DeskInv
  <2> QED
    BY <1>2, <2>1 DEF DeskInv, IInv, TypeOK
<1>3. Entitled(Idle)'
  BY DEF Entitled, Idle
<1>4. ASSUME NEW q \in Requests, NEW r, req' = [req EXCEPT ![q] = r], Entitled(r)',
             UNCHANGED <<stage, visited, signed, open, credited>>
      PROVE  DeskInv'
  BY <1>2, <1>4 DEF DeskInv, Known
<1>5. ASSUME NEW q \in Requests, NEW to \in CaseStage, StaffRead(q, to)
      PROVE  DeskInv'
  <2>0. PICK r : r = [phase |-> "write", from |-> stage, to |-> to]
    OBVIOUS
  <2>1. req' = [req EXCEPT ![q] = r] /\ UNCHANGED <<stage, visited, signed, open, credited>>
    BY <1>5, <2>0 DEF StaffRead, caseVars, moneyVars
  <2>2. StaffMay(r)
    BY <1>5, <2>0 DEF StaffRead, StaffMay, Resumable, Known
  <2>3. Entitled(r)
    BY <2>0, <2>2 DEF Entitled
  <2>4. Entitled(r)'
    BY <1>1, <2>1, <2>3 DEF Entitled, StaffMay, EventMay, Known, StaffEdge, Edge, Ahead
  <2> QED
    BY <1>4, <2>1, <2>4
<1>6. ASSUME NEW q \in Requests, ChecklistResolved(q)
      PROVE  DeskInv'
  <2>0. PICK r : r = [phase |-> "resolved", from |-> stage, to |-> "DOCUMENTS"]
    OBVIOUS
  <2>1. /\ req' = [req EXCEPT ![q] = r] /\ UNCHANGED <<stage, visited, signed, open, credited>>
        /\ stage = "PREPAYMENT_PAID"
    BY <1>6, <2>0 DEF ChecklistResolved, caseVars, moneyVars
  <2>2. "PREPAYMENT_PAID" \in visited
    BY <2>1 DEF DeskInv, Known, FirstStage
  <2>3. Entitled(r)'
    BY <2>0, <2>1, <2>2 DEF Entitled
  <2> QED
    BY <1>4, <2>1, <2>3
<1>7. ASSUME NEW q \in Requests, NEW to \in Events[service], DomainRead(q, to)
      PROVE  DeskInv'
  <2> DEFINE goes == stage # to /\ (Edge(service, stage, to) \/ Ahead(service, stage, to))
  <2>0. PICK r : r = IF goes THEN [phase |-> "write", from |-> stage, to |-> to] ELSE Idle
    OBVIOUS
  <2>1. req' = [req EXCEPT ![q] = r] /\ UNCHANGED <<stage, visited, signed, open, credited>>
    BY <1>7, <2>0 DEF DomainRead, caseVars, moneyVars
  <2>2. to = "DOCUMENTS" => "PREPAYMENT_PAID" \in visited
    BY <1>7 DEF DomainRead, DeskInv, Entitled
  <2>3. goes => EventMay(r)
    BY <2>0, <2>2 DEF EventMay
  <2>4. Entitled(r)'
    BY <1>1, <1>3, <2>0, <2>1, <2>3 DEF Entitled, EventMay, Edge, Ahead
  <2> QED
    BY <1>4, <2>1, <2>4
<1>8. ASSUME NEW q \in Requests, SweepRead(q)
      PROVE  DeskInv'
  <2>0. PICK r : r = [phase |-> "write", from |-> stage, to |-> "CANCELLED"]
    OBVIOUS
  <2>1. /\ req' = [req EXCEPT ![q] = r] /\ UNCHANGED <<stage, visited, signed, open, credited>>
        /\ stage \in PRE_PREPAYMENT_STAGES
    BY <1>8, <2>0 DEF SweepRead, caseVars, moneyVars
  <2>2. StaffEdge(service, stage, "CANCELLED") /\ stage # "ON_HOLD"
    <3>1. stage \in MainLine(service) \ {"COMPLETED"} /\ stage # "ON_HOLD"
      BY <1>1, <2>1, LinesHaveNoEscape DEF PRE_PREPAYMENT_STAGES, FirstStage
    <3> QED
      BY <1>1, <3>1 DEF StaffEdge, Edge, CaseFlowDefinition, EscapeEdges, ESCAPE_STAGES,
         SYSTEM_ONLY_TARGETS
  <2>3. StaffMay(r)
    BY <2>0, <2>2 DEF StaffMay
  <2>4. Entitled(r)'
    BY <1>1, <2>0, <2>1, <2>3 DEF Entitled, StaffMay, Known, StaffEdge, Edge, Ahead
  <2> QED
    BY <1>4, <2>1, <2>4
<1>9. ASSUME NEW q \in Requests, Write(q)
      PROVE  DeskInv'
  <2>1. req' = [req EXCEPT ![q] = Idle] /\ UNCHANGED <<signed, open, credited>>
    BY <1>9 DEF Write, Finish, moneyVars
  <2>2. visited \subseteq visited' /\ stage' \in Known'
    BY <1>9, WriteMoves DEF Entering, Known, caseVars, DeskInv
  <2> QED
    BY <1>2, <1>3, <2>1, <2>2 DEF DeskInv
<1>10. ASSUME NEW q \in Requests, NEW kind \in Kinds, Confirm(q, kind)
       PROVE  DeskInv'
  <2>0. PICK r : r = [phase |-> "progress", from |-> FirstStage, to |-> PROGRESS_TARGET[kind]]
    OBVIOUS
  <2>1. /\ req' = [req EXCEPT ![q] = r] /\ UNCHANGED <<stage, visited, signed>>
        /\ credited' = credited \cup {kind} /\ kind \in open
    BY <1>10, <2>0 DEF Confirm, caseVars
  <2>2. Entitled(r)'
    BY <2>0, <2>1 DEF Entitled
  <2> QED
    BY <1>2, <2>1, <2>2 DEF DeskInv, Known
<1>11. ASSUME NEW q \in Requests, Progress(q)
       PROVE  DeskInv'
  <2>1. req' = [req EXCEPT ![q] = Idle] /\ UNCHANGED <<signed, open, credited>>
    BY <1>11 DEF Progress, Finish, moneyVars
  <2>2. visited \subseteq visited' /\ stage' \in Known'
    BY <1>11, SystemMoves DEF Entering, Known, caseVars, DeskInv
  <2> QED
    BY <1>2, <1>3, <2>1, <2>2 DEF DeskInv
<1>12. ASSUME NEW q \in Requests, Crash(q)
       PROVE  DeskInv'
  <2>1. req' = [req EXCEPT ![q] = Idle] /\ UNCHANGED <<stage, visited, signed, open, credited>>
    BY <1>12 DEF Crash, Finish, caseVars, moneyVars
  <2> QED
    BY <1>3, <1>4, <2>1
<1>13. ASSUME Sign \/ \E kind \in Kinds : RaiseInvoice(kind) \/ RetireInvoice(kind)
       PROVE  DeskInv'
  <2>1. req' = req /\ credited' = credited /\ (open' # {} => signed')
    BY <1>13 DEF Sign, RaiseInvoice, RetireInvoice, moneyVars, DeskInv
  <2>2. visited \subseteq visited' /\ stage' \in Known'
    BY <1>13, SystemMoves DEF RaiseInvoice, RetireInvoice, Entering, Known, caseVars, DeskInv
  <2>3. \A p \in Requests : Entitled(req[p])'
    BY <1>1, <2>1, <2>2, EntitledForLong DEF DeskInv
  <2> QED
    BY <2>1, <2>2, <2>3 DEF DeskInv
<1> QED
  BY <1>5, <1>6, <1>7, <1>8, <1>9, <1>10, <1>11, <1>12, <1>13 DEF Next

(* The invariant the desk rests on.                                        *)
THEOREM DeskInvariance == Spec => []DeskInv
<1>1. Init => DeskInv
  BY DEF Init, DeskInv, Known, Entitled, Idle
<1>2. IInv /\ DeskInv /\ [Next]_vars => DeskInv'
  <2>1. DeskInv /\ UNCHANGED vars => DeskInv'
    BY DEF vars, caseVars, moneyVars, DeskInv, Known, Entitled, StaffMay, EventMay, StaffEdge,
       Edge, Ahead
  <2> QED
    BY <2>1, NextDeskInv
<1> QED
  BY <1>1, <1>2, Invariance, PTL DEF Spec

(* Every step is a step at the desk or leaves the case, its trail, the     *)
(* signature and the credits alone.                                        *)
LEMMA NextIsDeskStep ==
  ASSUME IInv, DeskInv, [Next]_vars
  PROVE  [Desk!DeskNext]_(Desk!desk)
<1>1. \A to : Desk!Row(to) <=> Edge(service, stage, to)
  BY DEF Desk!Row, Edge
<1>2. \A to : Desk!Gap(to) = mainLineForward(service, stage, to)
  BY DEF Desk!Gap, Desk!Later, mainLineForward, MainLine, Ahead
<1>3. \A to : Desk!Later(stage, to) <=> Ahead(service, stage, to)
  BY DEF Desk!Later, Ahead
<1>4. service \in ServiceType /\ DOMAIN PROGRESS_TARGET = Kinds /\ credited \subseteq Kinds
  BY ServicesAssumption DEF IInv, TypeOK, PROGRESS_TARGET
<1>5. ASSUME NEW q \in Requests, Write(q)
      PROVE  [Desk!DeskNext]_(Desk!desk)
  <2>1. UNCHANGED <<service, signed, credited>>
    BY <1>5 DEF Write, moneyVars
  <2>2. CASE UNCHANGED caseVars
    BY <2>1, <2>2 DEF caseVars, Desk!desk
  <2>3. CASE /\ StaffEdge(service, stage, req[q].to) /\ (stage = "ON_HOLD" => req[q].to \in Known)
             /\ Entering(req[q].to, {req[q].to})
    <3>1. req[q].to \in CaseStage
      BY <1>4, <2>3, StagesAreKnown DEF StaffEdge
    <3>2. Desk!StaffMoves(req[q].to) /\ stage' # stage
      BY <1>1, <2>1, <2>3 DEF Desk!StaffMoves, Desk!Goes, StaffEdge, Entering, Known
    <3> QED
      BY <3>1, <3>2 DEF Desk!DeskNext, Desk!Moves
  <2>4. CASE /\ req[q].to \in Events[service]
             /\ req[q].to = "DOCUMENTS" => "PREPAYMENT_PAID" \in visited
             /\ Edge(service, stage, req[q].to) \/ Ahead(service, stage, req[q].to)
             /\ Entering(req[q].to, IF Edge(service, stage, req[q].to) THEN {req[q].to}
                                    ELSE mainLineForward(service, stage, req[q].to))
    <3>1. Desk!EventMoves(req[q].to) /\ stage' # stage
      BY <1>1, <1>2, <1>3, <2>1, <2>4 DEF Desk!EventMoves, Desk!Goes, Entering
    <3> QED
      BY <2>4, <3>1 DEF Desk!DeskNext, Desk!Moves
  <2> QED
    BY <1>5, <2>2, <2>3, <2>4, WriteMoves
<1>6. ASSUME NEW q \in Requests, Progress(q)
      PROVE  [Desk!DeskNext]_(Desk!desk)
  <2>1. UNCHANGED <<service, signed, credited>>
    BY <1>6 DEF Progress, moneyVars
  <2>2. CASE UNCHANGED caseVars
    BY <2>1, <2>2 DEF caseVars, Desk!desk
  <2>3. CASE \E kind \in credited :
                /\ Edge(service, stage, PROGRESS_TARGET[kind])
                /\ Entering(PROGRESS_TARGET[kind], {PROGRESS_TARGET[kind]})
    <3>1. PICK kind \in credited :
                /\ Edge(service, stage, PROGRESS_TARGET[kind])
                /\ Entering(PROGRESS_TARGET[kind], {PROGRESS_TARGET[kind]})
      BY <2>3
    <3>2. Desk!Unlocks(kind) /\ stage' # stage /\ kind \in DOMAIN PROGRESS_TARGET
      BY <1>1, <1>4, <2>1, <3>1 DEF Desk!Unlocks, Desk!Goes, Entering
    <3> QED
      BY <3>2 DEF Desk!DeskNext, Desk!Moves
  <2> QED
    BY <1>6, <2>2, <2>3, SystemMoves
<1>7. CASE Sign
  <2>1. Desk!Signs /\ stage' # stage
    BY <1>1, <1>7, SystemMoves DEF Sign, moneyVars, Desk!Signs, Desk!Goes, Entering
  <2> QED
    BY <2>1 DEF Desk!DeskNext, Desk!Moves
<1>8. ASSUME NEW q \in Requests, NEW kind \in Kinds, Confirm(q, kind)
      PROVE  [Desk!DeskNext]_(Desk!desk)
  <2>1. Desk!Pays(kind)
    BY <1>8 DEF Confirm, caseVars, DeskInv, Desk!Pays
  <2> QED
    BY <1>4, <2>1 DEF Desk!DeskNext
<1>9. CASE UNCHANGED <<service, stage, visited, signed, credited>>
  BY <1>9 DEF Desk!desk
<1> QED
  BY <1>5, <1>6, <1>7, <1>8, <1>9 DEF Next, StaffRead, ChecklistResolved, DomainRead, SweepRead,
     Crash, RaiseInvoice, RetireInvoice, vars, caseVars, moneyVars

(* Whatever overlaps on a case, its stage, trail, signature and credits    *)
(* are those of a case at the desk: the conditional write of               *)
(* writeTransition makes reading, deciding and writing one step.           *)
THEOREM DeskIsKept == Spec => KeepsToTheDesk
<1>1. Init => Desk!DeskInit
  BY DEF Init, Desk!DeskInit
<1>2. IInv /\ DeskInv /\ [Next]_vars => [Desk!DeskNext]_(Desk!desk)
  BY NextIsDeskStep
<1> QED
  BY <1>1, <1>2, Invariance, DeskInvariance, PTL DEF Spec, KeepsToTheDesk, Desk!DeskSpec
=============================================================================
