-------------------------- MODULE Contracts_proofs --------------------------
(***************************************************************************)
(* What holds of Contracts for every set of requests, versions, codes and  *)
(* moves of staff, and for each service.  The invariant adds to the        *)
(* properties what a handler in flight relies on: that the contract it has *)
(* seen exists, that the text it carries is one, that its code was issued  *)
(* and its mail sent.                                                      *)
(***************************************************************************)
EXTENDS Contracts, TLAPS

(* The case has got to the signature, or past it.                          *)
Signed(s) == s = "CONTRACT_SIGNED" \/ Ahead(Service, "CONTRACT_SIGNED", s)

(* What the handler q has seen, and still holds.                           *)
Relies(q) ==
  /\ req[q].step \in {"insert", "rewrite", "finalize"} => req[q].text # None
  /\ req[q].step \in {"rewrite", "change", "issue", "mail", "accept", "compare",
                      "spend", "render", "finalize"} => contract.status # "ABSENT"
  /\ req[q].step = "mail" => req[q].code \in issued
  /\ req[q].step = "accept" => mailed # {}

(* A contract has a text.                                                  *)
HasText == contract.status # "ABSENT" => contract.body # None

IInv ==
  /\ TypeOK /\ SignedIsArchived /\ AcceptedIsMailed /\ HasText
  /\ \A q \in Requests : Relies(q)

-----------------------------------------------------------------------------
(* The stages of the line by position: CONTRACT_DRAFT and CONTRACT_SIGNED  *)
(* are the first two and the third is PREPAYMENT_PAID; no other position   *)
(* has one of them, and none an escape stage.                              *)
LEMMA Positions ==
  ASSUME NEW sv \in ServiceType
  PROVE  /\ DOMAIN CASE_FLOWS[sv] \subseteq Nat \ {0} /\ 1 .. 3 \subseteq DOMAIN CASE_FLOWS[sv]
         /\ \A i \in DOMAIN CASE_FLOWS[sv] :
              /\ CASE_FLOWS[sv][i] \notin ESCAPE_STAGES
              /\ CASE_FLOWS[sv][i] = FirstStage <=> i = 1
              /\ CASE_FLOWS[sv][i] = "CONTRACT_SIGNED" <=> i = 2
              /\ CASE_FLOWS[sv][i] = "PREPAYMENT_PAID" <=> i = 3
<1> USE DEF CASE_FLOWS, REGULAR_BASE, GKS_BASE, TAIL, ServiceType
<1>1. DOMAIN CASE_FLOWS[sv] \subseteq Nat \ {0}
  BY SMTT(30)
<1>2. 1 .. 3 \subseteq DOMAIN CASE_FLOWS[sv]
  BY SMTT(30)
<1>3. ASSUME NEW i \in DOMAIN CASE_FLOWS[sv]
      PROVE  CASE_FLOWS[sv][i] \notin ESCAPE_STAGES
  BY SMTT(30) DEF ESCAPE_STAGES
<1>4. ASSUME NEW i \in DOMAIN CASE_FLOWS[sv]
      PROVE  /\ CASE_FLOWS[sv][i] = FirstStage <=> i = 1
             /\ CASE_FLOWS[sv][i] = "CONTRACT_SIGNED" <=> i = 2
             /\ CASE_FLOWS[sv][i] = "PREPAYMENT_PAID" <=> i = 3
  BY SMTT(30) DEF FirstStage
<1> HIDE DEF CASE_FLOWS
<1> QED
  BY <1>1, <1>2, <1>3, <1>4

(* A position that is not the last one is followed by another.             *)
LEMMA NextPosition ==
  ASSUME NEW sv \in ServiceType, NEW i \in 1 .. Len(CASE_FLOWS[sv]) - 1
  PROVE  i \in DOMAIN CASE_FLOWS[sv] /\ i + 1 \in DOMAIN CASE_FLOWS[sv]
BY SMTT(30) DEF CASE_FLOWS, REGULAR_BASE, GKS_BASE, TAIL, ServiceType

(* `Ahead` says that the positions are in order.                           *)
LEMMA AheadByPosition ==
  ASSUME NEW sv \in ServiceType, NEW f, NEW t
  PROVE  Ahead(sv, f, t) <=>
           \E i, j \in DOMAIN CASE_FLOWS[sv] :
              i < j /\ f = CASE_FLOWS[sv][i] /\ t = CASE_FLOWS[sv][j]
BY SMTT(30) DEF Ahead, AheadOnLine, CASE_FLOWS, REGULAR_BASE, GKS_BASE, TAIL, ServiceType

(* The signature is made at every stage of the line but the first.         *)
LEMMA SignedStages ==
  /\ \A s : Signed(s) <=> s \in MainLine(Service) \ {FirstStage}
  /\ FirstStage \in MainLine(Service)
  /\ MainLine(Service) \cap ESCAPE_STAGES = {}
<1>1. ASSUME NEW s, Signed(s)
      PROVE  s \in MainLine(Service) \ {FirstStage}
  <2>1. PICK j \in DOMAIN CASE_FLOWS[Service] : j # 1 /\ s = CASE_FLOWS[Service][j]
    BY <1>1, ServiceAssumption, Positions, AheadByPosition DEF Signed
  <2> QED
    BY <2>1, ServiceAssumption, Positions DEF MainLine, StagesOnLine
<1>2. ASSUME NEW s \in MainLine(Service) \ {FirstStage}
      PROVE  Signed(s)
  <2>1. PICK j \in DOMAIN CASE_FLOWS[Service] : j # 1 /\ s = CASE_FLOWS[Service][j]
    BY ServiceAssumption, Positions DEF MainLine, StagesOnLine
  <2>2. j \in Nat \ {0} /\ 2 \in DOMAIN CASE_FLOWS[Service]
    BY ServiceAssumption, Positions
  <2>3. j = 2 \/ 2 < j
    BY <2>1, <2>2
  <2> QED
    BY <2>1, <2>2, <2>3, ServiceAssumption, Positions, AheadByPosition DEF Signed
<1>3. FirstStage \in MainLine(Service) /\ MainLine(Service) \cap ESCAPE_STAGES = {}
  BY ServiceAssumption, Positions DEF MainLine, StagesOnLine
<1> QED
  BY <1>1, <1>2, <1>3

(* The rows that lead on along the line, and those to the two stages the   *)
(* system enters first.                                                    *)
LEMMA RowsOfTheLine ==
  ASSUME NEW f, NEW t, Edge(Service, f, t)
  PROVE  /\ t \in MainLine(Service) => f \in MainLine(Service) \cup {"ON_HOLD"}
         /\ f = FirstStage /\ t \in MainLine(Service) => t = "CONTRACT_SIGNED"
         /\ t = "CONTRACT_SIGNED" => f = FirstStage
         /\ t = "PREPAYMENT_PAID" => f = "CONTRACT_SIGNED"
<1>1. CASE <<f, t>> \in MainLineEdges(Service)
  <2>1. PICK i \in 1 .. Len(CASE_FLOWS[Service]) - 1 :
          f = CASE_FLOWS[Service][i] /\ t = CASE_FLOWS[Service][i + 1]
    BY <1>1 DEF MainLineEdges
  <2>2. i \in DOMAIN CASE_FLOWS[Service] /\ i + 1 \in DOMAIN CASE_FLOWS[Service] /\ i \in Nat
    BY <2>1, ServiceAssumption, Positions, NextPosition
  <2>3. /\ i + 1 = 2 <=> i = 1
        /\ i + 1 = 3 <=> i = 2
    BY <2>2
  <2> QED
    BY <2>1, <2>2, <2>3, ServiceAssumption, Positions DEF MainLine, StagesOnLine
<1>2. CASE <<f, t>> \in EscapeEdges(Service)
  BY <1>2, SignedStages DEF EscapeEdges, ESCAPE_STAGES
<1>3. CASE <<f, t>> \in ResumeEdges(Service)
  BY <1>3, SignedStages DEF ResumeEdges, SYSTEM_ONLY_TARGETS, ESCAPE_STAGES, FirstStage
<1> QED
  BY <1>1, <1>2, <1>3, ServiceAssumption DEF Edge, CaseFlowDefinition

(* The first stage and the escape stages come before the signature or are  *)
(* off the line.                                                           *)
LEMMA UnsignedStages ==
  ASSUME NEW s \in ESCAPE_STAGES \cup {FirstStage}
  PROVE  ~ Signed(s)
BY SignedStages

(* Staff take a case past the signature only from past it.                 *)
LEMMA StaffMovesKeepTheSignature ==
  ASSUME NEW f, NEW t, StaffEdge(Service, f, t), f # "ON_HOLD", Signed(t)
  PROVE  Signed(f)
BY SignedStages, RowsOfTheLine DEF StaffEdge, SYSTEM_ONLY_TARGETS

-----------------------------------------------------------------------------
(* The states of a handler.                                                *)
Handler == [step : Steps, type : ContractType, text : Versions \cup {None},
            code : Codes \cup {None}, first : BOOLEAN]

(* A step that writes only the handler's own state keeps the invariant if  *)
(* what the handler now relies on is so.                                   *)
LEMMA ReadingIsEnough ==
  ASSUME IInv, NEW q \in Requests,
         UNCHANGED <<contract, client, issued, code, mailed, stage, invoiced>>,
         req' = [req EXCEPT ![q] = req'[q]], req'[q] \in Handler, Relies(q)'
  PROVE  IInv'
<1>1. req \in [Requests -> Handler]
  BY DEF IInv, TypeOK, Handler
<1>2. TypeOK'
  BY <1>1 DEF IInv, TypeOK, Handler
<1>3. \A p \in Requests \ {q} : req'[p] = req[p]
  BY <1>1
<1>4. \A p \in Requests \ {q} : Relies(p)'
  BY <1>3 DEF IInv, Relies
<1> QED
  BY <1>2, <1>4 DEF IInv, SignedIsArchived, AcceptedIsMailed, HasText

(* A handler that ends relies on nothing.                                  *)
LEMMA EndingIsEnough ==
  ASSUME IInv, NEW q \in Requests, Finish(q),
         UNCHANGED <<contract, client, issued, code, mailed, stage, invoiced>>
  PROVE  IInv'
<1>1. req \in [Requests -> Handler]
  BY DEF IInv, TypeOK, Handler
<1>2. Idle \in Handler
  BY DEF Idle, Handler, Steps, ContractType
<1>3. req'[q] = Idle /\ req' = [req EXCEPT ![q] = req'[q]]
  BY <1>1 DEF Finish
<1>4. Relies(q)'
  BY <1>3 DEF Relies, Idle
<1> QED
  BY <1>2, <1>3, <1>4, ReadingIsEnough

(* A handler that arrives, or whose step writes nothing but its own state. *)
LEMMA ReadingKeepsIInv ==
  ASSUME IInv, NEW q \in Requests,
         \/ \E type \in ContractType : CreateReads(q, type) \/ ChangeReads(q, type)
         \/ \E c \in Codes : SignReads(q, c)
         \/ RefreshReads(q) \/ AcceptReads(q) \/ Compare(q) \/ RegisterReads(q)
         \/ Render(q) \/ Crash(q)
  PROVE  IInv'
<1>1. UNCHANGED <<contract, client, issued, code, mailed, stage, invoiced>>
  BY DEF CreateReads, RefreshReads, ChangeReads, AcceptReads, SignReads, Compare,
         RegisterReads, Render, Crash, signing
<1>2. client \in Versions /\ client # None
  BY VersionsAssumption DEF IInv, TypeOK, None
<1>3. req \in [Requests -> Handler] /\ Relies(q) /\ contract.body \in Versions \cup {None}
  BY DEF IInv, TypeOK, Handler
<1> DEFINE Reads == /\ req' = [req EXCEPT ![q] = req'[q]] /\ req'[q] \in Handler
                    /\ Relies(q)'
<1> USE DEF Handler, Steps, ContractType, Relies, At, Idle
<1>4. ASSUME NEW type \in ContractType, CreateReads(q, type)
      PROVE  IInv'
  <2>1. Reads
    BY <1>1, <1>2, <1>3, <1>4 DEF CreateReads
  <2> QED
    BY <1>1, <2>1, ReadingIsEnough
<1>5. CASE RefreshReads(q)
  <2>1. CASE Unsigned /\ contract.body # client
    <3>1. Reads
      BY <1>1, <1>2, <1>3, <1>5, <2>1 DEF RefreshReads, Unsigned, PRE_SIGNATURE_STATUSES
    <3> QED
      BY <1>1, <3>1, ReadingIsEnough
  <2>2. CASE ~ (Unsigned /\ contract.body # client)
    BY <1>1, <1>5, <2>2, EndingIsEnough DEF RefreshReads
  <2> QED
    BY <2>1, <2>2
<1>6. ASSUME NEW type \in ContractType, ChangeReads(q, type)
      PROVE  IInv'
  <2>1. Reads
    BY <1>1, <1>2, <1>3, <1>6 DEF ChangeReads, Unsigned, PRE_SIGNATURE_STATUSES
  <2> QED
    BY <1>1, <2>1, ReadingIsEnough
<1>7. CASE AcceptReads(q)
  <2>1. Reads
    BY <1>1, <1>2, <1>3, <1>7 DEF AcceptReads, ElectronicSendable, Unsigned, PRE_SIGNATURE_STATUSES
  <2> QED
    BY <1>1, <2>1, ReadingIsEnough
<1>8. ASSUME NEW c \in Codes, SignReads(q, c)
      PROVE  IInv'
  <2>1. Reads
    BY <1>1, <1>2, <1>3, <1>8 DEF SignReads, ElectronicSendable, Unsigned, PRE_SIGNATURE_STATUSES
  <2> QED
    BY <1>1, <2>1, ReadingIsEnough
<1>9. CASE Compare(q)
  <2>1. CASE code = req[q].code
    <3>1. Reads
      BY <1>1, <1>2, <1>3, <1>9, <2>1 DEF Compare, Goto
    <3> QED
      BY <1>1, <3>1, ReadingIsEnough
  <2>2. CASE code # req[q].code
    BY <1>1, <1>9, <2>2, EndingIsEnough DEF Compare
  <2> QED
    BY <2>1, <2>2
<1>10. CASE RegisterReads(q)
  <2>1. Reads
    BY <1>1, <1>2, <1>3, <1>10 DEF RegisterReads, Goto
  <2> QED
    BY <1>1, <2>1, ReadingIsEnough
<1>11. CASE Render(q)
  <2>1. Reads
    BY <1>1, <1>2, <1>3, <1>11 DEF Render, HasText, IInv
  <2> QED
    BY <1>1, <2>1, ReadingIsEnough
<1>12. CASE Crash(q)
  BY <1>1, <1>12, EndingIsEnough DEF Crash
<1> QED
  BY <1>4, <1>5, <1>6, <1>7, <1>8, <1>9, <1>10, <1>11, <1>12

-----------------------------------------------------------------------------
(* The contract's rows.                                                    *)
Rows == [status : ContractStatus, type : ContractType, accepted : BOOLEAN,
         body : Versions \cup {None}, pdf : Versions \cup {None}]

(* No handler takes up anything new.                                       *)
Settles == req' \in [Requests -> Handler] /\ \A p \in Requests : req'[p] = req[p] \/ req'[p] = Idle

(* A handler that ends, or none that moves, takes up nothing new.          *)
LEMMA FinishSettles ==
  ASSUME IInv, (\E q \in Requests : Finish(q)) \/ UNCHANGED req
  PROVE  Settles
<1>1. req \in [Requests -> Handler]
  BY DEF IInv, TypeOK, Handler
<1>2. Idle \in Handler
  BY DEF Idle, Handler, Steps, ContractType
<1> QED
  BY <1>1, <1>2 DEF Finish, Settles

(* A write to the contract or the stage, as the handler's last step or by  *)
(* somebody else: a contract with a text stays one.                        *)
LEMMA WritingIsEnough ==
  ASSUME IInv, Settles,
         UNCHANGED <<client, issued, code, mailed>>, invoiced' \in BOOLEAN,
         stage' \in CaseStage,
         contract' = contract \/ /\ contract' \in Rows
                                 /\ contract'.status # "ABSENT" /\ contract'.body # None,
         SignedIsArchived', AcceptedIsMailed'
  PROVE  IInv'
<1>1. contract' \in Rows /\ (contract'.status = "ABSENT" => contract' = NoContract)
  BY DEF IInv, TypeOK, Rows
<1>2. /\ client' \in Versions /\ issued' \subseteq Codes /\ mailed' \subseteq issued'
      /\ code' \in issued' \cup {None}
  BY DEF IInv, TypeOK
<1>3. TypeOK'
  BY <1>1, <1>2 DEF TypeOK, Handler, Rows, Settles
<1>4. contract.status # "ABSENT" => contract'.status # "ABSENT"
  OBVIOUS
<1>5. \A p \in Requests : Relies(p)'
  BY <1>4 DEF IInv, Relies, Idle, Settles
<1>6. HasText'
  BY DEF IInv, HasText
<1> QED
  BY <1>3, <1>5, <1>6 DEF IInv

(* The insert, the later writes of the office and the client's agreement   *)
(* leave the archive and the stage alone.                                  *)
LEMMA OfficeKeepsIInv ==
  ASSUME IInv, NEW q \in Requests,
         Insert(q) \/ Rewrite(q) \/ Change(q) \/ Accept(q)
  PROVE  IInv'
<1>1. /\ UNCHANGED <<client, issued, code, mailed, stage, invoiced>> /\ Settles
      /\ stage' \in CaseStage /\ invoiced' \in BOOLEAN
  BY FinishSettles DEF IInv, TypeOK, Insert, Rewrite, Change, Accept, signing
<1>2. /\ contract \in Rows /\ req[q] \in Handler /\ Relies(q)
      /\ contract.status = "ABSENT" => contract = NoContract
  BY DEF IInv, TypeOK, Rows, Handler
<1>3. CASE Insert(q) /\ contract.status = "ABSENT"
  <2>1. contract.pdf = None /\ contract.accepted = FALSE
    BY <1>2, <1>3 DEF NoContract
  <2>2. /\ contract' \in Rows /\ contract'.status \in PRE_SIGNATURE_STATUSES
        /\ contract'.body # None /\ contract'.pdf = None /\ contract'.accepted = FALSE
    BY <1>2, <1>3 DEF Insert, At, Relies, Handler, Rows, NoContract, Waiting, ContractStatus,
       ContractType, PRE_SIGNATURE_STATUSES
  <2>3. ~ Signed(stage) /\ ~ Signed(stage')
    BY <1>1, <2>1 DEF IInv, SignedIsArchived, Signed
  <2>4. SignedIsArchived' /\ AcceptedIsMailed'
    BY <2>2, <2>3 DEF SignedIsArchived, AcceptedIsMailed, Signed, PRE_SIGNATURE_STATUSES
  <2> QED
    BY <1>1, <2>2, <2>4, WritingIsEnough DEF PRE_SIGNATURE_STATUSES
<1>4. CASE Insert(q) /\ contract.status # "ABSENT"
  <2>1. contract' = contract
    BY <1>4 DEF Insert
  <2> QED
    BY <1>1, <2>1, WritingIsEnough DEF IInv, SignedIsArchived, AcceptedIsMailed
<1>5. CASE Rewrite(q)
  <2>1. /\ contract' \in Rows /\ contract'.status = contract.status
        /\ contract.status # "ABSENT" /\ contract'.body # None
        /\ contract'.pdf = contract.pdf /\ contract'.accepted = contract.accepted
    BY <1>2, <1>5 DEF Rewrite, At, Relies, Handler, Rows
  <2> QED
    BY <1>1, <2>1, WritingIsEnough DEF IInv, SignedIsArchived, AcceptedIsMailed
<1>6. CASE Change(q)
  <2>1. /\ contract' \in Rows /\ contract'.status \in PRE_SIGNATURE_STATUSES
        /\ contract'.body # None
        /\ contract'.pdf = contract.pdf /\ contract'.accepted = FALSE
    BY <1>2, <1>6 DEF IInv, HasText, Change, At, Relies, Handler, Rows, Waiting,
       ContractStatus, PRE_SIGNATURE_STATUSES
  <2> QED
    BY <1>1, <2>1, WritingIsEnough
       DEF IInv, SignedIsArchived, AcceptedIsMailed, PRE_SIGNATURE_STATUSES
<1>7. CASE Accept(q)
  <2>1. /\ contract' \in Rows /\ contract'.status = contract.status
        /\ contract.status # "ABSENT" /\ contract'.body # None
        /\ contract'.pdf = contract.pdf /\ mailed # {}
    BY <1>2, <1>7 DEF IInv, HasText, Accept, At, Relies, Rows
  <2> QED
    BY <1>1, <2>1, WritingIsEnough DEF IInv, SignedIsArchived, AcceptedIsMailed
<1> QED
  BY <1>3, <1>4, <1>5, <1>6, <1>7

(* finalizeSigning archives the text it rendered.                          *)
LEMMA FinalizeKeepsIInv ==
  ASSUME IInv, NEW q \in Requests, Finalize(q)
  PROVE  IInv'
<1>1. /\ contract \in Rows /\ req[q] \in Handler /\ Relies(q) /\ At(q, "finalize")
      /\ invoiced \in BOOLEAN /\ stage \in CaseStage
  BY DEF IInv, TypeOK, Rows, Handler, Finalize
<1>2. UNCHANGED <<client, issued, code, mailed, invoiced>> /\ Settles
  BY FinishSettles DEF Finalize, signing
<1>3. CASE SystemEdge(Service, stage, "CONTRACT_SIGNED")
  <2>1. /\ contract' = [contract EXCEPT !.status = "SIGNED", !.pdf = req[q].text]
        /\ stage' = "CONTRACT_SIGNED"
    BY <1>3 DEF Finalize
  <2>2. /\ contract' \in Rows /\ contract'.status = "SIGNED" /\ contract'.pdf # None
        /\ contract'.body # None /\ contract'.accepted = contract.accepted
    BY <1>1, <2>1 DEF IInv, HasText, At, Relies, Handler, Rows, ContractStatus
  <2> QED
    BY <1>1, <1>2, <2>1, <2>2, WritingIsEnough
       DEF IInv, SignedIsArchived, AcceptedIsMailed, CaseStage
<1>4. CASE ~ SystemEdge(Service, stage, "CONTRACT_SIGNED")
  <2>1. UNCHANGED <<contract, stage>>
    BY <1>4 DEF Finalize
  <2> QED
    BY <1>1, <1>2, <2>1, WritingIsEnough DEF IInv, SignedIsArchived, AcceptedIsMailed
<1> QED
  BY <1>3, <1>4

(* The client's record, the codes and the mail.                            *)
LEMMA CodesKeepIInv ==
  ASSUME IInv, NEW q \in Requests,
         CorrectClient(q) \/ Issue(q) \/ Mail(q) \/ Spend(q)
  PROVE  IInv'
<1>1. UNCHANGED <<contract, stage, invoiced>> /\ issued \subseteq issued' /\ mailed \subseteq mailed'
  BY DEF CorrectClient, Issue, Mail, Spend, signing
<1>2. /\ req \in [Requests -> Handler] /\ Relies(q) /\ client \in Versions
      /\ issued \subseteq Codes /\ mailed \subseteq issued /\ code \in issued \cup {None}
  BY DEF IInv, TypeOK, Handler
<1>3. \A p \in Requests : Relies(p)
  BY DEF IInv
<1>4. /\ client' \in Versions /\ issued' \subseteq Codes /\ mailed' \subseteq issued'
      /\ code' \in issued' \cup {None}
  BY <1>2 DEF CorrectClient, Issue, Mail, Spend, signing, At, Relies
<1> DEFINE Goes == /\ req' = [req EXCEPT ![q] = req'[q]] /\ req'[q] \in Handler
                   /\ Relies(q)'
<1> USE DEF Handler, Steps, ContractType, Relies, At, Idle
<1>5. Goes
  <2>1. CASE CorrectClient(q)
    BY <1>1, <1>2, <2>1 DEF CorrectClient, Goto
  <2>2. CASE Issue(q)
    <3>1. PICK c \in Codes \ issued :
            /\ issued' = issued \cup {c}
            /\ req' = [req EXCEPT ![q].step = "mail", ![q].code = c]
      BY <2>2 DEF Issue
    <3>2. req' = [req EXCEPT ![q] = [req[q] EXCEPT !.step = "mail", !.code = c]]
      BY <1>2, <3>1
    <3>3. req'[q] = [req[q] EXCEPT !.step = "mail", !.code = c]
      BY <1>2, <3>2
    <3>4. req'[q] \in Handler
      BY <1>2, <3>3
    <3>5. req'[q].step = "mail" /\ req'[q].code = c /\ req[q].step = "issue"
      <4>1. req[q].step = "issue"
        BY <2>2 DEF Issue
      <4> QED
        BY <1>2, <3>3, <4>1
    <3>6. Relies(q)'
      BY <1>1, <1>2, <3>1, <3>5
    <3> QED
      BY <1>2, <3>2, <3>3, <3>4, <3>6
  <2>3. CASE Mail(q) /\ mailed' = mailed \cup {req[q].code} /\ Goto(q, "accept")
    <3>1. /\ req' = [req EXCEPT ![q] = [req[q] EXCEPT !.step = "accept"]]
          /\ req'[q] = [req[q] EXCEPT !.step = "accept"]
      BY <1>2, <2>3 DEF Goto
    <3>2. req'[q] \in Handler
      BY <1>2, <3>1
    <3>3. req'[q].step = "accept" /\ req'[q].code = req[q].code /\ req[q].step = "mail"
      BY <1>2, <2>3, <3>1 DEF Mail
    <3>4. Relies(q)'
      BY <1>1, <1>2, <2>3, <3>1, <3>3 DEF Mail
    <3> QED
      BY <1>2, <3>1, <3>2, <3>4, <2>3 DEF Mail
  <2>4. CASE Mail(q) /\ Finish(q)
    BY <1>1, <1>2, <2>4 DEF Finish
  <2>5. CASE Spend(q)
    BY <1>1, <1>2, <2>5 DEF Spend, Goto
  <2> QED
    BY <2>1, <2>2, <2>3, <2>4, <2>5 DEF Mail
<1>6. req' \in [Requests -> Handler] /\ \A p \in Requests \ {q} : req'[p] = req[p]
  BY <1>2, <1>5
<1>7. \A p \in Requests : Relies(p)'
  BY <1>1, <1>3, <1>5, <1>6
<1>8. TypeOK'
  BY <1>1, <1>4, <1>6 DEF IInv, TypeOK, Handler
<1> QED
  BY <1>1, <1>7, <1>8 DEF IInv, SignedIsArchived, AcceptedIsMailed, HasText

(* The payments, the sweep, staff, and the code that expires.              *)
LEMMA OthersKeepIInv ==
  ASSUME IInv,
         RaiseInvoice \/ Progress \/ CancelUnpaid \/ CodeExpires \/ \E to \in Moves : StaffMove(to)
  PROVE  IInv'
<1>1. /\ contract \in Rows /\ stage \in CaseStage /\ invoiced \in BOOLEAN
      /\ contract.status = "ABSENT" => contract = NoContract
  BY DEF IInv, TypeOK, Rows
<1>2. Signed(stage) => contract.pdf # None /\ contract.status # "ABSENT"
  BY <1>1 DEF IInv, SignedIsArchived, Signed, NoContract
<1> DEFINE Writes == /\ UNCHANGED <<client, issued, code, mailed, req>> /\ invoiced' \in BOOLEAN
                     /\ stage' \in CaseStage
                     /\ \/ contract' = contract
                        \/ /\ contract' \in Rows /\ contract'.status # "ABSENT"
                           /\ contract'.body # None
                     /\ SignedIsArchived' /\ AcceptedIsMailed'
<1>3. Writes => IInv'
  BY FinishSettles, WritingIsEnough
<1>4. CASE RaiseInvoice
  <2> Writes
    BY <1>1, <1>4 DEF RaiseInvoice, IInv, SignedIsArchived, AcceptedIsMailed, signing
  <2> QED
    BY <1>3
<1>5. CASE Progress
  <2>1. stage = "CONTRACT_SIGNED"
    BY <1>5, RowsOfTheLine DEF Progress, SystemEdge
  <2>2. contract.pdf # None /\ contract.status # "ABSENT" /\ contract.body # None
    BY <1>2, <2>1 DEF Signed, IInv, HasText
  <2>3. /\ contract' \in Rows /\ contract'.status = "ACTIVE" /\ contract'.body # None
        /\ contract'.pdf # None /\ contract'.accepted = contract.accepted
    BY <1>1, <1>5, <2>2 DEF Progress, Rows, ContractStatus
  <2>4. stage' \in CaseStage /\ UNCHANGED <<client, issued, code, mailed, req, invoiced>>
    BY <1>5 DEF Progress, CaseStage, signing
  <2> Writes
    BY <1>1, <2>3, <2>4 DEF IInv, SignedIsArchived, AcceptedIsMailed
  <2> QED
    BY <1>3
<1>6. CASE CancelUnpaid
  <2>1. ~ Signed("CANCELLED")
    BY UnsignedStages DEF ESCAPE_STAGES
  <2>2. stage' = "CANCELLED" /\ UNCHANGED <<client, issued, code, mailed, req, invoiced>>
    BY <1>6 DEF CancelUnpaid, signing
  <2>3. \/ contract' = contract
        \/ /\ contract' \in Rows /\ contract'.status = "TERMINATED" /\ contract'.body # None
           /\ contract'.pdf = contract.pdf /\ contract'.accepted = contract.accepted
    BY <1>1, <1>6 DEF CancelUnpaid, Rows, ContractStatus, IInv, HasText, PRE_SIGNATURE_STATUSES
  <2> Writes
    BY <1>1, <2>1, <2>2, <2>3
       DEF IInv, SignedIsArchived, AcceptedIsMailed, Signed, CaseStage, ESCAPE_STAGES
  <2> QED
    BY <1>3
<1>7. CASE CodeExpires
  <2>1. UNCHANGED <<contract, client, issued, mailed, stage, invoiced, req>> /\ code' = None
    BY <1>7 DEF CodeExpires
  <2>2. TypeOK' /\ \A q \in Requests : Relies(q)'
    BY <2>1 DEF IInv, TypeOK, Relies
  <2> QED
    BY <2>1, <2>2 DEF IInv, SignedIsArchived, AcceptedIsMailed, HasText
<1>8. ASSUME NEW to \in Moves, StaffMove(to)
      PROVE  IInv'
  <2>1. /\ StaffEdge(Service, stage, to) /\ stage' = to
        /\ UNCHANGED <<contract, client, issued, code, mailed, invoiced, req>>
    BY <1>8 DEF StaffMove, signing
  <2>2. Signed(to) => Signed(stage)
    BY <1>8, <2>1, StaffMovesKeepTheSignature, UnsignedStages DEF StaffMove
  <2>3. SignedIsArchived'
    BY <1>2, <2>1, <2>2 DEF IInv, SignedIsArchived, Signed
  <2> Writes
    BY <1>1, <2>1, <2>3, MovesAssumption DEF IInv, AcceptedIsMailed
  <2> QED
    BY <1>3
<1> QED
  BY <1>4, <1>5, <1>6, <1>7, <1>8

-----------------------------------------------------------------------------
(* A case without a contract satisfies the invariant.                      *)
LEMMA InitIInv == Init => IInv
<1> SUFFICES ASSUME Init
             PROVE  IInv
  OBVIOUS
<1>1. ~ Signed(stage)
  BY UnsignedStages DEF Init
<1>2. TypeOK
  BY VersionsAssumption DEF Init, TypeOK, NoContract, Idle, Steps, ContractType, ContractStatus,
     CaseStage, FirstStage, PRE_SIGNATURE_STATUSES
<1> QED
  BY <1>1, <1>2 DEF Init, IInv, SignedIsArchived, AcceptedIsMailed, HasText, Relies, Signed,
     NoContract, Idle

(* No step breaks the invariant.                                           *)
LEMMA NextIInv == IInv /\ [Next]_vars => IInv'
<1> SUFFICES ASSUME IInv, [Next]_vars
             PROVE  IInv'
  OBVIOUS
<1>1. ASSUME NEW q \in Requests, NEW type \in ContractType,
             CreateReads(q, type) \/ ChangeReads(q, type)
      PROVE  IInv'
  BY <1>1, ReadingKeepsIInv
<1>2. ASSUME NEW q \in Requests, NEW c \in Codes, SignReads(q, c)
      PROVE  IInv'
  BY <1>2, ReadingKeepsIInv
<1>3. ASSUME NEW q \in Requests,
             \/ RefreshReads(q) \/ AcceptReads(q) \/ Compare(q) \/ RegisterReads(q)
             \/ Render(q) \/ Crash(q)
      PROVE  IInv'
  BY <1>3, ReadingKeepsIInv
<1>4. ASSUME NEW q \in Requests, Insert(q) \/ Rewrite(q) \/ Change(q) \/ Accept(q)
      PROVE  IInv'
  BY <1>4, OfficeKeepsIInv
<1>5. ASSUME NEW q \in Requests, CorrectClient(q) \/ Issue(q) \/ Mail(q) \/ Spend(q)
      PROVE  IInv'
  BY <1>5, CodesKeepIInv
<1>6. ASSUME NEW q \in Requests, Finalize(q)
      PROVE  IInv'
  BY <1>6, FinalizeKeepsIInv
<1>7. CASE RaiseInvoice \/ Progress \/ CancelUnpaid \/ CodeExpires \/ \E to \in Moves : StaffMove(to)
  BY <1>7, OthersKeepIInv
<1>8. CASE UNCHANGED vars
  BY <1>8 DEF vars, signing, IInv, TypeOK, SignedIsArchived, AcceptedIsMailed, HasText, Relies
<1> QED
  BY <1>1, <1>2, <1>3, <1>4, <1>5, <1>6, <1>7, <1>8 DEF Next

(* Whatever handlers overlap and wherever they stop, the invariant holds.  *)
THEOREM Invariance == Spec => []IInv
BY InitIInv, NextIInv, PTL DEF Spec

(* Types, and that there is nothing to write before the contract exists.   *)
THEOREM TypeCorrect == Spec => []TypeOK
<1>1. IInv => TypeOK
  BY DEF IInv
<1> QED
  BY <1>1, Invariance, PTL

(* A case from CONTRACT_SIGNED on, and a contract that counts as signed or *)
(* active, has an archived copy of what was signed.                        *)
THEOREM SignedIsArchivedHolds == Spec => []SignedIsArchived
<1>1. IInv => SignedIsArchived
  BY DEF IInv
<1> QED
  BY <1>1, Invariance, PTL

(* A contract asks for its code only when one was mailed.                  *)
THEOREM AcceptedIsMailedHolds == Spec => []AcceptedIsMailed
<1>1. IInv => AcceptedIsMailed
  BY DEF IInv
<1> QED
  BY <1>1, Invariance, PTL

-----------------------------------------------------------------------------
(* A step that files a signature.                                          *)
Files == \/ contract'.pdf # contract.pdf
         \/ contract.status # "SIGNED" /\ contract'.status = "SIGNED"

(* Only finalizeSigning does, and it moves the case from its first stage.  *)
LEMMA FilingMovesTheCase ==
  ASSUME IInv, [Next]_vars, Files
  PROVE  stage = FirstStage /\ stage' = "CONTRACT_SIGNED"
<1>1. contract \in Rows /\ (contract.status = "ABSENT" => contract.pdf = None)
  BY DEF IInv, TypeOK, Rows, NoContract
<1>2. contract' # contract
  BY DEF Files
<1>3. \/ \E q \in Requests : Insert(q) \/ Rewrite(q) \/ Change(q) \/ Accept(q) \/ Finalize(q)
      \/ Progress \/ CancelUnpaid
  BY <1>2 DEF Next, vars, CreateReads, ChangeReads, SignReads, CorrectClient, RefreshReads,
     AcceptReads, Issue, Mail, Compare, Spend, RegisterReads, Render, Crash, CodeExpires,
     RaiseInvoice, StaffMove
<1>4. ASSUME NEW q \in Requests, Insert(q)
      PROVE  ~ Files
  BY <1>1, <1>4 DEF Insert, Files, NoContract, Waiting, Rows
<1>5. ASSUME NEW q \in Requests, Rewrite(q) \/ Accept(q)
      PROVE  ~ Files
  BY <1>1, <1>5 DEF Rewrite, Accept, Files, Rows
<1>6. ASSUME NEW q \in Requests, Change(q)
      PROVE  ~ Files
  BY <1>1, <1>6 DEF Change, Files, Rows, Waiting
<1>7. CASE Progress \/ CancelUnpaid
  BY <1>1, <1>7 DEF Progress, CancelUnpaid, Files, Rows
<1>8. ASSUME NEW q \in Requests, Finalize(q)
      PROVE  stage = FirstStage /\ stage' = "CONTRACT_SIGNED"
  <2>1. SystemEdge(Service, stage, "CONTRACT_SIGNED") /\ stage' = "CONTRACT_SIGNED"
    BY <1>2, <1>8 DEF Finalize
  <2> QED
    BY <2>1, RowsOfTheLine DEF SystemEdge
<1> QED
  BY <1>3, <1>4, <1>5, <1>6, <1>7, <1>8

(* A signature is filed only by the step that takes the case from its      *)
(* first stage to CONTRACT_SIGNED: of two handlers that finish at once the *)
(* later one writes nothing.                                               *)
THEOREM SignatureMovesTheCaseHolds == Spec => SignatureMovesTheCase
<1>1. IInv /\ [Next]_vars => [Files => stage = FirstStage /\ stage' = "CONTRACT_SIGNED"]_vars
  BY FilingMovesTheCase
<1> QED
  BY <1>1, Invariance, PTL DEF Spec, SignatureMovesTheCase, Files
=============================================================================
