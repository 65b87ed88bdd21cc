------------------------------ MODULE Contracts ------------------------------
(***************************************************************************)
(* The contract of one case, from its issue to its signature: the office   *)
(* issues it on paper or electronically, corrects the client's record      *)
(* under it, changes its route, registers the signed paper; the client     *)
(* agrees, is mailed a code and signs with it.  The payments and the sweep *)
(* of unpaid cases write the same row.                                     *)
(*                                                                         *)
(* A handler reads the contract, decides, and writes later without looking *)
(* again; only the stage of the case is written under a condition, and the *)
(* signature shares that transaction.  A handler is cut at each of its     *)
(* awaits, as in module Payments.                                          *)
(***************************************************************************)
EXTENDS CaseFlow

CONSTANTS
  Requests,  \* handlers that may be in flight at once
  Versions,  \* versions of the client's record, and so of a contract's text
  Codes,     \* the one-time codes that may be issued
  Service,   \* the case's service
  Moves      \* the stages staff may move the case to meanwhile

ASSUME VersionsAssumption == Versions \subseteq Nat \ {0} /\ 1 \in Versions
ASSUME CodesAssumption    == Codes \subseteq Nat \ {0}
ASSUME ServiceAssumption  == Service \in ServiceType
ASSUME MovesAssumption    == Moves \subseteq CaseStage

VARIABLES
  contract,  \* the row of the case: status, route, acceptance, text, archived PDF
  client,    \* the version of the client's record a text is rendered from
  issued,    \* the codes issued so far
  code,      \* the one in Redis, if any
  mailed,    \* the codes the client was mailed
  stage,     \* Case.stage
  invoiced,  \* a prepayment was asked for
  req        \* each handler's next step and what it has read

signing == <<issued, code, mailed>>
vars    == <<contract, client, signing, stage, invoiced, req>>

None                  == 0
ContractType          == {"ELECTRONIC", "PHYSICAL"}
PRE_SIGNATURE_STATUSES == {"DRAFT", "SENT"}
ContractStatus ==
  PRE_SIGNATURE_STATUSES \cup {"ABSENT", "SIGNED", "ACTIVE", "TERMINATED"}

Steps == {"idle", "insert", "refresh", "rewrite", "issue", "mail", "accept",
          "compare", "spend", "render", "finalize", "change"}

NoContract == [status |-> "ABSENT", type |-> "PHYSICAL", accepted |-> FALSE,
               body |-> None, pdf |-> None]
Idle == [step |-> "idle", type |-> "PHYSICAL", text |-> None, code |-> None,
         first |-> FALSE]

Init ==
  /\ contract = NoContract
  /\ client = 1
  /\ issued = {} /\ code = None /\ mailed = {}
  /\ stage = FirstStage
  /\ invoiced = FALSE
  /\ req = [q \in Requests |-> Idle]

At(q, step)   == req[q].step = step
Goto(q, step) == req' = [req EXCEPT ![q].step = step]
Finish(q)     == req' = [req EXCEPT ![q] = Idle]

Unsigned == contract.status \in PRE_SIGNATURE_STATUSES

(* The status a route waits for its signature in.                          *)
Waiting(type) == IF type = "ELECTRONIC" THEN "SENT" ELSE "DRAFT"

(* assertElectronicSendable *)
ElectronicSendable == contract.type = "ELECTRONIC" /\ Unsigned

-----------------------------------------------------------------------------
(* Variants of the steps below, each with a fault a careless edit could    *)
(* introduce; the properties are tried against them.                       *)

FinalizeInTwoTransactions(q) ==
  /\ At(q, "finalize")
  /\ contract' = [contract EXCEPT !.status = "SIGNED", !.pdf = req[q].text]
  /\ IF SystemEdge(Service, stage, "CONTRACT_SIGNED")
     THEN stage' = "CONTRACT_SIGNED"
     ELSE UNCHANGED stage
  /\ Finish(q)
  /\ UNCHANGED <<client, signing, invoiced>>

FinalizeMovesTheStageFirst(q) ==
  /\ At(q, "finalize")
  /\ SystemEdge(Service, stage, "CONTRACT_SIGNED")
  /\ stage' = "CONTRACT_SIGNED"
  /\ UNCHANGED <<contract, client, signing, invoiced, req>>

IssueAcceptsAtOnce(q) ==
  /\ At(q, "issue")
  /\ \E c \in Codes \ issued :
       /\ issued' = issued \cup {c} /\ code' = c
       /\ req' = [req EXCEPT ![q].step = "mail", ![q].code = c]
  /\ contract' = [contract EXCEPT !.accepted = TRUE]
  /\ UNCHANGED <<client, mailed, stage, invoiced>>

RefreshReadsAnyStatus(q) ==
  /\ At(q, "refresh")
  /\ IF contract.body # client
     THEN req' = [req EXCEPT ![q].step = "rewrite", ![q].text = client]
     ELSE Finish(q)
  /\ UNCHANGED <<contract, client, signing, stage, invoiced>>

-----------------------------------------------------------------------------
(* The office issues the contract.                                         *)

(* createForCase up to its insert: no contract yet, the first stage, the   *)
(* text rendered from the client's record as it is now.                    *)
CreateReads(q, type) ==
  /\ req[q] = Idle
  /\ contract.status = "ABSENT"
  /\ stage = FirstStage
  /\ req' = [req EXCEPT ![q] =
       [Idle EXCEPT !.step = "insert", !.type = type, !.text = client]]
  /\ UNCHANGED <<contract, client, signing, stage, invoiced>>

(* The insert, which the unique caseId refuses to the second of two.       *)
Insert(q) ==
  /\ At(q, "insert")
  /\ IF contract.status = "ABSENT"
     THEN contract' = [NoContract EXCEPT !.status = Waiting(req[q].type),
                                         !.type = req[q].type,
                                         !.body = req[q].text]
     ELSE UNCHANGED contract
  /\ Finish(q)
  /\ UNCHANGED <<client, signing, stage, invoiced>>

(* The client's record is corrected; the same request then refreshes the   *)
(* contract.                                                               *)
CorrectClient(q) ==
  /\ req[q] = Idle
  /\ client + 1 \in Versions
  /\ client' = client + 1
  /\ Goto(q, "refresh")
  /\ UNCHANGED <<contract, signing, stage, invoiced>>

(* refreshUnsignedForUser: one read of contract and client, the rendering, *)
(* the check of the status, and an update without a condition.             *)
RefreshReads(q) ==
  /\ At(q, "refresh")
  /\ IF Unsigned /\ contract.body # client
     THEN req' = [req EXCEPT ![q].step = "rewrite", ![q].text = client]
     ELSE Finish(q)
  /\ UNCHANGED <<contract, client, signing, stage, invoiced>>

Rewrite(q) ==
  /\ At(q, "rewrite")
  /\ contract' = [contract EXCEPT !.body = req[q].text]
  /\ Finish(q)
  /\ UNCHANGED <<client, signing, stage, invoiced>>

(* changeType: an unsigned contract goes to the other route; the update    *)
(* has no condition.                                                       *)
ChangeReads(q, type) ==
  /\ req[q] = Idle
  /\ Unsigned /\ contract.type # type
  /\ req' = [req EXCEPT ![q] = [Idle EXCEPT !.step = "change", !.type = type]]
  /\ UNCHANGED <<contract, client, signing, stage, invoiced>>

Change(q) ==
  /\ At(q, "change")
  /\ contract' = [contract EXCEPT !.type = req[q].type,
                                  !.status = Waiting(req[q].type),
                                  !.accepted = FALSE]
  /\ Finish(q)
  /\ UNCHANGED <<client, signing, stage, invoiced>>

-----------------------------------------------------------------------------
(* The client agrees and is mailed a code.                                 *)

AcceptReads(q) ==
  /\ req[q] = Idle
  /\ ElectronicSendable
  /\ req' = [req EXCEPT ![q] =
       [Idle EXCEPT !.step = "issue", !.first = ~ contract.accepted]]
  /\ UNCHANGED <<contract, client, signing, stage, invoiced>>

(* OtpService.issue: a fresh code replaces the live one.                   *)
Issue(q) ==
  /\ At(q, "issue")
  /\ \E c \in Codes \ issued :
       /\ issued' = issued \cup {c} /\ code' = c
       /\ req' = [req EXCEPT ![q].step = "mail", ![q].code = c]
  /\ UNCHANGED <<contract, client, mailed, stage, invoiced>>

(* The mail goes out, or the provider refuses it and the request ends.     *)
Mail(q) ==
  /\ At(q, "mail")
  /\ \/ /\ mailed' = mailed \cup {req[q].code}
        /\ IF req[q].first THEN Goto(q, "accept") ELSE Finish(q)
     \/ /\ UNCHANGED mailed
        /\ Finish(q)
  /\ UNCHANGED <<contract, client, issued, code, stage, invoiced>>

(* acceptedAt, if the contract had none when it was read.                  *)
Accept(q) ==
  /\ At(q, "accept")
  /\ contract' = [contract EXCEPT !.accepted = TRUE]
  /\ Finish(q)
  /\ UNCHANGED <<client, signing, stage, invoiced>>

(* The code's five minutes are over.                                       *)
CodeExpires ==
  /\ code # None
  /\ code' = None
  /\ UNCHANGED <<contract, client, issued, mailed, stage, invoiced, req>>

-----------------------------------------------------------------------------
(* Signing.                                                                *)

(* verifyOtp, with a code the client was mailed.                           *)
SignReads(q, c) ==
  /\ req[q] = Idle
  /\ ElectronicSendable /\ contract.accepted
  /\ c \in mailed
  /\ req' = [req EXCEPT ![q] = [Idle EXCEPT !.step = "compare", !.code = c]]
  /\ UNCHANGED <<contract, client, signing, stage, invoiced>>

(* OtpService.verify: the hash is read and compared, and deleted in a      *)
(* statement of its own, whatever code is live by then.                    *)
Compare(q) ==
  /\ At(q, "compare")
  /\ IF code = req[q].code THEN Goto(q, "spend") ELSE Finish(q)
  /\ UNCHANGED <<contract, client, signing, stage, invoiced>>

Spend(q) ==
  /\ At(q, "spend")
  /\ code' = None
  /\ Goto(q, "render")
  /\ UNCHANGED <<contract, client, issued, mailed, stage, invoiced>>

(* registerPhysical, up to the stored scan.                                *)
RegisterReads(q) ==
  /\ req[q] = Idle
  /\ contract.type = "PHYSICAL" /\ contract.status = "DRAFT"
  /\ Goto(q, "render")
  /\ UNCHANGED <<contract, client, signing, stage, invoiced>>

(* finalizeSigning reads the row again and renders the text it finds ...   *)
Render(q) ==
  /\ At(q, "render")
  /\ req' = [req EXCEPT ![q].step = "finalize", ![q].text = contract.body]
  /\ UNCHANGED <<contract, client, signing, stage, invoiced>>

(* ... and writes the signature together with the stage: without an edge   *)
(* to CONTRACT_SIGNED the whole transaction is rolled back.                *)
Finalize(q) ==
  /\ At(q, "finalize")
  /\ IF SystemEdge(Service, stage, "CONTRACT_SIGNED")
     THEN /\ contract' = [contract EXCEPT !.status = "SIGNED", !.pdf = req[q].text]
          /\ stage' = "CONTRACT_SIGNED"
     ELSE UNCHANGED <<contract, stage>>
  /\ Finish(q)
  /\ UNCHANGED <<client, signing, invoiced>>

(* The process stops, or the request fails on the way.                     *)
Crash(q) ==
  /\ req[q] # Idle
  /\ Finish(q)
  /\ UNCHANGED <<contract, client, signing, stage, invoiced>>

-----------------------------------------------------------------------------
(* Others on the same rows.                                                *)

(* createForCase of the payments, behind assertReadyFor.                   *)
RaiseInvoice ==
  /\ contract.status \notin {"ABSENT"} \cup PRE_SIGNATURE_STATUSES
  /\ SystemEdge(Service, stage, "PREPAYMENT_PAID")
  /\ invoiced' = TRUE
  /\ UNCHANGED <<contract, client, signing, stage, req>>

(* applyPaymentProgress: the contract ACTIVE and the stage, or neither.    *)
Progress ==
  /\ invoiced
  /\ SystemEdge(Service, stage, "PREPAYMENT_PAID")
  /\ contract' = [contract EXCEPT !.status = "ACTIVE"]
  /\ stage' = "PREPAYMENT_PAID"
  /\ UNCHANGED <<client, signing, invoiced, req>>

(* The sweep's transaction.                                                *)
CancelUnpaid ==
  /\ stage \in PRE_PREPAYMENT_STAGES
  /\ contract' = IF contract.status \in PRE_SIGNATURE_STATUSES \cup {"SIGNED"}
                 THEN [contract EXCEPT !.status = "TERMINATED"]
                 ELSE contract
  /\ stage' = "CANCELLED"
  /\ UNCHANGED <<client, signing, invoiced, req>>

(* Staff move the case along, pause it, or resume it at the first stage.   *)
(* A resume further on asks for a stage the contract no longer changes at. *)
StaffMove(to) ==
  /\ StaffEdge(Service, stage, to)
  /\ stage = "ON_HOLD" => to = FirstStage
  /\ stage' = to
  /\ UNCHANGED <<contract, client, signing, invoiced, req>>

Next ==
  \/ \E q \in Requests :
       \/ \E type \in ContractType : CreateReads(q, type) \/ ChangeReads(q, type)
       \/ \E c \in Codes : SignReads(q, c)
       \/ Insert(q) \/ CorrectClient(q) \/ RefreshReads(q) \/ Rewrite(q)
       \/ Change(q) \/ AcceptReads(q) \/ Issue(q) \/ Mail(q) \/ Accept(q)
       \/ Compare(q) \/ Spend(q) \/ RegisterReads(q) \/ Render(q)
       \/ Finalize(q) \/ Crash(q)
  \/ CodeExpires \/ RaiseInvoice \/ Progress \/ CancelUnpaid
  \/ \E to \in Moves : StaffMove(to)

Spec == Init /\ [][Next]_vars

-----------------------------------------------------------------------------
(* Types, and that there is nothing to write before the contract exists.   *)
TypeOK ==
  /\ contract \in [status : ContractStatus, type : ContractType,
                   accepted : BOOLEAN,
                   body : Versions \cup {None}, pdf : Versions \cup {None}]
  /\ contract.status = "ABSENT" => contract = NoContract
  /\ client \in Versions
  /\ issued \subseteq Codes /\ mailed \subseteq issued
  /\ code \in issued \cup {None}
  /\ stage \in CaseStage
  /\ invoiced \in BOOLEAN
  /\ req \in [Requests -> [step : Steps, type : ContractType,
                           text : Versions \cup {None},
                           code : Codes \cup {None}, first : BOOLEAN]]

(* A case from CONTRACT_SIGNED on, and a contract that counts as signed or *)
(* active, has an archived copy of what was signed, whichever handlers     *)
(* overlapped and wherever they stopped.                                   *)
SignedIsArchived ==
  \/ stage = "CONTRACT_SIGNED" \/ Ahead(Service, "CONTRACT_SIGNED", stage)
  \/ contract.status \in {"SIGNED", "ACTIVE"}
  => contract.pdf # None

(* A signature is filed only by the step that takes the case from its      *)
(* first stage to CONTRACT_SIGNED: of two handlers that finish at once, be *)
(* it two codes typed or a code and a paper, the later one writes nothing, *)
(* and a cancelled case's contract is never signed.                        *)
SignatureMovesTheCase ==
  [][ \/ contract'.pdf # contract.pdf
      \/ contract.status # "SIGNED" /\ contract'.status = "SIGNED"
      => stage = FirstStage /\ stage' = "CONTRACT_SIGNED" ]_vars

(* The order accept() insists on: a contract asks for its code only when   *)
(* one went out.                                                           *)
AcceptedIsMailed == contract.accepted => mailed # {}
=============================================================================
