------------------------------ MODULE Campaigns ------------------------------
(***************************************************************************)
(* One e-mail campaign: staff send it (perhaps twice) or stop it; a worker *)
(* mails a batch of the recipients still waiting, and a job queued again   *)
(* takes the next batch until nobody waits, when the campaign is finished. *)
(*                                                                         *)
(* The progress is in the recipients' rows.  The campaign's own status is  *)
(* read before the work and written without a condition after it, by the   *)
(* requests and the workers alike, so each of their statements is a step.  *)
(* A worker may lose its job, which then runs again from the start, and a  *)
(* write or an enqueue may fail; such faults are counted and bounded.      *)
(***************************************************************************)
EXTENDS Naturals, FiniteSets

CONSTANTS
  Recipients,  \* the addresses the audience may hold
  Batch,       \* brevo.batchSize
  Requests,    \* requests of staff in flight at once
  Workers,     \* workers of all the API's instances
  MaxFaults    \* bound on the faults of a behaviour

ASSUME BatchAssumption  == Batch \in Nat \ {0}
ASSUME FaultsAssumption == MaxFaults \in Nat
ASSUME FiniteAssumption == IsFiniteSet(Recipients) /\ IsFiniteSet(Workers)

VARIABLES
  status,   \* EmailCampaign.status
  rcpt,     \* EmailCampaignRecipient.status by address
  jobs,     \* how many jobs of the campaign are queued
  req,      \* each request's next step and the audience it resolved
  worker,   \* each worker's next step, the status it has read, its batch
  mails,    \* how often each address was mailed
  late,     \* mails to an address after its row was spared
  runs,     \* runs queued by staff
  spares,   \* cancellations that got as far as the rows
  faults,   \* faults so far
  stranded  \* a fault took a job with it

ghosts == <<mails, late, runs, spares, faults, stranded>>
vars   == <<status, rcpt, jobs, req, worker, ghosts>>

EmailCampaignStatus == {"DRAFT", "QUEUED", "SENDING", "SENT", "FAILED", "CANCELLED"}
NoRequest == [step |-> "idle", audience |-> {}]
Rest      == [step |-> "idle", read |-> "DRAFT", todo |-> {}, now |-> "nobody"]

Init ==
  /\ status = "DRAFT"
  /\ rcpt = [r \in Recipients |-> "ABSENT"]
  /\ jobs = 0
  /\ req = [q \in Requests |-> NoRequest]
  /\ worker = [w \in Workers |-> Rest]
  /\ mails = [r \in Recipients |-> 0]
  /\ late = 0 /\ runs = 0 /\ spares = 0 /\ faults = 0 /\ stranded = FALSE

Waiting        == {r \in Recipients : rcpt[r] = "PENDING"}
With(s)        == {r \in Recipients : rcpt[r] = s}
At(w, step)    == worker[w].step = step
Goto(w, step)  == worker' = [worker EXCEPT ![w].step = step]
Ends(w)        == worker' = [worker EXCEPT ![w] = Rest]
Asks(q, step)  == req' = [req EXCEPT ![q].step = step]
Answers(q)     == req' = [req EXCEPT ![q] = NoRequest]
Mark(r, s)     == rcpt' = [rcpt EXCEPT ![r] = s]
Fault          == faults < MaxFaults /\ faults' = faults + 1

-----------------------------------------------------------------------------
(* Variants of the steps below, each with a fault a careless edit could    *)
(* introduce; the properties are tried against them.                       *)

PickWithoutStatus(w) ==
  /\ At(w, "pick")
  /\ \E batch \in SUBSET (Recipients \ With("ABSENT")) :
       /\ Cardinality(batch) <= Batch /\ batch # {}
       /\ worker' = [worker EXCEPT ![w].step = "mail", ![w].todo = batch]
  /\ UNCHANGED <<status, rcpt, jobs, req, ghosts>>

PickWithoutEnd(w) ==
  /\ At(w, "pick")
  /\ \E batch \in SUBSET Waiting :
       /\ Cardinality(batch) <= Batch
       /\ worker' = [worker EXCEPT ![w].step = "mail", ![w].todo = batch]
  /\ UNCHANGED <<status, rcpt, jobs, req, ghosts>>

CloseAsSent(w) ==
  /\ worker[w].step \in {"fail", "close"}
  /\ status' = "SENT"
  /\ Ends(w)
  /\ UNCHANGED <<rcpt, jobs, req, ghosts>>

AgainWithoutJob(w) ==
  /\ At(w, "again")
  /\ Ends(w)
  /\ UNCHANGED <<status, rcpt, jobs, req, ghosts>>

-----------------------------------------------------------------------------
(* Requests of staff.                                                      *)

(* queueSend finds a draft and resolves its audience ...                   *)
SendReads(q) ==
  /\ req[q] = NoRequest
  /\ status = "DRAFT"
  /\ \E audience \in SUBSET Recipients \ {{}} :
       req' = [req EXCEPT ![q] = [step |-> "freeze", audience |-> audience]]
  /\ UNCHANGED <<status, rcpt, jobs, worker, ghosts>>

(* ... writes the rows, leaving alone those that are there ...             *)
Freeze(q) ==
  /\ req[q].step = "freeze"
  /\ rcpt' = [r \in Recipients |->
       IF r \in req[q].audience /\ rcpt[r] = "ABSENT" THEN "PENDING" ELSE rcpt[r]]
  /\ Asks(q, "queue")
  /\ UNCHANGED <<status, jobs, worker, ghosts>>

(* ... the campaign, without looking at it again ...                       *)
Queue(q) ==
  /\ req[q].step = "queue"
  /\ status' = "QUEUED"
  /\ Asks(q, "enqueue")
  /\ UNCHANGED <<rcpt, jobs, worker, ghosts>>

(* ... and queues the run.  The job's id ends in the time, so a second run *)
(* is not refused.                                                         *)
Enqueue(q) ==
  /\ req[q].step = "enqueue"
  /\ \/ /\ jobs' = jobs + 1 /\ runs' = runs + 1
        /\ UNCHANGED <<faults, stranded>>
     \/ /\ UNCHANGED <<jobs, runs>>
        /\ Fault /\ stranded' = TRUE
  /\ Answers(q)
  /\ UNCHANGED <<status, rcpt, worker, mails, late, spares>>

(* cancel: not of a campaign that was sent or stopped already.             *)
CancelReads(q) ==
  /\ req[q] = NoRequest
  /\ status \notin {"SENT", "CANCELLED"}
  /\ Asks(q, "spare")
  /\ UNCHANGED <<status, rcpt, jobs, worker, ghosts>>

Spare(q) ==
  /\ req[q].step = "spare"
  /\ rcpt' = [r \in Recipients |-> IF r \in Waiting THEN "SKIPPED" ELSE rcpt[r]]
  /\ Asks(q, "cancel")
  /\ spares' = spares + 1
  /\ UNCHANGED <<status, jobs, worker, mails, late, runs, faults, stranded>>

Cancel(q) ==
  /\ req[q].step = "cancel"
  /\ status' = "CANCELLED"
  /\ Answers(q)
  /\ UNCHANGED <<rcpt, jobs, worker, ghosts>>

-----------------------------------------------------------------------------
(* sendBatch, statement by statement.                                      *)

Take(w) ==
  /\ worker[w] = Rest
  /\ jobs > 0 /\ jobs' = jobs - 1
  /\ Goto(w, "look")
  /\ UNCHANGED <<status, rcpt, req, ghosts>>

(* The one look at the campaign: a stopped one ends the run.               *)
Look(w) ==
  /\ At(w, "look")
  /\ worker' = [worker EXCEPT ![w] =
       CASE status = "CANCELLED" -> Rest
         [] status = "QUEUED"    -> [Rest EXCEPT !.step = "start", !.read = status]
         [] OTHER                -> [Rest EXCEPT !.step = "pick", !.read = status]]
  /\ UNCHANGED <<status, rcpt, jobs, req, ghosts>>

Start(w) ==
  /\ At(w, "start")
  /\ status' = "SENDING"
  /\ Goto(w, "pick")
  /\ UNCHANGED <<rcpt, jobs, req, ghosts>>

(* The next batch, or the end when nobody waits.                           *)
Pick(w) ==
  /\ At(w, "pick")
  /\ \E batch \in SUBSET Waiting :
       /\ Cardinality(batch) <= Batch
       /\ Cardinality(batch) = Batch \/ batch = Waiting
       /\ worker' = [worker EXCEPT ![w].step = IF batch = {} THEN "finish" ELSE "mail",
                                   ![w].todo = batch]
  /\ UNCHANGED <<status, rcpt, jobs, req, ghosts>>

(* One recipient of the batch is mailed, or refused by the provider ...    *)
Mail(w) ==
  /\ At(w, "mail")
  /\ \E r \in worker[w].todo :
       \/ /\ mails' = [mails EXCEPT ![r] = @ + 1]
          /\ late' = IF rcpt[r] = "SKIPPED" THEN late + 1 ELSE late
          /\ worker' = [worker EXCEPT ![w].step = "sent", ![w].now = r, ![w].todo = @ \ {r}]
       \/ /\ worker' = [worker EXCEPT ![w].step = "refused", ![w].now = r, ![w].todo = @ \ {r}]
          /\ UNCHANGED <<mails, late>>
  /\ UNCHANGED <<status, rcpt, jobs, req, runs, spares, faults, stranded>>

(* ... and its row updated, whatever has become of it since.               *)
Note(w) ==
  /\ worker[w].step \in {"sent", "refused"}
  /\ Mark(worker[w].now, IF At(w, "sent") THEN "SENT" ELSE "FAILED")
  /\ Goto(w, IF worker[w].todo = {} THEN "count" ELSE "mail")
  /\ UNCHANGED <<status, jobs, req, ghosts>>

(* The update to SENT fails, and the catch takes the mail for a refused    *)
(* one.                                                                    *)
NoteFails(w) ==
  /\ At(w, "sent")
  /\ Goto(w, "refused")
  /\ Fault
  /\ UNCHANGED <<status, rcpt, jobs, req, mails, late, runs, spares, stranded>>

(* Anybody left?  Then the processor queues the next batch.                *)
Count(w) ==
  /\ At(w, "count")
  /\ Goto(w, IF Waiting = {} THEN "reread" ELSE "again")
  /\ UNCHANGED <<status, rcpt, jobs, req, ghosts>>

Again(w) ==
  /\ At(w, "again")
  /\ jobs' = jobs + 1
  /\ Ends(w)
  /\ UNCHANGED <<status, rcpt, req, ghosts>>

Reread(w) ==
  /\ At(w, "reread")
  /\ worker' = [worker EXCEPT ![w].step = "finish", ![w].read = status]
  /\ UNCHANGED <<status, rcpt, jobs, req, ghosts>>

(* finish, given the campaign as it was read: unless that was sent or      *)
(* stopped, the rows are counted, and the campaign is sent, or failed when *)
(* nothing at all got through.                                             *)
Finish(w) ==
  /\ At(w, "finish")
  /\ IF worker[w].read \in {"SENT", "CANCELLED"}
     THEN Ends(w)
     ELSE Goto(w, IF With("SENT") = {} /\ With("FAILED") # {} THEN "fail" ELSE "close")
  /\ UNCHANGED <<status, rcpt, jobs, req, ghosts>>

Close(w) ==
  /\ worker[w].step \in {"fail", "close"}
  /\ status' = IF At(w, "fail") THEN "FAILED" ELSE "SENT"
  /\ Ends(w)
  /\ UNCHANGED <<rcpt, jobs, req, ghosts>>

(* The worker loses its job, which goes back to the queue; it has died, or *)
(* goes on unaware.                                                        *)
Stall(w) ==
  /\ worker[w] # Rest
  /\ jobs' = jobs + 1
  /\ Ends(w) \/ UNCHANGED worker
  /\ Fault
  /\ UNCHANGED <<status, rcpt, req, mails, late, runs, spares, stranded>>

(* A statement throws: the job has one attempt, so it is gone.             *)
JobFails(w) ==
  /\ worker[w] # Rest
  /\ Ends(w)
  /\ Fault /\ stranded' = TRUE
  /\ UNCHANGED <<status, rcpt, jobs, req, mails, late, runs, spares>>

WorkerStep(w) ==
  \/ Look(w) \/ Start(w) \/ Pick(w) \/ Mail(w) \/ Note(w) \/ Count(w)
  \/ Again(w) \/ Reread(w) \/ Finish(w) \/ Close(w)

RequestStep(q) == Freeze(q) \/ Queue(q) \/ Enqueue(q) \/ Spare(q) \/ Cancel(q)

Next ==
  \/ \E q \in Requests : SendReads(q) \/ CancelReads(q) \/ RequestStep(q)
  \/ \E w \in Workers : \/ Take(w) \/ WorkerStep(w)
                        \/ NoteFails(w) \/ Stall(w) \/ JobFails(w)

Spec == Init /\ [][Next]_vars

-----------------------------------------------------------------------------
RecipientStatus == {"ABSENT", "PENDING", "SENT", "FAILED", "SKIPPED"}
Request == [step : {"idle", "freeze", "queue", "enqueue", "spare", "cancel"},
            audience : SUBSET Recipients]
Batching == [step : {"idle", "look", "start", "pick", "mail", "sent", "refused", "count",
                     "again", "reread", "finish", "fail", "close"},
             read : EmailCampaignStatus,
             todo : SUBSET Recipients, now : Recipients \cup {"nobody"}]

(* A batch holds only people who are on the list, and a worker that is     *)
(* about to mail has somebody left to mail.                                *)
BatchIsListed(w) ==
  /\ worker[w].todo \cap With("ABSENT") = {}
  /\ At(w, "mail") => worker[w].todo # {}
  /\ worker[w].step \in {"sent", "refused"} =>
       worker[w].now \in Recipients \ With("ABSENT")

(* Types, and what a worker holds.                                         *)
TypeOK ==
  /\ status \in EmailCampaignStatus
  /\ rcpt \in [Recipients -> RecipientStatus]
  /\ req \in [Requests -> Request]
  /\ worker \in [Workers -> Batching]
  /\ \A w \in Workers : BatchIsListed(w)
  /\ mails \in [Recipients -> Nat]
  /\ {jobs, late, runs, spares, faults} \subseteq Nat
  /\ stranded \in BOOLEAN

(* Nobody is mailed more often than the campaign was queued, whatever is   *)
(* interrupted, unless a worker lost its job while it was mailing.         *)
MailedOncePerRun == \A r \in Recipients : mails[r] <= runs + faults

(* "This only spares the rows that have not been mailed yet": what a       *)
(* worker had picked when a campaign was stopped is mailed all the same,   *)
(* but no more than that.                                                  *)
StopLeavesOneBatch == late <= spares * Cardinality(Workers) * Batch

(* A recipient who is waiting is on somebody's list, unless the campaign   *)
(* was stopped or a fault took the job: no order of two runs and their     *)
(* ends leaves rows behind that no job will look at.                       *)
NobodyIsForgotten ==
  Waiting # {} /\ spares = 0 /\ ~ stranded =>
    \/ jobs > 0
    \/ \E w \in Workers : worker[w] # Rest
    \/ \E q \in Requests : req[q].step \in {"queue", "enqueue"}

(* "A run where nothing at all got through is FAILED, not SENT", and one   *)
(* where something did is not FAILED: for a campaign queued once, whatever *)
(* was stopped meanwhile.                                                  *)
OutcomeIsHonest ==
  runs <= 1 /\ faults = 0 =>
    /\ status = "FAILED" => With("SENT") = {}
    /\ status = "SENT" /\ With("FAILED") # {} => With("SENT") # {}
=============================================================================
