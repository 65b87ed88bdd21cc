---------------------------- MODULE Notifications ----------------------------
(***************************************************************************)
(* From an event to a message: a dispatcher writes a `notifications` row   *)
(* and hands its id to the queue; a worker delivers it, retries what the   *)
(* provider refuses, keeps the SMS of a day within a budget, and notes on  *)
(* the row what became of it; a sweep requeues rows that are still         *)
(* waiting.                                                                *)
(*                                                                         *)
(* The row and the queue are two stores.  Either write may fail, a worker  *)
(* may lose its job while it goes on (or dies) and the job is given to     *)
(* another one, and the provider may deliver and yet report an error: each *)
(* such event is a fault, and the number of faults is bounded.             *)
(***************************************************************************)
EXTENDS Naturals, FiniteSets

CONSTANTS
  Notices,    \* dedupe keys: each has at most one row
  Sms,        \* the ones that go out by SMS, the others by e-mail
  Workers,    \* workers of all the API's instances
  Attempts,   \* attempts a job is given
  Limit,      \* SMS per day
  MaxStalls,  \* how often the queue gives a job to another worker
  MaxFaults   \* bound on the faults of a behaviour

ASSUME SmsAssumption    == Sms \subseteq Notices
ASSUME NumberAssumption == /\ {Attempts, Limit, MaxStalls, MaxFaults} \subseteq Nat
                           /\ Attempts > 0
ASSUME FiniteAssumption == IsFiniteSet(Notices) /\ IsFiniteSet(Workers)
ASSUME WorkAssumption   == Workers # {}

VARIABLES
  row,     \* Notification.status by dedupe key
  swept,   \* rows a requeue pass has read and not handed over yet
  job,     \* the job under the row's id: where it is, whose, how often tried
  worker,  \* what each worker is doing
  texts,   \* how often the message reached the recipient
  faults   \* faults so far

vars == <<row, swept, job, worker, texts, faults>>

NobodysJob == "nobody"
NoJob == [at |-> "none", by |-> NobodysJob, tries |-> 0, stalls |-> 0]
ASSUME NobodyAssumption == NobodysJob \notin Workers
Idle  == [step |-> "idle", notice |-> "none", last |-> FALSE]

Init ==
  /\ row = [n \in Notices |-> "ABSENT"]
  /\ swept = {}
  /\ job = [n \in Notices |-> NoJob]
  /\ worker = [w \in Workers |-> Idle]
  /\ texts = [n \in Notices |-> 0]
  /\ faults = 0

Pending(n)  == row[n] = "PENDING"
SentToday   == Cardinality({n \in Sms : row[n] = "SENT"})
Works(w, step, n) == worker[w].step = step /\ worker[w].notice = n
Goto(w, step)     == worker' = [worker EXCEPT ![w].step = step]
Rest(w)           == worker' = [worker EXCEPT ![w] = Idle]
Fault             == faults < MaxFaults /\ faults' = faults + 1
Mark(n, status)   == row' = [row EXCEPT ![n] = status]
Delivered(n)      == texts' = [texts EXCEPT ![n] = @ + 1]

-----------------------------------------------------------------------------
(* Variants of the steps below, each with a fault a careless edit could    *)
(* introduce; the properties are tried against them.                       *)

EnqueueWithoutId(n) == job' = [job EXCEPT ![n].at = "waiting"]

RecordWithoutStatus(w, n) ==
  /\ Works(w, "record", n)
  /\ Goto(w, "done")
  /\ UNCHANGED <<row, swept, job, texts, faults>>

BudgetOffByOne(w, n) ==
  /\ Works(w, "budget", n)
  /\ Goto(w, IF SentToday > Limit THEN "skip" ELSE "send")
  /\ UNCHANGED <<row, swept, job, texts, faults>>

SweepReadsNothing ==
  /\ swept = {}
  /\ swept' = {n \in Notices : Pending(n) /\ job[n].at = "waiting"}
  /\ UNCHANGED <<row, job, worker, texts, faults>>

CatchNeverGivesUp(w, n) ==
  /\ Works(w, "catch", n)
  /\ Goto(w, "throw")
  /\ UNCHANGED <<row, swept, job, texts, faults>>

-----------------------------------------------------------------------------
(* enqueue: the job id is the row's id, and an add under an id that is     *)
(* known to the queue, in its failed set too, is ignored.                  *)
Enqueue(n) ==
  job' = IF job[n].at = "none" THEN [job EXCEPT ![n].at = "waiting"] ELSE job

(* dispatchOrThrow: the row, unless one exists under the key, and its job. *)
(* An enqueue that fails is logged and swallowed.  Nobody looks at a row   *)
(* this young (the sweep wants it ten minutes old), so this is one step.   *)
(* The row is skipped at once when the recipient has no address or opted   *)
(* out.                                                                    *)
Dispatch(n) ==
  /\ row[n] = "ABSENT"
  /\ \/ Mark(n, "PENDING") /\ (Enqueue(n) \/ UNCHANGED job)
     \/ Mark(n, "SKIPPED") /\ UNCHANGED job
  /\ UNCHANGED <<swept, worker, texts, faults>>

(* requeueStale reads the rows still waiting ...                           *)
SweepReads ==
  /\ swept = {}
  /\ swept' = {n \in Notices : Pending(n)}
  /\ UNCHANGED <<row, job, worker, texts, faults>>

(* ... hands them to the queue one by one ...                              *)
SweepHandsOver(n) ==
  /\ n \in swept
  /\ swept' = swept \ {n}
  /\ Enqueue(n)
  /\ UNCHANGED <<row, worker, texts, faults>>

(* ... and stops when the queue does not answer.                           *)
SweepStops ==
  /\ swept # {}
  /\ swept' = {}
  /\ UNCHANGED <<row, job, worker, texts, faults>>

-----------------------------------------------------------------------------
(* The worker.                                                             *)

Take(w, n) ==
  /\ worker[w] = Idle
  /\ job[n].at = "waiting"
  /\ job' = [job EXCEPT ![n].at = "active", ![n].by = w]
  /\ worker' = [worker EXCEPT ![w] =
       [step |-> "read", notice |-> n, last |-> job[n].tries + 1 >= Attempts]]
  /\ UNCHANGED <<row, swept, texts, faults>>

(* process reads the row; anything but PENDING is somebody else's work     *)
(* done, and a recipient without an address by now is skipped.  The read   *)
(* is outside the try, the statements after it are inside.                 *)
Read(w, n) ==
  /\ Works(w, "read", n)
  /\ \/ ~ Pending(n) /\ Goto(w, "done") /\ UNCHANGED faults
     \/ /\ Pending(n)
        /\ Goto(w, IF n \in Sms THEN "budget" ELSE "send") \/ Goto(w, "skip")
        /\ UNCHANGED faults
     \/ Goto(w, "throw") /\ Fault
  /\ UNCHANGED <<row, swept, job, texts>>

(* blockReason counts what was sent today.                                 *)
Budget(w, n) ==
  /\ Works(w, "budget", n)
  /\ \/ Goto(w, IF SentToday >= Limit THEN "skip" ELSE "send") /\ UNCHANGED faults
     \/ Goto(w, "catch") /\ Fault
  /\ UNCHANGED <<row, swept, job, texts>>

Skip(w, n) ==
  /\ Works(w, "skip", n)
  /\ \/ Mark(n, "SKIPPED") /\ Goto(w, "done") /\ UNCHANGED faults
     \/ UNCHANGED row /\ Goto(w, "catch") /\ Fault
  /\ UNCHANGED <<swept, job, texts>>

(* The provider delivers, refuses, or delivers and reports an error.       *)
Send(w, n) ==
  /\ Works(w, "send", n)
  /\ \/ Delivered(n) /\ Goto(w, "record") /\ UNCHANGED faults
     \/ UNCHANGED texts /\ Goto(w, "catch") /\ UNCHANGED faults
     \/ Delivered(n) /\ Goto(w, "catch") /\ Fault
  /\ UNCHANGED <<row, swept, job>>

(* The update to SENT has no condition; should it fail, the catch takes a  *)
(* delivered message for a failed one.                                     *)
Record(w, n) ==
  /\ Works(w, "record", n)
  /\ \/ Mark(n, "SENT") /\ Goto(w, "done") /\ UNCHANGED faults
     \/ UNCHANGED row /\ Goto(w, "catch") /\ Fault
  /\ UNCHANGED <<swept, job, texts>>

(* The catch gives the row up with the job's last attempt, then rethrows.  *)
Catch(w, n) ==
  /\ Works(w, "catch", n)
  /\ Goto(w, "throw")
  /\ \/ /\ IF worker[w].last THEN Mark(n, "FAILED") ELSE UNCHANGED row
        /\ UNCHANGED faults
     \/ UNCHANGED row /\ Fault
  /\ UNCHANGED <<swept, job, texts>>

-----------------------------------------------------------------------------
(* The queue (BullMQ): a finished job is removed, a failed one is retried  *)
(* and at last kept, by the worker that still holds it.                    *)

Done(w, n) ==
  /\ Works(w, "done", n)
  /\ job' = IF job[n].by = w THEN [job EXCEPT ![n] = NoJob] ELSE job
  /\ Rest(w)
  /\ UNCHANGED <<row, swept, texts, faults>>

Throw(w, n) ==
  /\ Works(w, "throw", n)
  /\ job' = IF job[n].by = w
            THEN [job EXCEPT ![n].at = IF worker[w].last THEN "failed" ELSE "waiting",
                             ![n].by = NobodysJob, ![n].tries = @ + 1]
            ELSE job
  /\ Rest(w)
  /\ UNCHANGED <<row, swept, texts, faults>>

(* The worker's lock runs out: the job goes back to the queue, or to the   *)
(* failed set when that happens once too often.  The worker has died, or   *)
(* is only slow and goes on unaware.                                       *)
Stall(w, n) ==
  /\ job[n].at = "active" /\ job[n].by = w
  /\ job' = [job EXCEPT ![n].at = IF job[n].stalls < MaxStalls THEN "waiting" ELSE "failed",
                        ![n].by = NobodysJob, ![n].stalls = @ + 1]
  /\ Rest(w) \/ UNCHANGED worker
  /\ Fault
  /\ UNCHANGED <<row, swept, texts>>

WorkerStep(w, n) ==
  \/ Read(w, n) \/ Budget(w, n) \/ Skip(w, n) \/ Send(w, n) \/ Record(w, n)
  \/ Catch(w, n) \/ Done(w, n) \/ Throw(w, n)

Next ==
  \/ \E n \in Notices : Dispatch(n) \/ SweepHandsOver(n)
  \/ SweepReads \/ SweepStops
  \/ \E w \in Workers, n \in Notices : Take(w, n) \/ WorkerStep(w, n) \/ Stall(w, n)

Spec == Init /\ [][Next]_vars

(* The requeue job is repeated for ever and the queue takes a row it is    *)
(* offered often enough; a worker takes jobs and finishes what it does.    *)
FairSpec ==
  /\ Spec
  /\ WF_vars(SweepReads)
  /\ \A n \in Notices : SF_vars(SweepHandsOver(n))
  /\ \A w \in Workers :
       /\ WF_vars(\E n \in Notices : Take(w, n))
       /\ WF_vars(\E n \in Notices : WorkerStep(w, n))

-----------------------------------------------------------------------------
Job     == [at : {"none", "waiting", "active", "failed"}, by : Workers \cup {NobodysJob},
            tries : 0 .. Attempts, stalls : 0 .. MaxStalls + 1]
Working == [step : {"idle", "read", "budget", "skip", "send", "record", "catch", "done", "throw"},
            notice : Notices \cup {"none"}, last : BOOLEAN]

(* Types; exactly the active jobs have a worker.                           *)
TypeOK ==
  /\ row \in [Notices -> {"ABSENT", "PENDING", "SENT", "FAILED", "SKIPPED"}]
  /\ swept \subseteq Notices
  /\ job \in [Notices -> Job]
  /\ \A n \in Notices : job[n].at = "active" <=> job[n].by # NobodysJob
  /\ worker \in [Workers -> Working]
  /\ texts \in [Notices -> Nat]
  /\ faults \in 0 .. MaxFaults

(* A message goes out twice only after a fault: the requeue sweep, retries *)
(* and several workers do not repeat what was delivered and noted.         *)
SentOnceButForFaults == \A n \in Notices : texts[n] <= 1 + faults

(* The SMS of a day: the budget is looked at before a send and moves after *)
(* it, so workers pass it together, by less than their number, and by what *)
(* was sent and not noted.                                                 *)
TextsSent    == UNION {{n} \X (1 .. texts[n]) : n \in Sms}
BudgetIsKept == Cardinality(TextsSent) <= Limit + Cardinality(Workers) - 1 + faults

(* Nothing is stuck without a fault: a job ends in the failed set, whose   *)
(* id keeps the sweep from trying again, with its row settled.             *)
StuckOnlyByFault ==
  \A n \in Notices : Pending(n) /\ job[n].at = "failed" => faults > 0

(* Everything written is delivered, skipped or given up, although the      *)
(* first enqueue may fail: the requeue sweep finds what was left, unless   *)
(* its job is in the failed set.                                           *)
EveryNoticeIsSettled ==
  \A n \in Notices : Pending(n) ~> ~ Pending(n) \/ job[n].at = "failed"
=============================================================================
