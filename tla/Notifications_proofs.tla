------------------------ MODULE Notifications_proofs ------------------------
(***************************************************************************)
(* Proofs about notifications, for any numbers of notices, workers,        *)
(* attempts, stalls and faults.                                            *)
(*                                                                         *)
(* What went out is bounded together with what may still go out: a worker  *)
(* before its send, a job that will be tried again, a row whose job is yet *)
(* to come.  Only a fault makes a second one of these.                     *)
(***************************************************************************)
EXTENDS Notifications, FiniteSetTheorems, TLAPS

(* A row that is not settled, and one that a job to come will deliver.     *)
Live(n) == row[n] \in {"ABSENT", "PENDING"}
Open(n) == Live(n) /\ job[n].at \in {"none", "waiting"}

(* A worker that may send the message, or give its job back for another    *)
(* attempt.                                                                *)
MaySend(w, n) ==
  /\ worker[w].notice = n
  /\ \/ worker[w].step \in {"budget", "send"}
     \/ worker[w].step = "read" /\ Live(n)
     \/ worker[w].step \in {"catch", "throw"} /\ job[n].by = w
Senders(n) == {w \in Workers : MaySend(w, n)}

Deliveries ==
  \A n \in Notices :
    texts[n] + (IF Open(n) THEN 1 ELSE 0) + Cardinality(Senders(n)) <= 1 + faults

(* The worker that holds a job is at work on it, and knows whether it is   *)
(* the last attempt; a job that is not in the failed set has one left.     *)
HoldsItsJob ==
  \A n \in Notices, w \in Workers : job[n].by = w =>
    /\ worker[w].notice = n /\ worker[w].step # "idle"
    /\ worker[w].last <=> job[n].tries + 1 >= Attempts
InReach ==
  \A n \in Notices : job[n].at # "failed" =>
    job[n].tries < Attempts /\ job[n].stalls <= MaxStalls

(* Only a row that was written has a job and is worked on.                 *)
WrittenFirst ==
  \A n \in Notices : row[n] = "ABSENT" =>
    /\ job[n].at = "none" /\ n \notin swept
    /\ \A w \in Workers : worker[w].notice = n => worker[w].step = "idle"

(* A worker is done only with a settled row, and without a fault a row is  *)
(* settled before its job is given up.                                     *)
DoneIsSettled == \A w \in Workers, n \in Notices : Works(w, "done", n) => ~ Live(n)
GivenUp ==
  /\ \A n \in Notices : Live(n) /\ job[n].at = "failed" => faults > 0
  /\ \A w \in Workers, n \in Notices :
       Works(w, "throw", n) /\ worker[w].last /\ Live(n) => faults > 0

IInv ==
  /\ TypeOK /\ HoldsItsJob /\ InReach /\ WrittenFirst
  /\ DoneIsSettled /\ GivenUp /\ Deliveries

-----------------------------------------------------------------------------
(* How a count changes when a set of workers shrinks, loses or gains one.  *)
LEMMA Counts ==
  ASSUME NEW S \in SUBSET Workers
  PROVE  /\ IsFiniteSet(S) /\ Cardinality(S) \in Nat
         /\ \A T : T \subseteq S => Cardinality(T) \in Nat /\ Cardinality(T) <= Cardinality(S)
         /\ \A w \in S : \A T : T \subseteq S \ {w} =>
              Cardinality(T) \in Nat /\ Cardinality(T) <= Cardinality(S) - 1
         /\ \A w \in Workers : \A T : T \subseteq S \cup {w} =>
              Cardinality(T) \in Nat /\ Cardinality(T) <= Cardinality(S) + 1
<1>1. IsFiniteSet(S) /\ Cardinality(S) \in Nat
  BY FiniteAssumption, FS_Subset, FS_CardinalityType
<1>2. ASSUME NEW T, T \subseteq S
      PROVE  Cardinality(T) \in Nat /\ Cardinality(T) <= Cardinality(S)
  BY <1>1, <1>2, FS_Subset, FS_CardinalityType
<1>3. ASSUME NEW w \in S, NEW T, T \subseteq S \ {w}
      PROVE  Cardinality(T) \in Nat /\ Cardinality(T) <= Cardinality(S) - 1
  <2>1. IsFiniteSet(S \ {w}) /\ Cardinality(S \ {w}) = Cardinality(S) - 1
    BY <1>1, FS_RemoveElement
  <2> QED
    BY <1>3, <2>1, FS_Subset, FS_CardinalityType
<1>4. ASSUME NEW w \in Workers, NEW T, T \subseteq S \cup {w}
      PROVE  Cardinality(T) \in Nat /\ Cardinality(T) <= Cardinality(S) + 1
  <2>1. IsFiniteSet(S \cup {w}) /\ Cardinality(S \cup {w}) <= Cardinality(S) + 1
    BY <1>1, FS_AddElement
  <2>2. IsFiniteSet(T) /\ Cardinality(T) <= Cardinality(S \cup {w})
    BY <1>4, <2>1, FS_Subset
  <2> QED
    BY <1>1, <2>1, <2>2, FS_CardinalityType
<1> QED
  BY <1>1, <1>2, <1>3, <1>4

-----------------------------------------------------------------------------
(* The steps of the dispatcher and of the sweep, and those of a worker.    *)
Dispatches == (\E n \in Notices : Dispatch(n) \/ SweepHandsOver(n)) \/ SweepReads \/ SweepStops
Delivers(w, n) == Take(w, n) \/ WorkerStep(w, n) \/ Stall(w, n)

(* A dispatcher or a sweep leaves the workers alone; it settles no row but *)
(* a new one, and the only thing it does to a job is to queue it.          *)
LEMMA DispatchesShape ==
  ASSUME TypeOK, Dispatches
  PROVE  /\ worker' = worker /\ texts' = texts /\ faults' = faults
         /\ row' \in [Notices -> {"ABSENT", "PENDING", "SENT", "FAILED", "SKIPPED"}]
         /\ swept' \subseteq Notices /\ job' \in [Notices -> Job]
         /\ \A n \in Notices :
              /\ Live(n)' => Live(n)
              /\ \/ job'[n] = job[n]
                 \/ job[n].at = "none" /\ job'[n] = [job[n] EXCEPT !.at = "waiting"]
<1>1. worker' = worker /\ texts' = texts /\ faults' = faults
  BY DEF Dispatches, Dispatch, SweepHandsOver, SweepReads, SweepStops
<1>2. /\ row \in [Notices -> {"ABSENT", "PENDING", "SENT", "FAILED", "SKIPPED"}]
      /\ swept \subseteq Notices /\ job \in [Notices -> Job]
  BY DEF TypeOK
<1>3. ASSUME NEW n \in Notices, Enqueue(n)
      PROVE  /\ job' \in [Notices -> Job]
             /\ \A m \in Notices :
                  \/ job'[m] = job[m]
                  \/ job[m].at = "none" /\ job'[m] = [job[m] EXCEPT !.at = "waiting"]
  BY <1>2, <1>3 DEF Enqueue, Job
<1>4. CASE \E n \in Notices : Dispatch(n)
  <2>1. PICK n \in Notices : Dispatch(n)
    BY <1>4
  <2>2. /\ row' \in [Notices -> {"ABSENT", "PENDING", "SENT", "FAILED", "SKIPPED"}]
        /\ \A m \in Notices : Live(m)' => Live(m)
    BY <1>2, <2>1 DEF Dispatch, Mark, Live
  <2>3. swept' = swept /\ (Enqueue(n) \/ job' = job)
    BY <2>1 DEF Dispatch
  <2> QED
    BY <1>1, <1>2, <1>3, <2>2, <2>3
<1>5. CASE \E n \in Notices : SweepHandsOver(n)
  <2>1. PICK n \in Notices : SweepHandsOver(n)
    BY <1>5
  <2>2. row' = row /\ swept' \subseteq swept /\ Enqueue(n)
    BY <2>1 DEF SweepHandsOver
  <2> QED
    BY <1>1, <1>2, <1>3, <2>2 DEF Live
<1>6. CASE SweepReads \/ SweepStops
  BY <1>1, <1>2, <1>6 DEF SweepReads, SweepStops, Live
<1> QED
  BY <1>4, <1>5, <1>6 DEF Dispatches

(* They queue nothing under a row they have not written.                   *)
LEMMA DispatchesKeepWritten ==
  ASSUME TypeOK, WrittenFirst, Dispatches
  PROVE  WrittenFirst'
<1>1. worker' = worker /\ job \in [Notices -> Job]
  BY DispatchesShape DEF TypeOK
<1> SUFFICES ASSUME NEW m \in Notices, row'[m] = "ABSENT"
             PROVE  row[m] = "ABSENT" /\ job'[m] = job[m] /\ (m \in swept' => m \in swept)
  BY <1>1 DEF WrittenFirst
<1>2. ASSUME NEW n \in Notices, n # m, Enqueue(n)
      PROVE  job'[m] = job[m]
  BY <1>1, <1>2 DEF Enqueue
<1>3. CASE \E n \in Notices : Dispatch(n)
  <2>1. PICK n \in Notices : Dispatch(n)
    BY <1>3
  <2>2. n # m /\ row[m] = "ABSENT"
    BY <2>1 DEF Dispatch, Mark, TypeOK
  <2>3. swept' = swept /\ (Enqueue(n) \/ job' = job)
    BY <2>1 DEF Dispatch
  <2> QED
    BY <1>2, <2>2, <2>3
<1>4. CASE \E n \in Notices : SweepHandsOver(n)
  <2>1. PICK n \in Notices : SweepHandsOver(n)
    BY <1>4
  <2>2. row' = row /\ swept' \subseteq swept /\ Enqueue(n) /\ n \in swept
    BY <2>1 DEF SweepHandsOver
  <2>3. n # m
    BY <2>2 DEF WrittenFirst
  <2> QED
    BY <1>2, <2>2, <2>3
<1>5. CASE SweepReads \/ SweepStops
  BY <1>5 DEF SweepReads, SweepStops, Pending
<1> QED
  BY <1>3, <1>4, <1>5 DEF Dispatches

(* They keep the invariant: a job that is queued now was still to come.    *)
LEMMA DispatchesKeepIInv ==
  ASSUME IInv, Dispatches
  PROVE  IInv'
<1>1. /\ TypeOK /\ HoldsItsJob /\ InReach /\ WrittenFirst /\ DoneIsSettled /\ GivenUp
      /\ Deliveries
  BY DEF IInv
<1>2. /\ worker' = worker /\ texts' = texts /\ faults' = faults
      /\ row' \in [Notices -> {"ABSENT", "PENDING", "SENT", "FAILED", "SKIPPED"}]
      /\ swept' \subseteq Notices /\ job' \in [Notices -> Job]
      /\ \A n \in Notices :
           /\ Live(n)' => Live(n)
           /\ \/ job'[n] = job[n]
              \/ job[n].at = "none" /\ job'[n] = [job[n] EXCEPT !.at = "waiting"]
  BY <1>1, DispatchesShape
<1>3. job \in [Notices -> Job]
  BY <1>1 DEF TypeOK
<1>4. ASSUME NEW n \in Notices
      PROVE  /\ job'[n].by = job[n].by /\ job'[n].tries = job[n].tries
             /\ job'[n].stalls = job[n].stalls
             /\ job'[n].at = job[n].at \/ (job[n].at = "none" /\ job'[n].at = "waiting")
  BY <1>2, <1>3 DEF Job
<1>5. TypeOK'
  BY <1>1, <1>2, <1>4 DEF TypeOK
<1>6. HoldsItsJob' /\ InReach'
  BY <1>1, <1>2, <1>4 DEF HoldsItsJob, InReach
<1>7. DoneIsSettled' /\ GivenUp'
  BY <1>1, <1>2, <1>4 DEF DoneIsSettled, GivenUp, Works
<1>8. Deliveries'
  <2> SUFFICES ASSUME NEW n \in Notices
               PROVE  texts'[n] + (IF Open(n)' THEN 1 ELSE 0) + Cardinality(Senders(n)') <= 1 + faults'
    BY DEF Deliveries
  <2>1. Open(n)' => Open(n)
    BY <1>2, <1>4 DEF Open
  <2>2. Senders(n)' \subseteq Senders(n) /\ Senders(n) \in SUBSET Workers
    BY <1>2, <1>4 DEF Senders, MaySend
  <2>3. /\ Cardinality(Senders(n)') \in Nat /\ Cardinality(Senders(n)) \in Nat
        /\ Cardinality(Senders(n)') <= Cardinality(Senders(n))
    BY <2>2, Counts
  <2>4. /\ texts[n] + (IF Open(n) THEN 1 ELSE 0) + Cardinality(Senders(n)) <= 1 + faults
        /\ texts[n] \in Nat /\ faults \in Nat
    BY <1>1 DEF Deliveries, TypeOK
  <2> QED
    BY <1>2, <2>1, <2>3, <2>4
<1>9. WrittenFirst'
  BY <1>1, DispatchesKeepWritten
<1> QED
  BY <1>5, <1>6, <1>7, <1>8, <1>9 DEF IInv

-----------------------------------------------------------------------------
(* A worker's step touches one worker, one job, one row and its message,   *)
(* and never makes a settled row live again.                               *)
LEMMA DeliversShape ==
  ASSUME TypeOK, NEW w \in Workers, NEW n \in Notices, Delivers(w, n)
  PROVE  /\ worker' = [worker EXCEPT ![w] = worker'[w]]
         /\ job' = [job EXCEPT ![n] = job'[n]]
         /\ row' = [row EXCEPT ![n] = row'[n]]
         /\ row'[n] = row[n] \/ row'[n] \in {"SENT", "FAILED", "SKIPPED"}
         /\ swept' = swept
         /\ faults' = faults \/ (faults' = faults + 1 /\ faults < MaxFaults)
         /\ \/ texts' = texts
            \/ Send(w, n) /\ texts' = [texts EXCEPT ![n] = texts[n] + 1]
<1>1. /\ worker \in [Workers -> Working] /\ job \in [Notices -> Job]
      /\ row \in [Notices -> {"ABSENT", "PENDING", "SENT", "FAILED", "SKIPPED"}]
      /\ texts \in [Notices -> Nat]
  BY DEF TypeOK
<1>2. worker' = [worker EXCEPT ![w] = worker'[w]]
  BY <1>1 DEF Delivers, Take, WorkerStep, Read, Budget, Skip, Send, Record, Catch, Done, Throw, Stall,
     Goto, Rest
<1>3. job' = [job EXCEPT ![n] = job'[n]]
  BY <1>1 DEF Delivers, Take, WorkerStep, Read, Budget, Skip, Send, Record, Catch, Done, Throw, Stall
<1>4. /\ row' = [row EXCEPT ![n] = row'[n]]
      /\ row'[n] = row[n] \/ row'[n] \in {"SENT", "FAILED", "SKIPPED"}
  BY <1>1 DEF Delivers, Take, WorkerStep, Read, Budget, Skip, Send, Record, Catch, Done, Throw, Stall, Mark
<1>5. swept' = swept /\ (faults' = faults \/ (faults' = faults + 1 /\ faults < MaxFaults))
  BY DEF Delivers, Take, WorkerStep, Read, Budget, Skip, Send, Record, Catch, Done, Throw, Stall, Fault
<1>6. \/ texts' = texts
      \/ Send(w, n) /\ texts' = [texts EXCEPT ![n] = texts[n] + 1]
  BY DEF Delivers, Take, WorkerStep, Read, Budget, Skip, Send, Record, Catch, Done, Throw, Stall, Delivered
<1> QED
  BY <1>2, <1>3, <1>4, <1>5, <1>6

(* What the step does to the worker: it takes a job, rests, goes on with   *)
(* the same notice, or stalls unaware.                                     *)
LEMMA WorkerGoesOn ==
  ASSUME TypeOK, NEW w \in Workers, NEW n \in Notices, Delivers(w, n)
  PROVE  /\ worker'[w] \in Working
         /\ \/ /\ Take(w, n) /\ worker'[w].step = "read" /\ worker'[w].notice = n
               /\ worker'[w].last <=> job[n].tries + 1 >= Attempts
            \/ (Done(w, n) \/ Throw(w, n) \/ Stall(w, n)) /\ worker'[w] = Idle
            \/ Stall(w, n) /\ worker'[w] = worker[w]
            \/ /\ \/ Read(w, n) \/ Budget(w, n) \/ Skip(w, n) \/ Send(w, n) \/ Record(w, n)
                  \/ Catch(w, n)
               /\ worker[w].notice = n /\ worker'[w].notice = n
               /\ worker'[w].last = worker[w].last
               /\ worker[w].step # "idle" /\ worker'[w].step # "idle"
<1>1. worker \in [Workers -> Working] /\ worker[w] \in Working
  BY DEF TypeOK
<1>2. CASE Take(w, n)
  <2>1. worker'[w] = [step |-> "read", notice |-> n, last |-> job[n].tries + 1 >= Attempts]
    BY <1>1, <1>2 DEF Take
  <2>2. (job[n].tries + 1 >= Attempts) \in BOOLEAN
    OBVIOUS
  <2>3. worker'[w] \in Working
    BY <2>1, <2>2 DEF Working
  <2>4. worker'[w].step = "read" /\ worker'[w].notice = n
    BY <2>1
  <2>5. worker'[w].last <=> job[n].tries + 1 >= Attempts
    <3> DEFINE known == worker'[w]
               tries == job[n].tries
    <3>1. tries \in Nat /\ Attempts \in Nat
      BY NumberAssumption DEF TypeOK, Job
    <3>2. known = [step |-> "read", notice |-> n, last |-> tries + 1 >= Attempts]
      BY <2>1
    <3> HIDE DEF known, tries
    <3>3. known.last <=> tries + 1 >= Attempts
      BY <3>1, <3>2
    <3> QED
      BY <3>3 DEF known, tries
  <2> QED
    BY <1>2, <2>3, <2>4, <2>5
<1>3. Idle \in Working
  BY DEF Idle, Working
<1>4. CASE Done(w, n) \/ Throw(w, n)
  <2>1. worker'[w] = Idle
    BY <1>1, <1>4 DEF Done, Throw, Rest
  <2> QED
    BY <1>3, <1>4, <2>1
<1>5. CASE Stall(w, n)
  <2>1. worker'[w] = Idle \/ worker'[w] = worker[w]
    BY <1>1, <1>5 DEF Stall, Rest
  <2> QED
    BY <1>1, <1>3, <1>5, <2>1
<1>6. CASE Read(w, n) \/ Budget(w, n) \/ Skip(w, n) \/ Send(w, n) \/ Record(w, n) \/ Catch(w, n)
  <2>1. PICK step \in {"budget", "skip", "send", "record", "catch", "done", "throw"} : Goto(w, step)
    BY <1>6 DEF Read, Budget, Skip, Send, Record, Catch
  <2>2. worker'[w] = [worker[w] EXCEPT !.step = step]
    BY <1>1, <2>1 DEF Goto
  <2>3. /\ worker'[w].step = step /\ worker'[w].notice = worker[w].notice
        /\ worker'[w].last = worker[w].last /\ worker'[w] \in Working
    BY <1>1, <2>1, <2>2 DEF Working
  <2>4. worker[w].notice = n /\ worker[w].step # "idle"
    BY <1>6 DEF Read, Budget, Skip, Send, Record, Catch, Works
  <2> QED
    BY <1>6, <2>1, <2>3, <2>4
<1> QED
  BY <1>2, <1>4, <1>5, <1>6 DEF Delivers, WorkerStep

(* What the step does to the job: it is taken, finished, given back or     *)
(* kept as failed by the worker that holds it, or left alone.              *)
LEMMA JobGoesOn ==
  ASSUME TypeOK, HoldsItsJob, InReach, NEW w \in Workers, NEW n \in Notices, Delivers(w, n)
  PROVE  /\ job'[n] \in Job
         /\ job'[n].at = "active" <=> job'[n].by # NobodysJob
         /\ job'[n].at # "failed" => job'[n].tries < Attempts /\ job'[n].stalls <= MaxStalls
         /\ \/ /\ job'[n] = job[n] /\ ~ Take(w, n) /\ ~ Stall(w, n)
               /\ Done(w, n) \/ Throw(w, n) => job[n].by # w
            \/ /\ Take(w, n) /\ job[n].at = "waiting" /\ job'[n].at = "active"
               /\ job'[n].by = w /\ job'[n].tries = job[n].tries
            \/ Done(w, n) /\ job[n].by = w /\ job'[n] = NoJob
            \/ /\ \/ Throw(w, n) /\ (job'[n].at = "failed" => worker[w].last)
                  \/ Stall(w, n)
               /\ job[n].by = w /\ job'[n].by = NobodysJob /\ job'[n].at \in {"waiting", "failed"}
<1>1. /\ job \in [Notices -> Job] /\ job[n] \in Job
      /\ job[n].at = "active" <=> job[n].by # NobodysJob
      /\ job[n].at # "failed" => job[n].tries < Attempts /\ job[n].stalls <= MaxStalls
  BY DEF TypeOK, InReach
<1>2. Attempts \in Nat /\ Attempts > 0 /\ MaxStalls \in Nat /\ w # NobodysJob
  BY NumberAssumption, NobodyAssumption
<1>3. CASE Take(w, n)
  <2>1. job'[n] = [job[n] EXCEPT !.at = "active", !.by = w] /\ job[n].at = "waiting"
    BY <1>1, <1>3 DEF Take
  <2>2. /\ job'[n].at = "active" /\ job'[n].by = w /\ job'[n].tries = job[n].tries
        /\ job'[n].stalls = job[n].stalls /\ job'[n] \in Job
    BY <1>1, <2>1 DEF Job
  <2> QED
    BY <1>1, <1>2, <1>3, <2>1, <2>2
<1>4. CASE /\ \/ Read(w, n) \/ Budget(w, n) \/ Skip(w, n) \/ Send(w, n) \/ Record(w, n)
              \/ Catch(w, n) \/ Done(w, n) \/ Throw(w, n)
           /\ job' = job
  <2>1. worker[w] # Idle
    BY <1>4 DEF Read, Budget, Skip, Send, Record, Catch, Done, Throw, Works, Idle
  <2>2. ~ Take(w, n)
    BY <2>1 DEF Take
  <2>3. ~ Stall(w, n)
    <3>1. SUFFICES ASSUME Stall(w, n) PROVE FALSE
      OBVIOUS
    <3>2. job'[n].by = NobodysJob /\ job[n].by = w
      BY <1>1, <3>1 DEF Stall, Job
    <3> QED
      BY <1>2, <1>4, <3>2
  <2>4. ASSUME Done(w, n) \/ Throw(w, n)
        PROVE  job[n].by # w
    <3>1. CASE Done(w, n) /\ job[n].by = w
      <4>1. job'[n] = NoJob
        BY <1>1, <3>1 DEF Done
      <4> QED
        BY <1>2, <1>4, <3>1, <4>1 DEF NoJob
    <3>2. CASE Throw(w, n) /\ job[n].by = w
      <4>1. job'[n].by = NobodysJob
        BY <1>1, <3>2 DEF Throw, Job
      <4> QED
        BY <1>2, <1>4, <3>2, <4>1
    <3> QED
      BY <2>4, <3>1, <3>2
  <2> QED
    BY <1>1, <1>4, <2>2, <2>3, <2>4
<1>5. CASE Done(w, n) /\ job' # job
  <2>1. job[n].by = w /\ job'[n] = NoJob
    BY <1>1, <1>5 DEF Done
  <2>2. NoJob \in Job /\ NoJob.at = "none" /\ NoJob.by = NobodysJob /\ NoJob.tries = 0 /\ NoJob.stalls = 0
    BY <1>2 DEF NoJob, Job
  <2> QED
    BY <1>2, <1>5, <2>1, <2>2
<1>6. CASE Throw(w, n) /\ job' # job
  <2>1. PICK at \in {"failed", "waiting"} :
          /\ job' = [job EXCEPT ![n].at = at, ![n].by = NobodysJob, ![n].tries = @ + 1]
          /\ at = "failed" <=> worker[w].last
    BY <1>6 DEF Throw
  <2>2. job[n].by = w
    BY <1>6 DEF Throw
  <2>3. /\ job'[n].at = at /\ job'[n].by = NobodysJob /\ job'[n].tries = job[n].tries + 1
        /\ job'[n].stalls = job[n].stalls
    BY <1>1, <2>1 DEF Job
  <2>4. /\ job[n].at # "failed"
        /\ worker[w].last <=> job[n].tries + 1 >= Attempts
    BY <1>1, <1>2, <2>2 DEF HoldsItsJob
  <2>5. job[n].tries \in Nat /\ job[n].tries < Attempts /\ job[n].stalls <= MaxStalls
    BY <1>1, <2>4 DEF Job
  <2>6. job[n].tries + 1 \in 0 .. Attempts /\ (at # "failed" => job[n].tries + 1 < Attempts)
    BY <1>2, <2>1, <2>4, <2>5
  <2>7. job'[n] = [job[n] EXCEPT !.at = at, !.by = NobodysJob, !.tries = job[n].tries + 1]
    BY <1>1, <2>1
  <2>8. job'[n] \in Job
    BY <1>1, <2>6, <2>7 DEF Job
  <2> QED
    BY <1>6, <2>1, <2>2, <2>3, <2>5, <2>6, <2>8
<1>7. CASE Stall(w, n)
  <2>1. PICK at \in {"failed", "waiting"} :
          /\ job' = [job EXCEPT ![n].at = at, ![n].by = NobodysJob, ![n].stalls = @ + 1]
          /\ at = "waiting" <=> job[n].stalls < MaxStalls
    BY <1>7 DEF Stall
  <2>2. job[n].by = w /\ job[n].at = "active"
    BY <1>7 DEF Stall
  <2>3. /\ job'[n].at = at /\ job'[n].by = NobodysJob /\ job'[n].tries = job[n].tries
        /\ job'[n].stalls = job[n].stalls + 1
    BY <1>1, <2>1 DEF Job
  <2>4. job[n].tries < Attempts /\ job[n].stalls \in Nat /\ job[n].stalls <= MaxStalls
    BY <1>1, <2>2 DEF Job
  <2>5. job[n].stalls + 1 \in 0 .. MaxStalls + 1 /\ (at # "failed" => job[n].stalls + 1 <= MaxStalls)
    BY <1>2, <2>1, <2>4
  <2>6. job'[n] = [job[n] EXCEPT !.at = at, !.by = NobodysJob, !.stalls = job[n].stalls + 1]
    BY <1>1, <2>1
  <2>7. job'[n] \in Job
    BY <1>1, <2>5, <2>6 DEF Job
  <2> QED
    BY <1>7, <2>1, <2>2, <2>3, <2>4, <2>5, <2>7
<1>8. Delivers(w, n) =>
        \/ Take(w, n) \/ Stall(w, n) \/ (Done(w, n) /\ job' # job) \/ (Throw(w, n) /\ job' # job)
        \/ /\ \/ Read(w, n) \/ Budget(w, n) \/ Skip(w, n) \/ Send(w, n) \/ Record(w, n)
              \/ Catch(w, n) \/ Done(w, n) \/ Throw(w, n)
           /\ job' = job
  BY DEF Delivers, WorkerStep, Read, Budget, Skip, Send, Record, Catch
<1> QED
  BY <1>3, <1>4, <1>5, <1>6, <1>7, <1>8

(* What the other steps do to the row and to the message.                  *)
LEMMA Outcomes ==
  ASSUME TypeOK, WrittenFirst, NEW w \in Workers, NEW n \in Notices,
         Read(w, n) \/ Budget(w, n) \/ Skip(w, n) \/ Send(w, n) \/ Record(w, n) \/ Catch(w, n)
  PROVE  /\ job' = job
         /\ worker'[w].step = "done" => ~ Live(n)'
         /\ worker'[w].step = "throw" /\ worker[w].last /\ Live(n)' => faults' = faults + 1
         /\ MaySend(w, n)' => MaySend(w, n) \/ faults' = faults + 1
         /\ texts'[n] = texts[n] \/ /\ texts'[n] = texts[n] + 1 /\ MaySend(w, n)
                                    /\ ~ MaySend(w, n)' \/ faults' = faults + 1
<1>1. /\ worker \in [Workers -> Working] /\ worker[w] \in Working
      /\ row \in [Notices -> {"ABSENT", "PENDING", "SENT", "FAILED", "SKIPPED"}]
      /\ texts \in [Notices -> Nat]
  BY DEF TypeOK
<1>2. job' = job
  BY DEF Read, Budget, Skip, Send, Record, Catch
<1>3. ASSUME NEW step, Goto(w, step)
      PROVE  worker'[w].step = step /\ worker'[w].notice = worker[w].notice
  BY <1>1, <1>3 DEF Goto, Working
<1>4. CASE Read(w, n)
  <2>1. /\ worker[w].step = "read" /\ worker[w].notice = n /\ row' = row /\ texts' = texts
        /\ row[n] # "ABSENT"
    BY <1>4 DEF Read, Works, WrittenFirst
  <2>2. \/ ~ Pending(n) /\ Goto(w, "done")
        \/ Pending(n) /\ (Goto(w, "budget") \/ Goto(w, "send") \/ Goto(w, "skip"))
        \/ Goto(w, "throw") /\ faults' = faults + 1
    BY <1>4 DEF Read, Fault
  <2>3. \/ ~ Pending(n) /\ worker'[w].step = "done"
        \/ Pending(n) /\ worker'[w].step \in {"budget", "send", "skip"}
        \/ worker'[w].step = "throw" /\ faults' = faults + 1
    BY <1>3, <2>2
  <2> QED
    BY <1>2, <2>1, <2>3 DEF Pending, Live, MaySend
<1>5. CASE Budget(w, n)
  <2>1. /\ worker[w].step = "budget" /\ worker[w].notice = n /\ row' = row /\ texts' = texts
        /\ Goto(w, "skip") \/ Goto(w, "send") \/ (Goto(w, "catch") /\ faults' = faults + 1)
    BY <1>5 DEF Budget, Works, Fault
  <2>2. worker'[w].step \in {"skip", "send", "catch"}
    BY <1>3, <2>1
  <2> QED
    BY <1>2, <2>1, <2>2 DEF MaySend
<1>6. CASE Skip(w, n)
  <2>1. /\ worker[w].step = "skip" /\ worker[w].notice = n /\ texts' = texts
        /\ \/ Mark(n, "SKIPPED") /\ Goto(w, "done")
           \/ Goto(w, "catch") /\ faults' = faults + 1
    BY <1>6 DEF Skip, Works, Fault
  <2>2. \/ row'[n] = "SKIPPED" /\ worker'[w].step = "done"
        \/ worker'[w].step = "catch" /\ faults' = faults + 1
    BY <1>1, <1>3, <2>1 DEF Mark
  <2> QED
    BY <1>2, <2>1, <2>2 DEF MaySend, Live
<1>7. CASE Send(w, n)
  <2>1. /\ worker[w].step = "send" /\ worker[w].notice = n
        /\ \/ Delivered(n) /\ Goto(w, "record")
           \/ texts' = texts /\ Goto(w, "catch")
           \/ Delivered(n) /\ Goto(w, "catch") /\ faults' = faults + 1
    BY <1>7 DEF Send, Works, Fault
  <2>2. \/ texts'[n] = texts[n] + 1 /\ worker'[w].step = "record"
        \/ texts' = texts /\ worker'[w].step = "catch"
        \/ texts'[n] = texts[n] + 1 /\ worker'[w].step = "catch" /\ faults' = faults + 1
    BY <1>1, <1>3, <2>1 DEF Delivered
  <2> QED
    BY <1>2, <2>1, <2>2 DEF MaySend
<1>8. CASE Record(w, n)
  <2>1. /\ worker[w].step = "record" /\ worker[w].notice = n /\ texts' = texts
        /\ \/ Mark(n, "SENT") /\ Goto(w, "done")
           \/ Goto(w, "catch") /\ faults' = faults + 1
    BY <1>8 DEF Record, Works, Fault
  <2>2. \/ row'[n] = "SENT" /\ worker'[w].step = "done"
        \/ worker'[w].step = "catch" /\ faults' = faults + 1
    BY <1>1, <1>3, <2>1 DEF Mark
  <2> QED
    BY <1>2, <2>1, <2>2 DEF MaySend, Live
<1>9. CASE Catch(w, n)
  <2>1. /\ worker[w].step = "catch" /\ worker[w].notice = n /\ texts' = texts /\ Goto(w, "throw")
        /\ (worker[w].last => Mark(n, "FAILED")) \/ faults' = faults + 1
    BY <1>9 DEF Catch, Works, Fault
  <2>2. /\ worker'[w].step = "throw"
        /\ (worker[w].last => row'[n] = "FAILED") \/ faults' = faults + 1
    BY <1>1, <1>3, <2>1 DEF Mark
  <2> QED
    BY <1>2, <2>1, <2>2 DEF MaySend, Live
<1> QED
  BY <1>4, <1>5, <1>6, <1>7, <1>8, <1>9

-----------------------------------------------------------------------------
(* The step of a worker leaves the types in order, and a job that is not   *)
(* given up within its attempts and stalls.                                *)
LEMMA DeliversKeepsTypes ==
  ASSUME TypeOK, HoldsItsJob, InReach, NEW w \in Workers, NEW n \in Notices, Delivers(w, n)
  PROVE  TypeOK' /\ InReach'
<1>1. /\ worker \in [Workers -> Working] /\ job \in [Notices -> Job]
      /\ row \in [Notices -> {"ABSENT", "PENDING", "SENT", "FAILED", "SKIPPED"}]
      /\ texts \in [Notices -> Nat] /\ faults \in 0 .. MaxFaults /\ swept \subseteq Notices
      /\ \A m \in Notices : job[m].at = "active" <=> job[m].by # NobodysJob
  BY DEF TypeOK
<1>2. /\ worker' = [worker EXCEPT ![w] = worker'[w]] /\ worker'[w] \in Working
      /\ job' = [job EXCEPT ![n] = job'[n]] /\ job'[n] \in Job
      /\ job'[n].at = "active" <=> job'[n].by # NobodysJob
      /\ job'[n].at # "failed" => job'[n].tries < Attempts /\ job'[n].stalls <= MaxStalls
      /\ row' = [row EXCEPT ![n] = row'[n]]
      /\ row'[n] = row[n] \/ row'[n] \in {"SENT", "FAILED", "SKIPPED"}
      /\ swept' = swept
      /\ faults' = faults \/ (faults' = faults + 1 /\ faults < MaxFaults)
      /\ texts' = texts \/ texts' = [texts EXCEPT ![n] = texts[n] + 1]
  BY DeliversShape, WorkerGoesOn, JobGoesOn
<1>3. \A m \in Notices \ {n} : job'[m] = job[m]
  BY <1>1, <1>2
<1>4. worker' \in [Workers -> Working] /\ job' \in [Notices -> Job]
  BY <1>1, <1>2
<1>5. row' \in [Notices -> {"ABSENT", "PENDING", "SENT", "FAILED", "SKIPPED"}]
  BY <1>1, <1>2
<1>6. faults' \in 0 .. MaxFaults /\ texts' \in [Notices -> Nat]
  BY <1>1, <1>2, NumberAssumption
<1>7. \A m \in Notices : job'[m].at = "active" <=> job'[m].by # NobodysJob
  BY <1>1, <1>2, <1>3
<1>8. InReach'
  BY <1>2, <1>3 DEF InReach
<1> QED
  BY <1>1, <1>2, <1>4, <1>5, <1>6, <1>7, <1>8 DEF TypeOK

(* The worker that holds a job goes on with it, or gives it up as it       *)
(* rests.                                                                  *)
LEMMA DeliversKeepsHolds ==
  ASSUME TypeOK, HoldsItsJob, InReach, NEW w \in Workers, NEW n \in Notices, Delivers(w, n)
  PROVE  HoldsItsJob'
<1>1. worker \in [Workers -> Working] /\ job \in [Notices -> Job] /\ NobodysJob \notin Workers
  BY NobodyAssumption DEF TypeOK
<1>2. /\ worker' = [worker EXCEPT ![w] = worker'[w]]
      /\ job' = [job EXCEPT ![n] = job'[n]]
  BY DeliversShape
<1>3. \A v \in Workers \ {w} : worker'[v] = worker[v]
  BY <1>1, <1>2
<1> SUFFICES ASSUME NEW m \in Notices, NEW v \in Workers, job'[m].by = v
             PROVE  /\ worker'[v].notice = m /\ worker'[v].step # "idle"
                    /\ worker'[v].last <=> job'[m].tries + 1 >= Attempts
  BY DEF HoldsItsJob
<1>4. CASE job'[m] = job[m] /\ v # w
  BY <1>3, <1>4 DEF HoldsItsJob
<1>5. CASE job'[m] = job[m] /\ v = w
  <2>1. /\ worker[w].notice = m /\ worker[w].step # "idle"
        /\ worker[w].last <=> job[m].tries + 1 >= Attempts
    BY <1>5 DEF HoldsItsJob
  <2>2. ~ Take(w, n)
    BY <2>1 DEF Take, Idle
  <2>3. m # n => ~ Done(w, n) /\ ~ Throw(w, n) /\ ~ Stall(w, n)
    BY <2>1 DEF Done, Throw, Stall, Works, HoldsItsJob
  <2>4. m = n => ~ Done(w, n) /\ ~ Throw(w, n) /\ ~ Stall(w, n)
    BY <1>1, <1>5, JobGoesOn DEF NoJob
  <2>5. /\ worker'[w].notice = worker[w].notice /\ worker'[w].last = worker[w].last
        /\ worker'[w].step # "idle"
    BY <2>1, <2>2, <2>3, <2>4, WorkerGoesOn
  <2> QED
    BY <1>5, <2>1, <2>5
<1>6. CASE job'[m] # job[m]
  <2>1. m = n
    BY <1>1, <1>2, <1>6
  <2>2. NoJob.by = NobodysJob
    BY DEF NoJob
  <2>3. /\ Take(w, n) /\ job'[n].by = w /\ job'[n].tries = job[n].tries
    BY <1>1, <1>6, <2>1, <2>2, JobGoesOn
  <2>4. /\ worker'[w].notice = n /\ worker'[w].step = "read"
        /\ worker'[w].last <=> job[n].tries + 1 >= Attempts
    <3>1. worker[w] = Idle /\ Idle.step = "idle"
      BY <2>3 DEF Take, Idle
    <3>2. ~ WorkerStep(w, n) /\ ~ Stall(w, n)
      BY <2>3, <3>1 DEF Take, Stall, WorkerStep, Read, Budget, Skip, Send, Record, Catch, Done, Throw,
         Works
    <3> QED
      BY <3>2, WorkerGoesOn DEF WorkerStep
  <2>5. v = w
    BY <2>1, <2>3
  <2> QED
    BY <2>1, <2>3, <2>4, <2>5
<1> QED
  BY <1>4, <1>5, <1>6

(* A worker is at work only on rows that were written.                     *)
LEMMA DeliversKeepsWritten ==
  ASSUME TypeOK, HoldsItsJob, InReach, WrittenFirst,
         NEW w \in Workers, NEW n \in Notices, Delivers(w, n)
  PROVE  WrittenFirst'
<1>1. /\ worker \in [Workers -> Working] /\ job \in [Notices -> Job]
      /\ row \in [Notices -> {"ABSENT", "PENDING", "SENT", "FAILED", "SKIPPED"}]
  BY DEF TypeOK
<1>2. /\ worker' = [worker EXCEPT ![w] = worker'[w]]
      /\ job' = [job EXCEPT ![n] = job'[n]]
      /\ row' = [row EXCEPT ![n] = row'[n]] /\ swept' = swept
      /\ row'[n] = row[n] \/ row'[n] \in {"SENT", "FAILED", "SKIPPED"}
  BY DeliversShape
<1>3. row[n] # "ABSENT"
  <2>1. CASE Take(w, n) \/ Stall(w, n)
    BY <2>1 DEF Take, Stall, WrittenFirst
  <2>2. CASE WorkerStep(w, n)
    BY <2>2 DEF WorkerStep, Read, Budget, Skip, Send, Record, Catch, Done, Throw, Works, WrittenFirst
  <2> QED
    BY <2>1, <2>2 DEF Delivers
<1> SUFFICES ASSUME NEW m \in Notices, row'[m] = "ABSENT"
             PROVE  /\ job'[m].at = "none" /\ m \notin swept'
                    /\ \A v \in Workers : worker'[v].notice = m => worker'[v].step = "idle"
  BY DEF WrittenFirst
<1>4. m # n /\ row[m] = "ABSENT" /\ job'[m] = job[m]
  BY <1>1, <1>2, <1>3
<1>5. worker'[w].notice = m => worker'[w].step = "idle"
  <2>1. worker'[w].notice = n \/ worker'[w].step = "idle" \/ worker'[w] = worker[w]
    BY WorkerGoesOn DEF Idle
  <2> QED
    BY <1>4, <2>1 DEF WrittenFirst
<1>6. \A v \in Workers \ {w} : worker'[v] = worker[v]
  BY <1>1, <1>2
<1> QED
  BY <1>2, <1>4, <1>5, <1>6 DEF WrittenFirst

(* Whoever is done leaves a settled row, and no row is given up unsettled  *)
(* without a fault.                                                        *)
LEMMA DeliversKeepsGivenUp ==
  ASSUME TypeOK, HoldsItsJob, InReach, WrittenFirst, DoneIsSettled, GivenUp,
         NEW w \in Workers, NEW n \in Notices, Delivers(w, n)
  PROVE  DoneIsSettled' /\ GivenUp'
<1>1. /\ worker \in [Workers -> Working] /\ job \in [Notices -> Job] /\ faults \in Nat
      /\ row \in [Notices -> {"ABSENT", "PENDING", "SENT", "FAILED", "SKIPPED"}]
  BY NumberAssumption DEF TypeOK
<1>2. /\ worker' = [worker EXCEPT ![w] = worker'[w]]
      /\ job' = [job EXCEPT ![n] = job'[n]]
      /\ row' = [row EXCEPT ![n] = row'[n]]
      /\ row'[n] = row[n] \/ row'[n] \in {"SENT", "FAILED", "SKIPPED"}
      /\ faults' = faults \/ faults' = faults + 1
  BY DeliversShape
<1>3. /\ \A v \in Workers \ {w} : worker'[v] = worker[v]
      /\ \A m \in Notices \ {n} : job'[m] = job[m]
      /\ \A m \in Notices : Live(m)' => Live(m)
  BY <1>1, <1>2 DEF Live
<1>4. faults > 0 => faults' > 0
  BY <1>1, <1>2
<1>5. ASSUME NEW m \in Notices, Works(w, "done", m)'
      PROVE  ~ Live(m)'
  <2>1. CASE worker'[w] = worker[w]
    BY <1>3, <1>5, <2>1 DEF DoneIsSettled, Works
  <2>2. CASE worker'[w] # worker[w]
    <3>1. /\ Read(w, n) \/ Budget(w, n) \/ Skip(w, n) \/ Send(w, n) \/ Record(w, n) \/ Catch(w, n)
          /\ worker'[w].notice = n
      BY <1>5, <2>2, WorkerGoesOn DEF Works, Idle
    <3> QED
      BY <1>5, <3>1, Outcomes DEF Works
  <2> QED
    BY <2>1, <2>2
<1>6. ASSUME NEW m \in Notices, Works(w, "throw", m)', worker'[w].last, Live(m)'
      PROVE  faults' > 0
  <2>1. CASE worker'[w] = worker[w]
    BY <1>3, <1>4, <1>6, <2>1 DEF GivenUp, Works
  <2>2. CASE worker'[w] # worker[w]
    <3>1. worker'[w].step = "throw" /\ worker'[w].notice = m
      BY <1>6 DEF Works
    <3>2. /\ Read(w, n) \/ Budget(w, n) \/ Skip(w, n) \/ Send(w, n) \/ Record(w, n) \/ Catch(w, n)
          /\ worker'[w].notice = n /\ worker'[w].last = worker[w].last
      BY <2>2, <3>1, WorkerGoesOn DEF Idle
    <3>3. faults' = faults + 1
      BY <1>6, <3>1, <3>2, Outcomes
    <3> QED
      BY <1>1, <3>3
  <2> QED
    BY <2>1, <2>2
<1>7. ASSUME Live(n)', job'[n].at = "failed"
      PROVE  faults' > 0
  <2>1. CASE job'[n] = job[n]
    BY <1>3, <1>4, <1>7, <2>1 DEF GivenUp
  <2>2. CASE Throw(w, n) /\ job'[n] # job[n] /\ ~ Stall(w, n)
    <3>1. worker[w].last
      BY <1>7, <2>2, JobGoesOn DEF NoJob
    <3>2. Works(w, "throw", n)
      BY <2>2 DEF Throw
    <3> QED
      BY <1>3, <1>4, <1>7, <3>1, <3>2 DEF GivenUp
  <2>3. CASE Stall(w, n)
    <3>1. faults' = faults + 1
      BY <2>3 DEF Stall, Fault
    <3> QED
      BY <1>1, <3>1
  <2> QED
    BY <1>7, <2>1, <2>2, <2>3, JobGoesOn DEF NoJob
<1>8. DoneIsSettled'
  BY <1>3, <1>5 DEF DoneIsSettled, Works
<1>9. GivenUp'
  BY <1>3, <1>4, <1>6, <1>7 DEF GivenUp, Works
<1> QED
  BY <1>8, <1>9

-----------------------------------------------------------------------------
(* Who may send a message: of the other notices nobody new, and of this    *)
(* one at most the worker that takes the step.                             *)
LEMMA OthersSendNoMore ==
  ASSUME TypeOK, HoldsItsJob, InReach, NEW w \in Workers, NEW n \in Notices, Delivers(w, n)
  PROVE  /\ \A m \in Notices \ {n} : Senders(m)' \subseteq Senders(m) /\ (Open(m)' => Open(m))
         /\ Senders(n)' \subseteq Senders(n) \cup {w}
         /\ (MaySend(w, n)' => MaySend(w, n)) => Senders(n)' \subseteq Senders(n)
         /\ ~ MaySend(w, n)' => Senders(n)' \subseteq Senders(n) \ {w}
         /\ Live(n)' => Live(n)
<1>1. /\ worker \in [Workers -> Working] /\ job \in [Notices -> Job] /\ NobodysJob \notin Workers
      /\ row \in [Notices -> {"ABSENT", "PENDING", "SENT", "FAILED", "SKIPPED"}]
  BY NobodyAssumption DEF TypeOK
<1>2. /\ worker' = [worker EXCEPT ![w] = worker'[w]]
      /\ job' = [job EXCEPT ![n] = job'[n]]
      /\ row' = [row EXCEPT ![n] = row'[n]]
      /\ row'[n] = row[n] \/ row'[n] \in {"SENT", "FAILED", "SKIPPED"}
  BY DeliversShape
<1>3. /\ \A v \in Workers \ {w} : worker'[v] = worker[v]
      /\ \A m \in Notices \ {n} : job'[m] = job[m] /\ row'[m] = row[m]
  BY <1>1, <1>2
<1>4. Live(n)' => Live(n)
  BY <1>2 DEF Live
<1>5. \A v \in Workers \ {w} : job'[n].by = v => job[n].by = v
  BY <1>1, JobGoesOn DEF NoJob
<1>6. \A v \in Workers \ {w} : MaySend(v, n)' => MaySend(v, n)
  BY <1>3, <1>4, <1>5 DEF MaySend
<1>7. ASSUME NEW m \in Notices \ {n}
      PROVE  Senders(m)' \subseteq Senders(m) /\ (Open(m)' => Open(m))
  <2>1. Open(m)' => Open(m)
    BY <1>3 DEF Open, Live
  <2>2. \A v \in Workers \ {w} : MaySend(v, m)' => MaySend(v, m)
    BY <1>3 DEF MaySend, Live
  <2>3. MaySend(w, m)' => MaySend(w, m)
    <3>1. worker'[w].notice = n \/ worker'[w].step = "idle" \/ worker'[w] = worker[w]
      BY WorkerGoesOn DEF Idle
    <3> QED
      BY <1>3, <3>1 DEF MaySend, Live
  <2> QED
    BY <2>1, <2>2, <2>3 DEF Senders
<1> QED
  BY <1>4, <1>6, <1>7 DEF Senders

(* A step sends only what may be sent, and gives nobody else leave to send *)
(* it without a fault.                                                     *)
LEMMA DeliversKeepsDeliveries ==
  ASSUME TypeOK, HoldsItsJob, InReach, WrittenFirst, DoneIsSettled, Deliveries,
         NEW w \in Workers, NEW n \in Notices, Delivers(w, n)
  PROVE  Deliveries'
<1> DEFINE Opened(m)  == IF Open(m) THEN 1 ELSE 0
           Sending(m) == Cardinality(Senders(m))
<1>1. /\ texts \in [Notices -> Nat] /\ faults \in Nat
      /\ worker \in [Workers -> Working] /\ job \in [Notices -> Job]
  BY NumberAssumption DEF TypeOK
<1>2. /\ faults' \in {faults, faults + 1}
      /\ \/ texts' = texts
         \/ Send(w, n) /\ texts' = [texts EXCEPT ![n] = texts[n] + 1]
  BY DeliversShape
<1>3. \A m \in Notices :
        /\ texts[m] + Opened(m) + Sending(m) <= 1 + faults
        /\ Sending(m) \in Nat /\ Sending(m)' \in Nat
  <2>1. \A m \in Notices : Senders(m) \in SUBSET Workers /\ Senders(m)' \in SUBSET Workers
    BY DEF Senders
  <2> QED
    BY <2>1, Counts DEF Deliveries
<1>4. ASSUME NEW m \in Notices \ {n}
      PROVE  texts'[m] + Opened(m)' + Sending(m)' <= 1 + faults'
  <2>1. Sending(m)' <= Sending(m) /\ (Open(m)' => Open(m))
    <3>1. Senders(m)' \subseteq Senders(m) /\ (Open(m)' => Open(m)) /\ Senders(m) \in SUBSET Workers
      BY OthersSendNoMore DEF Senders
    <3> QED
      BY <3>1, Counts
  <2>2. texts'[m] = texts[m] /\ texts[m] \in Nat
    BY <1>1, <1>2
  <2> QED
    BY <1>1, <1>2, <1>3, <2>1, <2>2
<1>5. /\ Sending(n)' <= Sending(n) + 1
      /\ (MaySend(w, n)' => MaySend(w, n)) => Sending(n)' <= Sending(n)
      /\ MaySend(w, n) /\ ~ MaySend(w, n)' => Sending(n)' <= Sending(n) - 1
      /\ Live(n)' => Live(n)
  <2>1. Senders(n) \in SUBSET Workers /\ (MaySend(w, n) <=> w \in Senders(n))
    BY DEF Senders
  <2> QED
    BY <2>1, OthersSendNoMore, Counts
<1>6. texts[n] + Opened(n) + Sending(n) <= 1 + faults
  BY <1>3
<1>7. texts[n] \in Nat /\ Sending(n) \in Nat /\ Sending(n)' \in Nat
  BY <1>1, <1>3
<1>8. texts'[n] + Opened(n)' + Sending(n)' <= 1 + faults'
  <2>1. CASE Read(w, n) \/ Budget(w, n) \/ Skip(w, n) \/ Send(w, n) \/ Record(w, n) \/ Catch(w, n)
    <3>1. /\ job' = job
          /\ MaySend(w, n)' => MaySend(w, n) \/ faults' = faults + 1
          /\ texts'[n] = texts[n] \/ /\ texts'[n] = texts[n] + 1 /\ MaySend(w, n)
                                     /\ ~ MaySend(w, n)' \/ faults' = faults + 1
      BY <2>1, Outcomes
    <3>2. Open(n)' => Open(n)
      BY <1>5, <3>1 DEF Open
    <3> QED
      BY <1>1, <1>2, <1>5, <1>6, <1>7, <3>1, <3>2
  <2>2. CASE Done(w, n)
    <3>1. texts' = texts /\ faults' = faults /\ Works(w, "done", n)
      BY <2>2 DEF Done
    <3>2. ~ MaySend(w, n)'
      BY <1>1, <2>2 DEF Done, Rest, Idle, MaySend
    <3>3. ~ Open(n)'
      BY <1>5, <3>1 DEF DoneIsSettled, Open
    <3> QED
      BY <1>1, <1>5, <1>6, <1>7, <3>1, <3>2, <3>3
  <2>3. CASE Throw(w, n)
    <3>1. texts' = texts /\ faults' = faults
      BY <2>3 DEF Throw
    <3>2. ~ MaySend(w, n)'
      BY <1>1, <2>3 DEF Throw, Rest, Idle, MaySend
    <3>3. CASE job[n].by = w
      <4>1. MaySend(w, n)
        BY <2>3, <3>3 DEF Throw, Works, MaySend
      <4> QED
        BY <1>1, <1>5, <1>6, <1>7, <3>1, <3>2, <4>1
    <3>4. CASE job[n].by # w
      <4>1. Open(n)' => Open(n)
        BY <1>5, <2>3, <3>4 DEF Throw, Open
      <4> QED
        BY <1>1, <1>5, <1>6, <1>7, <3>1, <3>2, <4>1
    <3> QED
      BY <3>3, <3>4
  <2>4. CASE Take(w, n)
    <3>1. texts' = texts /\ faults' = faults /\ job[n].at = "waiting" /\ row' = row
      BY <2>4 DEF Take
    <3>2. job'[n].at = "active" /\ worker'[w].step = "read"
      BY <1>1, <2>4 DEF Take, Job
    <3>3. ~ Open(n)'
      BY <3>2 DEF Open
    <3>4. MaySend(w, n)' => Open(n)
      BY <3>1, <3>2 DEF MaySend, Live, Open
    <3> QED
      BY <1>1, <1>5, <1>6, <1>7, <3>1, <3>3, <3>4
  <2>5. CASE Stall(w, n)
    <3>1. texts' = texts /\ faults' = faults + 1 /\ job[n].at = "active" /\ row' = row
      BY <2>5 DEF Stall, Fault
    <3>2. job'[n].by # w
      BY <1>1, <2>5, NobodyAssumption DEF Stall, Job
    <3>3. worker'[w].step = "idle" \/ worker'[w] = worker[w]
      BY <1>1, <2>5 DEF Stall, Rest, Idle
    <3>4. MaySend(w, n)' => MaySend(w, n)
      BY <3>1, <3>2, <3>3 DEF MaySend, Live
    <3>5. ~ Open(n)
      BY <3>1 DEF Open
    <3> QED
      BY <1>1, <1>5, <1>6, <1>7, <3>1, <3>4, <3>5
  <2> QED
    BY <2>1, <2>2, <2>3, <2>4, <2>5 DEF Delivers, WorkerStep
<1> QED
  BY <1>4, <1>8 DEF Deliveries

-----------------------------------------------------------------------------
(* Before anything is written the invariant holds.                         *)
LEMMA InitIInv == Init => IInv
<1> SUFFICES ASSUME Init
             PROVE  IInv
  OBVIOUS
<1>1. /\ faults = 0 /\ swept = {}
      /\ \A n \in Notices : row[n] = "ABSENT" /\ texts[n] = 0 /\ job[n] = NoJob
      /\ \A w \in Workers : worker[w] = Idle
  BY DEF Init
<1>2. /\ NoJob \in Job /\ Idle \in Working
      /\ NoJob.at = "none" /\ NoJob.by = NobodysJob /\ NoJob.tries = 0 /\ NoJob.stalls = 0
      /\ Idle.step = "idle" /\ NobodysJob \notin Workers
      /\ Attempts \in Nat /\ Attempts > 0 /\ MaxStalls \in Nat /\ MaxFaults \in Nat
  BY NumberAssumption, NobodyAssumption DEF NoJob, Idle, Job, Working
<1>3. TypeOK
  BY <1>1, <1>2 DEF Init, TypeOK
<1>4. HoldsItsJob /\ InReach /\ WrittenFirst
  BY <1>1, <1>2 DEF HoldsItsJob, InReach, WrittenFirst
<1>5. DoneIsSettled /\ GivenUp
  BY <1>1, <1>2 DEF DoneIsSettled, GivenUp, Works
<1>6. Deliveries
  <2>1. \A n \in Notices : Senders(n) = {}
    BY <1>1, <1>2 DEF Senders, MaySend
  <2>2. \A n \in Notices : Cardinality(Senders(n)) = 0
    BY <2>1, FS_EmptySet
  <2> QED
    BY <1>1, <2>2 DEF Deliveries
<1> QED
  BY <1>3, <1>4, <1>5, <1>6 DEF IInv

(* Every step keeps the invariant.                                         *)
LEMMA NextIInv == IInv /\ [Next]_vars => IInv'
<1> SUFFICES ASSUME IInv, [Next]_vars
             PROVE  IInv'
  OBVIOUS
<1>1. CASE Dispatches
  BY <1>1, DispatchesKeepIInv
<1>2. ASSUME NEW w \in Workers, NEW n \in Notices, Delivers(w, n)
      PROVE  IInv'
  BY <1>2, DeliversKeepsTypes, DeliversKeepsHolds, DeliversKeepsWritten, DeliversKeepsGivenUp,
     DeliversKeepsDeliveries DEF IInv
<1>3. CASE UNCHANGED vars
  <2>1. TypeOK' /\ HoldsItsJob' /\ InReach' /\ WrittenFirst'
    BY <1>3 DEF vars, IInv, TypeOK, HoldsItsJob, InReach, WrittenFirst
  <2>2. DoneIsSettled' /\ GivenUp' /\ Deliveries'
    BY <1>3 DEF vars, IInv, DoneIsSettled, GivenUp, Works, Live, Deliveries, Open, Senders, MaySend
  <2> QED
    BY <2>1, <2>2 DEF IInv
<1> QED
  BY <1>1, <1>2, <1>3 DEF Next, Dispatches, Delivers

(* The invariant holds throughout.                                         *)
THEOREM Invariance == Spec => []IInv
BY InitIInv, NextIInv, PTL DEF Spec

(* The state is well typed, exactly the active jobs have a worker, and no  *)
(* job is tried or stalled more often than the queue allows.               *)
THEOREM TypeCorrect == Spec => []TypeOK
<1>1. IInv => TypeOK
  BY DEF IInv
<1> QED
  BY <1>1, Invariance, PTL

(* Retries, the requeue sweep and several workers send a message a second  *)
(* time only after a fault: once more at most for each.                    *)
THEOREM SentOnceHolds == Spec => []SentOnceButForFaults
<1>1. ASSUME IInv
      PROVE  SentOnceButForFaults
  <2> SUFFICES ASSUME NEW n \in Notices
               PROVE  texts[n] <= 1 + faults
    BY DEF SentOnceButForFaults
  <2>1. Senders(n) \in SUBSET Workers
    BY DEF Senders
  <2>2. /\ texts[n] + (IF Open(n) THEN 1 ELSE 0) + Cardinality(Senders(n)) <= 1 + faults
        /\ texts[n] \in Nat /\ faults \in Nat /\ Cardinality(Senders(n)) \in Nat
    BY <1>1, <2>1, Counts, NumberAssumption DEF IInv, Deliveries, TypeOK
  <2> QED
    BY <2>2
<1> QED
  BY <1>1, Invariance, PTL

(* Without a fault no row is left waiting behind a job that was given up.  *)
THEOREM StuckOnlyByFaultHolds == Spec => []StuckOnlyByFault
<1>1. IInv => StuckOnlyByFault
  BY DEF IInv, GivenUp, StuckOnlyByFault, Live, Pending
<1> QED
  BY <1>1, Invariance, PTL

-----------------------------------------------------------------------------
(* The SMS of a day.                                                       *)
(*                                                                         *)
(* An SMS that went out is paid for by a row noted as sent, by a worker    *)
(* about to note it, or by a fault.  Whoever may still send one is counted *)
(* beside it, so that a retry pays with the attempt it gives up.           *)

(* A worker that has not delivered yet and may, or may let another attempt *)
(* do so.                                                                  *)
Pursues(w, n) ==
  /\ worker[w].notice = n
  /\ \/ worker[w].step \in {"budget", "send", "skip", "catch"}
     \/ worker[w].step = "read" /\ Live(n)
     \/ worker[w].step = "throw" /\ ~ worker[w].last /\ Live(n) /\ job[n].by = w
Claims(n) ==
  \/ row[n] = "SENT" \/ Open(n)
  \/ \E w \in Workers : Pursues(w, n) \/ Works(w, "record", n)

Pursuits  == {p \in Workers \X Sms : Pursues(p[1], p[2])}
OpenSms   == {n \in Sms : Open(n)}
Claimed   == {n \in Sms : Claims(n)}
SentRows  == {n \in Sms : row[n] = "SENT"}
Sending   == {w \in Workers : worker[w].step = "send" /\ worker[w].notice \in Sms}
Recording == {w \in Workers : worker[w].step = "record" /\ worker[w].notice \in Sms}

Accounts ==
  Cardinality(TextsSent) + Cardinality(OpenSms) + Cardinality(Pursuits)
    <= Cardinality(Claimed) + faults
WithinBudget ==
  Cardinality(TextsSent) + Cardinality(Sending) <= Limit + Cardinality(Workers) - 1 + faults

BudgetInv == Accounts /\ WithinBudget

B(fact) == IF fact THEN 1 ELSE 0

(* Two sets that differ in one element at most.                            *)
LEMMA OneElement ==
  ASSUME NEW S, NEW T, NEW x, IsFiniteSet(S), T \ {x} \subseteq S
  PROVE  /\ IsFiniteSet(T) /\ Cardinality(S) \in Nat /\ Cardinality(T) \in Nat
         /\ Cardinality(T) + B(x \in S) <= Cardinality(S) + B(x \in T)
<1>1. IsFiniteSet(S \cup {x}) /\ T \in SUBSET (S \cup {x})
  BY FS_AddElement
<1>2. IsFiniteSet(T)
  BY <1>1, FS_Subset
<1>3. Cardinality(S) \in Nat /\ Cardinality(T) \in Nat
  BY <1>2, FS_CardinalityType
<1>4. /\ IsFiniteSet(S \ {x})
      /\ Cardinality(S \ {x}) = IF x \in S THEN Cardinality(S) - 1 ELSE Cardinality(S)
      /\ Cardinality(T \ {x}) = IF x \in T THEN Cardinality(T) - 1 ELSE Cardinality(T)
  BY <1>2, FS_RemoveElement
<1>5. T \ {x} \in SUBSET (S \ {x})
  OBVIOUS
<1>6. Cardinality(T \ {x}) <= Cardinality(S \ {x})
  BY <1>4, <1>5, FS_Subset
<1> QED
  BY <1>2, <1>3, <1>4, <1>6 DEF B

(* The sets that are counted are finite.                                   *)
LEMMA CountedSets ==
  ASSUME texts \in [Notices -> Nat]
  PROVE  /\ IsFiniteSet(TextsSent) /\ IsFiniteSet(OpenSms) /\ IsFiniteSet(Pursuits)
         /\ IsFiniteSet(Claimed) /\ IsFiniteSet(SentRows)
         /\ IsFiniteSet(Sending) /\ IsFiniteSet(Recording)
         /\ TextsSent = {p \in Sms \X Nat : 1 <= p[2] /\ p[2] <= texts[p[1]]}
<1>1. IsFiniteSet(Sms) /\ IsFiniteSet(Workers)
  BY SmsAssumption, FiniteAssumption, FS_Subset
<1>2. IsFiniteSet(OpenSms) /\ IsFiniteSet(Claimed) /\ IsFiniteSet(SentRows)
  <2>1. OpenSms \in SUBSET Sms /\ Claimed \in SUBSET Sms /\ SentRows \in SUBSET Sms
    BY DEF OpenSms, Claimed, SentRows
  <2> QED
    BY <1>1, <2>1, FS_Subset
<1>3. IsFiniteSet(Sending) /\ IsFiniteSet(Recording)
  <2>1. Sending \in SUBSET Workers /\ Recording \in SUBSET Workers
    BY DEF Sending, Recording
  <2> QED
    BY <1>1, <2>1, FS_Subset
<1>4. IsFiniteSet(Pursuits)
  <2>1. IsFiniteSet(Workers \X Sms) /\ Pursuits \in SUBSET (Workers \X Sms)
    BY <1>1, FS_Product DEF Pursuits
  <2> QED
    BY <2>1, FS_Subset
<1>5. IsFiniteSet(TextsSent)
  <2> DEFINE of   == [n \in Sms |-> {n} \X (1 .. texts[n])]
             all == {of[n] : n \in Sms}
  <2>1. of \in Surjection(Sms, all)
    BY DEF Surjection
  <2>2. IsFiniteSet(all)
    BY <1>1, <2>1, FS_Surjection
  <2>3. ASSUME NEW T \in all
        PROVE  IsFiniteSet(T)
    <3>1. PICK n \in Sms : T = {n} \X (1 .. texts[n])
      BY <2>3
    <3>2. texts[n] \in Int /\ 1 \in Int
      BY SmsAssumption
    <3>3. IsFiniteSet(1 .. texts[n]) /\ IsFiniteSet({n})
      BY <3>2, FS_Interval, FS_Singleton
    <3> QED
      BY <3>1, <3>3, FS_Product
  <2>4. TextsSent = UNION all
    BY DEF TextsSent
  <2> HIDE DEF all
  <2> QED
    BY <2>2, <2>3, <2>4, FS_UNION
<1>6. TextsSent = {p \in Sms \X Nat : 1 <= p[2] /\ p[2] <= texts[p[1]]}
  <2>1. \A n \in Sms : texts[n] \in Nat
    BY SmsAssumption
  <2> QED
    BY <2>1 DEF TextsSent
<1> QED
  BY <1>2, <1>3, <1>4, <1>5, <1>6

(* A worker whose step is about one notice is at work on no other.         *)
LEMMA AtWorkOnOne ==
  ASSUME TypeOK, HoldsItsJob, NEW w \in Workers, NEW n \in Notices, Delivers(w, n),
         NEW m \in Notices \ {n}
  PROVE  /\ ~ Pursues(w, m) /\ ~ Works(w, "record", m)
         /\ ~ Pursues(w, m)' /\ ~ Works(w, "record", m)'
<1>1. worker[w].step = "idle" \/ worker[w].notice = n
  BY DEF Delivers, Take, Idle, Stall, HoldsItsJob, WorkerStep, Read, Budget, Skip, Send, Record,
     Catch, Done, Throw, Works
<1>2. worker'[w].step = "idle" \/ worker'[w].notice = n
  BY <1>1, WorkerGoesOn DEF Idle
<1> QED
  BY <1>1, <1>2 DEF Pursues, Works

(* All that such a step can change is what this worker pursues, and        *)
(* whether this row is open or claimed.                                    *)
LEMMA OthersPursueNoMore ==
  ASSUME TypeOK, HoldsItsJob, InReach, NEW w \in Workers, NEW n \in Notices, Delivers(w, n)
  PROVE  /\ Pursuits' \ {<<w, n>>} \subseteq Pursuits
         /\ OpenSms' \ {n} \subseteq OpenSms
         /\ Claimed \ {n} \subseteq Claimed'
<1>1. /\ worker \in [Workers -> Working] /\ job \in [Notices -> Job] /\ NobodysJob \notin Workers
      /\ row \in [Notices -> {"ABSENT", "PENDING", "SENT", "FAILED", "SKIPPED"}]
      /\ Sms \subseteq Notices
  BY NobodyAssumption, SmsAssumption DEF TypeOK
<1>2. /\ worker' = [worker EXCEPT ![w] = worker'[w]]
      /\ job' = [job EXCEPT ![n] = job'[n]]
      /\ row' = [row EXCEPT ![n] = row'[n]]
      /\ row'[n] = row[n] \/ row'[n] \in {"SENT", "FAILED", "SKIPPED"}
  BY DeliversShape
<1>3. /\ \A v \in Workers \ {w} : worker'[v] = worker[v]
      /\ \A m \in Notices \ {n} : job'[m] = job[m] /\ row'[m] = row[m]
      /\ Live(n)' => Live(n)
      /\ \A v \in Workers \ {w} : job'[n].by = v => job[n].by = v
  BY <1>1, <1>2, JobGoesOn DEF NoJob, Live
<1>4. ASSUME NEW v \in Workers, NEW m \in Sms, Pursues(v, m)', v # w \/ m # n
      PROVE  Pursues(v, m)
  <2>1. CASE v # w
    BY <1>1, <1>3, <1>4, <2>1 DEF Pursues, Live
  <2>2. CASE v = w
    BY <1>1, <1>4, <2>2, AtWorkOnOne
  <2> QED
    BY <2>1, <2>2
<1>5. Pursuits' \ {<<w, n>>} \subseteq Pursuits
  BY <1>4 DEF Pursuits
<1>6. OpenSms' \ {n} \subseteq OpenSms
  BY <1>1, <1>3 DEF OpenSms, Open, Live
<1>7. ASSUME NEW m \in Sms \ {n}, Claims(m)
      PROVE  Claims(m)'
  <2>1. row'[m] = row[m] /\ job'[m] = job[m]
    BY <1>1, <1>3
  <2>2. ASSUME NEW v \in Workers, Pursues(v, m) \/ Works(v, "record", m)
        PROVE  Pursues(v, m)' \/ Works(v, "record", m)'
    <3>1. v # w
      BY <1>1, <2>2, AtWorkOnOne
    <3> QED
      BY <1>3, <2>1, <2>2, <3>1 DEF Pursues, Works, Live
  <2> QED
    BY <1>7, <2>1, <2>2 DEF Claims, Open, Live
<1>8. Claimed \ {n} \subseteq Claimed'
  BY <1>7 DEF Claimed
<1> QED
  BY <1>5, <1>6, <1>8

(* A claim on this row that another worker has, or the row's own, outlives *)
(* the step unless the row is settled otherwise than as sent.              *)
LEMMA ClaimsLast ==
  ASSUME TypeOK, HoldsItsJob, InReach, NEW w \in Workers, NEW n \in Notices, Delivers(w, n),
         row' = row, Claims(n), Open(n) => Claims(n)',
         Pursues(w, n) \/ Works(w, "record", n) => Claims(n)'
  PROVE  Claims(n)'
<1>1. /\ worker \in [Workers -> Working] /\ job \in [Notices -> Job] /\ NobodysJob \notin Workers
  BY NobodyAssumption DEF TypeOK
<1>2. \A v \in Workers \ {w} : worker'[v] = worker[v]
  BY <1>1, DeliversShape
<1>3. \A v \in Workers \ {w} : job[n].by = v => job'[n] = job[n]
  <2>1. job[n].at = "waiting" => job[n].by = NobodysJob
    BY DEF TypeOK
  <2> QED
    BY <1>1, <2>1, JobGoesOn
<1>4. ASSUME NEW v \in Workers \ {w}, Pursues(v, n) \/ Works(v, "record", n)
      PROVE  Claims(n)'
  <2>1. Pursues(v, n)' \/ Works(v, "record", n)'
    BY <1>2, <1>3, <1>4 DEF Pursues, Works, Live
  <2> QED
    BY <2>1 DEF Claims
<1> QED
  BY <1>4 DEF Claims

(* What a step of a worker adds to one side of the accounts it adds to the *)
(* other.                                                                  *)
LEMMA StepPays ==
  ASSUME TypeOK, HoldsItsJob, InReach, WrittenFirst, DoneIsSettled,
         NEW w \in Workers, NEW n \in Notices, Delivers(w, n)
  PROVE  texts'[n] + B(Open(n)') + B(Pursues(w, n)') + B(Claims(n)) + faults
           <= texts[n] + B(Open(n)) + B(Pursues(w, n)) + B(Claims(n)') + faults'
<1>1. /\ worker \in [Workers -> Working] /\ worker[w] \in Working /\ job \in [Notices -> Job]
      /\ row \in [Notices -> {"ABSENT", "PENDING", "SENT", "FAILED", "SKIPPED"}]
      /\ texts \in [Notices -> Nat] /\ texts[n] \in Nat /\ faults \in Nat
      /\ job[n].at = "active" <=> job[n].by # NobodysJob
  BY NumberAssumption DEF TypeOK
<1>2. ASSUME NEW step, Goto(w, step)
      PROVE  /\ worker'[w].step = step /\ worker'[w].notice = worker[w].notice
             /\ worker'[w].last = worker[w].last
  BY <1>1, <1>2 DEF Goto, Working
<1>3. /\ Open(n) => Claims(n)
      /\ Open(n)' => Claims(n)'
      /\ Pursues(w, n)' => Claims(n)'
      /\ Works(w, "record", n)' => Claims(n)'
  BY DEF Claims
<1>4. CASE Take(w, n)
  <2>1. /\ texts' = texts /\ faults' = faults /\ row' = row
        /\ worker[w] = Idle /\ job[n].at = "waiting"
    BY <1>4 DEF Take
  <2>2. worker'[w].step = "read" /\ worker'[w].notice = n /\ job'[n].at = "active"
    BY <1>1, <1>4 DEF Take, Job, Working
  <2>3. ~ Open(n)' /\ (Pursues(w, n)' <=> Live(n)) /\ (Open(n) <=> Live(n))
    BY <2>1, <2>2 DEF Open, Pursues, Live
  <2>4. ~ Pursues(w, n) /\ ~ Works(w, "record", n)
    BY <2>1 DEF Idle, Pursues, Works
  <2>5. Claims(n) => Claims(n)'
    BY <1>3, <1>4, <2>1, <2>3, <2>4, ClaimsLast DEF Delivers
  <2> QED
    BY <1>1, <2>1, <2>3, <2>4, <2>5 DEF B
<1>5. CASE Read(w, n)
  <2>1. /\ worker[w].step = "read" /\ worker[w].notice = n /\ texts' = texts /\ row' = row
        /\ job' = job /\ row[n] # "ABSENT"
    BY <1>5 DEF Read, Works, WrittenFirst
  <2>2. \/ ~ Pending(n) /\ Goto(w, "done") /\ faults' = faults
        \/ Pending(n) /\ (Goto(w, "budget") \/ Goto(w, "send") \/ Goto(w, "skip")) /\ faults' = faults
        \/ Goto(w, "throw") /\ faults' = faults + 1
    BY <1>5 DEF Read, Fault
  <2>3. /\ worker'[w].notice = n
        /\ \/ ~ Live(n) /\ worker'[w].step = "done" /\ faults' = faults
           \/ Live(n) /\ worker'[w].step \in {"budget", "send", "skip"} /\ faults' = faults
           \/ worker'[w].step = "throw" /\ faults' = faults + 1
    BY <1>1, <1>2, <2>1, <2>2 DEF Pending, Live
  <2>4. (Open(n)' <=> Open(n)) /\ (Live(n)' <=> Live(n)) /\ (Pursues(w, n) <=> Live(n))
    BY <2>1 DEF Open, Live, Pursues
  <2>5. /\ Pursues(w, n)' => Live(n)
        /\ Pursues(w, n)' \/ ~ Live(n) \/ faults' = faults + 1
    BY <2>3, <2>4 DEF Pursues
  <2>6. ~ Works(w, "record", n)
    BY <2>1 DEF Works
  <2>7. CASE Pursues(w, n) => Claims(n)'
    <3>1. Claims(n) => Claims(n)'
      BY <1>3, <1>5, <2>1, <2>4, <2>6, <2>7, ClaimsLast DEF Delivers, WorkerStep
    <3> QED
      BY <1>1, <2>1, <2>3, <2>4, <2>5, <3>1 DEF B
  <2>8. CASE Pursues(w, n) /\ ~ Claims(n)'
    <3>1. ~ Pursues(w, n)'
      BY <1>3, <2>8
    <3> QED
      BY <1>1, <2>1, <2>3, <2>4, <2>8, <3>1 DEF B
  <2> QED
    BY <2>7, <2>8
<1>6. CASE Budget(w, n)
  <2>1. /\ worker[w].step = "budget" /\ worker[w].notice = n /\ row' = row /\ texts' = texts
        /\ job' = job
        /\ \/ (Goto(w, "skip") \/ Goto(w, "send")) /\ faults' = faults
           \/ Goto(w, "catch") /\ faults' = faults + 1
    BY <1>6 DEF Budget, Works, Fault
  <2>2. worker'[w].step \in {"skip", "send", "catch"} /\ worker'[w].notice = n
    BY <1>2, <2>1
  <2>3. Pursues(w, n) /\ Pursues(w, n)' /\ (Open(n)' <=> Open(n)) /\ faults' \in {faults, faults + 1}
    BY <2>1, <2>2 DEF Pursues, Open, Live
  <2> QED
    BY <1>1, <1>3, <2>1, <2>3 DEF B
<1>7. CASE Skip(w, n)
  <2>1. /\ worker[w].step = "skip" /\ worker[w].notice = n /\ texts' = texts /\ job' = job
        /\ \/ Mark(n, "SKIPPED") /\ Goto(w, "done") /\ faults' = faults
           \/ row' = row /\ Goto(w, "catch") /\ faults' = faults + 1
    BY <1>7 DEF Skip, Works, Fault
  <2>2. /\ worker'[w].notice = n
        /\ \/ row'[n] = "SKIPPED" /\ worker'[w].step = "done" /\ faults' = faults
           \/ row' = row /\ worker'[w].step = "catch" /\ faults' = faults + 1
    BY <1>1, <1>2, <2>1 DEF Mark
  <2>3. /\ Pursues(w, n) /\ (Open(n)' => Open(n))
        /\ \/ ~ Pursues(w, n)' /\ faults' = faults
           \/ Pursues(w, n)' /\ faults' = faults + 1
    BY <2>1, <2>2 DEF Pursues, Open, Live
  <2> QED
    BY <1>1, <1>3, <2>1, <2>3 DEF B
<1>8. CASE Send(w, n)
  <2>1. /\ worker[w].step = "send" /\ worker[w].notice = n /\ row' = row /\ job' = job
        /\ \/ Delivered(n) /\ Goto(w, "record") /\ faults' = faults
           \/ texts' = texts /\ Goto(w, "catch") /\ faults' = faults
           \/ Delivered(n) /\ Goto(w, "catch") /\ faults' = faults + 1
    BY <1>8 DEF Send, Works, Fault
  <2>2. /\ worker'[w].notice = n
        /\ \/ texts'[n] = texts[n] + 1 /\ worker'[w].step = "record" /\ faults' = faults
           \/ texts' = texts /\ worker'[w].step = "catch" /\ faults' = faults
           \/ texts'[n] = texts[n] + 1 /\ worker'[w].step = "catch" /\ faults' = faults + 1
    BY <1>1, <1>2, <2>1 DEF Delivered
  <2>3. /\ Pursues(w, n) /\ (Open(n)' <=> Open(n))
        /\ \/ texts'[n] = texts[n] + 1 /\ ~ Pursues(w, n)' /\ Works(w, "record", n)' /\ faults' = faults
           \/ texts' = texts /\ Pursues(w, n)' /\ faults' = faults
           \/ texts'[n] = texts[n] + 1 /\ Pursues(w, n)' /\ faults' = faults + 1
    BY <2>1, <2>2 DEF Pursues, Open, Live, Works
  <2> QED
    BY <1>1, <1>3, <2>3 DEF B
<1>9. CASE Record(w, n)
  <2>1. /\ worker[w].step = "record" /\ worker[w].notice = n /\ texts' = texts /\ job' = job
        /\ \/ Mark(n, "SENT") /\ Goto(w, "done") /\ faults' = faults
           \/ row' = row /\ Goto(w, "catch") /\ faults' = faults + 1
    BY <1>9 DEF Record, Works, Fault
  <2>2. /\ worker'[w].notice = n
        /\ \/ row'[n] = "SENT" /\ worker'[w].step = "done" /\ faults' = faults
           \/ row' = row /\ worker'[w].step = "catch" /\ faults' = faults + 1
    BY <1>1, <1>2, <2>1 DEF Mark
  <2>3. /\ Open(n)' => Open(n)
        /\ \/ row'[n] = "SENT" /\ ~ Pursues(w, n)' /\ faults' = faults
           \/ Pursues(w, n)' /\ faults' = faults + 1
    BY <2>1, <2>2 DEF Pursues, Open, Live
  <2>4. Claims(n)'
    BY <1>3, <2>3 DEF Claims
  <2> QED
    BY <1>1, <2>1, <2>3, <2>4 DEF B
<1>10. CASE Catch(w, n)
  <2>1. /\ worker[w].step = "catch" /\ worker[w].notice = n /\ texts' = texts /\ job' = job
        /\ Goto(w, "throw")
        /\ \/ row' = row /\ faults' \in {faults, faults + 1}
           \/ worker[w].last /\ Mark(n, "FAILED") /\ faults' = faults
    BY <1>10 DEF Catch, Works, Fault
  <2>2. /\ worker'[w].step = "throw" /\ worker'[w].notice = n /\ worker'[w].last = worker[w].last
        /\ row' = row \/ row'[n] = "FAILED"
        /\ faults' \in {faults, faults + 1}
    BY <1>1, <1>2, <2>1 DEF Mark
  <2>3. Pursues(w, n) /\ (Open(n)' => Open(n))
    BY <2>1, <2>2 DEF Pursues, Open, Live
  <2> QED
    BY <1>1, <1>3, <2>1, <2>2, <2>3 DEF B
<1>11. CASE Done(w, n)
  <2>1. /\ worker[w].step = "done" /\ worker[w].notice = n /\ ~ Live(n) /\ row' = row
        /\ texts' = texts /\ faults' = faults
    BY <1>11 DEF Done, Works, DoneIsSettled
  <2>2. worker'[w].step = "idle"
    BY <1>1, <1>11 DEF Done, Rest, Idle
  <2>3. ~ Pursues(w, n) /\ ~ Works(w, "record", n) /\ ~ Open(n) /\ ~ Pursues(w, n)' /\ ~ Open(n)'
    BY <2>1, <2>2 DEF Pursues, Works, Open, Live
  <2>4. Claims(n) => Claims(n)'
    BY <1>11, <2>1, <2>3, ClaimsLast DEF Delivers, WorkerStep
  <2> QED
    BY <1>1, <2>1, <2>3, <2>4 DEF B
<1>12. CASE Throw(w, n)
  <2>1. /\ worker[w].step = "throw" /\ worker[w].notice = n /\ row' = row
        /\ texts' = texts /\ faults' = faults
    BY <1>12 DEF Throw, Works
  <2>2. ~ Pursues(w, n)'
    <3>1. worker'[w].step = "idle"
      BY <1>1, <1>12 DEF Throw, Rest, Idle
    <3> QED
      BY <3>1 DEF Pursues
  <2>3. /\ (Live(n)' <=> Live(n)) /\ ~ Works(w, "record", n)
        /\ Pursues(w, n) <=> ~ worker[w].last /\ Live(n) /\ job[n].by = w
    BY <2>1 DEF Live, Pursues, Works
  <2>4. /\ job[n].by = w => ~ Open(n) /\ (Open(n)' <=> ~ worker[w].last /\ Live(n))
        /\ job[n].by # w => (Open(n)' <=> Open(n))
    <3>1. CASE job[n].by = w
      <4>1. /\ job[n].at = "active"
            /\ job'[n].at = IF worker[w].last THEN "failed" ELSE "waiting"
        BY <1>1, <1>12, <3>1, NobodyAssumption DEF Throw, Job
      <4> QED
        BY <2>3, <3>1, <4>1 DEF Open
    <3>2. CASE job[n].by # w
      BY <1>12, <2>3, <3>2 DEF Throw, Open
    <3> QED
      BY <3>1, <3>2
  <2>5. CASE Pursues(w, n)
    BY <1>1, <1>3, <2>1, <2>2, <2>3, <2>4, <2>5 DEF B
  <2>6. CASE ~ Pursues(w, n)
    <3>1. Open(n)' <=> Open(n)
      BY <2>3, <2>4, <2>6
    <3>2. Claims(n) => Claims(n)'
      BY <1>3, <1>12, <2>1, <2>3, <2>6, <3>1, ClaimsLast DEF Delivers, WorkerStep
    <3> QED
      BY <1>1, <2>1, <2>2, <2>6, <3>1, <3>2 DEF B
  <2> QED
    BY <2>5, <2>6
<1>13. CASE Stall(w, n)
  <2>1. /\ texts' = texts /\ faults' = faults + 1 /\ job[n].at = "active" /\ row' = row
        /\ job'[n].by # w
    BY <1>1, <1>13, NobodyAssumption DEF Stall, Fault, Job
  <2>2. worker'[w].step = "idle" \/ worker'[w] = worker[w]
    BY <1>1, <1>13 DEF Stall, Rest, Idle
  <2>3. ~ Open(n) /\ (Pursues(w, n)' => Pursues(w, n))
    BY <2>1, <2>2 DEF Open, Pursues, Live
  <2> QED
    BY <1>1, <1>3, <2>1, <2>3 DEF B
<1> QED
  BY <1>4, <1>5, <1>6, <1>7, <1>8, <1>9, <1>10, <1>11, <1>12, <1>13 DEF Delivers, WorkerStep

(* A step that delivers nothing delivers nothing by SMS, and one that      *)
(* delivers one message delivers one SMS at most.                          *)
LEMMA OneTextAtMost ==
  ASSUME TypeOK, TypeOK', NEW n \in Notices,
         texts' = texts \/ texts' = [texts EXCEPT ![n] = texts[n] + 1]
  PROVE  /\ Cardinality(TextsSent) \in Nat /\ Cardinality(TextsSent') \in Nat
         /\ Cardinality(TextsSent') <= Cardinality(TextsSent) + (texts'[n] - texts[n])
         /\ n \notin Sms => Cardinality(TextsSent') = Cardinality(TextsSent)
<1>1. /\ texts \in [Notices -> Nat] /\ texts' \in [Notices -> Nat] /\ Sms \subseteq Notices
  BY SmsAssumption DEF TypeOK
<1>2. /\ IsFiniteSet(TextsSent)
      /\ TextsSent = {p \in Sms \X Nat : 1 <= p[2] /\ p[2] <= texts[p[1]]}
  BY <1>1, CountedSets
<1>3. /\ IsFiniteSet(TextsSent')
      /\ TextsSent' = {p \in Sms \X Nat : 1 <= p[2] /\ p[2] <= texts'[p[1]]}
  <2>1. (texts \in [Notices -> Nat])' =>
          /\ IsFiniteSet(TextsSent)'
          /\ (TextsSent = {p \in Sms \X Nat : 1 <= p[2] /\ p[2] <= texts[p[1]]})'
    BY CountedSets, PTL
  <2> QED
    BY <1>1, <2>1
<1>4. Cardinality(TextsSent) \in Nat /\ Cardinality(TextsSent') \in Nat
  BY <1>2, <1>3, FS_CardinalityType
<1>5. CASE texts' = texts
  BY <1>1, <1>2, <1>3, <1>4, <1>5
<1>6. CASE texts' = [texts EXCEPT ![n] = texts[n] + 1] /\ n \in Sms
  <2> DEFINE new == <<n, texts[n] + 1>>
  <2>1. TextsSent' \ {new} \subseteq TextsSent
    <3>1. SUFFICES ASSUME NEW p \in TextsSent', p # new PROVE p \in TextsSent
      OBVIOUS
    <3>2. PICK m \in Sms, i \in Nat : p = <<m, i>> /\ 1 <= i /\ i <= texts'[m]
      BY <1>3, <3>1
    <3>3. i <= texts[m]
      BY <1>1, <1>6, <3>1, <3>2
    <3> QED
      BY <1>2, <3>2, <3>3
  <2>2. new \notin TextsSent
    BY <1>1, <1>2
  <2>3. Cardinality(TextsSent') + B(new \in TextsSent)
          <= Cardinality(TextsSent) + B(new \in TextsSent')
    BY <1>2, <2>1, OneElement
  <2> QED
    BY <1>1, <1>4, <1>6, <2>2, <2>3 DEF B
<1>7. CASE texts' = [texts EXCEPT ![n] = texts[n] + 1] /\ n \notin Sms
  <2>1. TextsSent' = TextsSent
    BY <1>1, <1>2, <1>3, <1>7
  <2> QED
    BY <1>1, <1>4, <1>7, <2>1
<1> QED
  BY <1>5, <1>6, <1>7

(* The accounts as a sum, before and after a step that concerns one row    *)
(* and one worker.                                                         *)
LEMMA AccountsAdd ==
  ASSUME TypeOK, TypeOK', Accounts, NEW n \in Sms, NEW w \in Workers,
         texts' = texts \/ texts' = [texts EXCEPT ![n] = texts[n] + 1],
         Pursuits' \ {<<w, n>>} \subseteq Pursuits, OpenSms' \ {n} \subseteq OpenSms,
         Claimed \ {n} \subseteq Claimed',
         texts'[n] + B(Open(n)') + B(Pursues(w, n)') + B(Claims(n)) + faults
           <= texts[n] + B(Open(n)) + B(Pursues(w, n)) + B(Claims(n)') + faults'
  PROVE  Accounts'
<1>1. /\ texts[n] \in Nat /\ texts'[n] \in Nat /\ faults \in Nat /\ faults' \in Nat
      /\ n \in Notices
  BY SmsAssumption, NumberAssumption DEF TypeOK
<1>2. /\ IsFiniteSet(OpenSms) /\ IsFiniteSet(Pursuits) /\ IsFiniteSet(Claimed')
  <2>1. (texts \in [Notices -> Nat])' => IsFiniteSet(Claimed)'
    BY CountedSets, PTL
  <2>2. IsFiniteSet(Claimed')
    BY <2>1 DEF TypeOK
  <2> QED
    BY <2>2, CountedSets DEF TypeOK
<1>3. /\ Cardinality(TextsSent) \in Nat /\ Cardinality(TextsSent') \in Nat
      /\ Cardinality(TextsSent') <= Cardinality(TextsSent) + (texts'[n] - texts[n])
  BY <1>1, OneTextAtMost
<1>4. /\ Cardinality(OpenSms) \in Nat /\ Cardinality(OpenSms') \in Nat
      /\ Cardinality(OpenSms') + B(n \in OpenSms) <= Cardinality(OpenSms) + B(n \in OpenSms')
  BY <1>2, OneElement
<1>5. /\ Cardinality(Pursuits) \in Nat /\ Cardinality(Pursuits') \in Nat
      /\ Cardinality(Pursuits') + B(<<w, n>> \in Pursuits)
           <= Cardinality(Pursuits) + B(<<w, n>> \in Pursuits')
  BY <1>2, OneElement
<1>6. /\ Cardinality(Claimed) \in Nat /\ Cardinality(Claimed') \in Nat
      /\ Cardinality(Claimed) + B(n \in Claimed') <= Cardinality(Claimed') + B(n \in Claimed)
  BY <1>2, OneElement
<1>7. /\ n \in OpenSms <=> Open(n)
      /\ n \in OpenSms' <=> Open(n)'
      /\ <<w, n>> \in Pursuits <=> Pursues(w, n)
      /\ <<w, n>> \in Pursuits' <=> Pursues(w, n)'
      /\ n \in Claimed <=> Claims(n)
      /\ n \in Claimed' <=> Claims(n)'
  BY DEF OpenSms, Pursuits, Claimed
<1>8. Cardinality(TextsSent) + Cardinality(OpenSms) + Cardinality(Pursuits)
        <= Cardinality(Claimed) + faults
  BY DEF Accounts
<1>9. Cardinality(TextsSent') + Cardinality(OpenSms') + Cardinality(Pursuits')
        <= Cardinality(Claimed') + faults'
  BY <1>1, <1>3, <1>4, <1>5, <1>6, <1>7, <1>8 DEF B
<1> QED
  BY <1>9 DEF Accounts

(* The accounts of a step that concerns no SMS.                            *)
LEMMA AccountsStand ==
  ASSUME TypeOK, TypeOK', Accounts, Cardinality(TextsSent') = Cardinality(TextsSent),
         faults' >= faults, OpenSms' \subseteq OpenSms, Pursuits' \subseteq Pursuits,
         Claimed \subseteq Claimed'
  PROVE  Accounts'
<1>1. /\ faults \in Nat /\ faults' \in Nat
      /\ IsFiniteSet(TextsSent) /\ IsFiniteSet(OpenSms) /\ IsFiniteSet(Pursuits)
  BY CountedSets, NumberAssumption DEF TypeOK
<1>2. IsFiniteSet(Claimed')
  <2>1. (texts \in [Notices -> Nat])' => IsFiniteSet(Claimed)'
    BY CountedSets, PTL
  <2> QED
    BY <2>1 DEF TypeOK
<1>3. OpenSms' \in SUBSET OpenSms /\ Pursuits' \in SUBSET Pursuits /\ Claimed \in SUBSET Claimed'
  OBVIOUS
<1>4. /\ Cardinality(OpenSms') <= Cardinality(OpenSms)
      /\ Cardinality(Pursuits') <= Cardinality(Pursuits)
      /\ Cardinality(Claimed) <= Cardinality(Claimed')
      /\ IsFiniteSet(OpenSms') /\ IsFiniteSet(Pursuits') /\ IsFiniteSet(Claimed)
  BY <1>1, <1>2, <1>3, FS_Subset
<1>5. /\ Cardinality(TextsSent) \in Nat /\ Cardinality(OpenSms) \in Nat
      /\ Cardinality(Pursuits) \in Nat /\ Cardinality(Claimed) \in Nat
      /\ Cardinality(OpenSms') \in Nat /\ Cardinality(Pursuits') \in Nat
      /\ Cardinality(Claimed') \in Nat
  BY <1>1, <1>2, <1>4, FS_CardinalityType
<1>6. Cardinality(TextsSent) + Cardinality(OpenSms) + Cardinality(Pursuits)
        <= Cardinality(Claimed) + faults
  BY DEF Accounts
<1>7. Cardinality(TextsSent') + Cardinality(OpenSms') + Cardinality(Pursuits')
        <= Cardinality(Claimed') + faults'
  BY <1>1, <1>4, <1>5, <1>6
<1> QED
  BY <1>7 DEF Accounts

(* Every step keeps the accounts: a dispatcher that skips a new row drops  *)
(* a claim together with what was open.                                    *)
LEMMA DispatchesKeepAccounts ==
  ASSUME IInv, IInv', Accounts, Dispatches
  PROVE  Accounts'
<1>1. TypeOK /\ TypeOK' /\ WrittenFirst
  BY DEF IInv
<1>2. /\ worker' = worker /\ texts' = texts /\ faults' = faults
      /\ \A n \in Notices :
           /\ Live(n)' => Live(n)
           /\ \/ job'[n] = job[n]
              \/ job[n].at = "none" /\ job'[n] = [job[n] EXCEPT !.at = "waiting"]
  BY <1>1, DispatchesShape
<1>3. /\ job \in [Notices -> Job] /\ faults \in Nat /\ Sms \subseteq Notices
      /\ row \in [Notices -> {"ABSENT", "PENDING", "SENT", "FAILED", "SKIPPED"}]
  BY <1>1, SmsAssumption, NumberAssumption DEF TypeOK
<1>4. ASSUME NEW n \in Notices
      PROVE  /\ job'[n].by = job[n].by
             /\ job'[n].at \in {"none", "waiting"} <=> job[n].at \in {"none", "waiting"}
  BY <1>2, <1>3 DEF Job
<1>5. ASSUME NEW w \in Workers, NEW n \in Notices, Pursues(w, n)'
      PROVE  Pursues(w, n)
  BY <1>2, <1>4, <1>5 DEF Pursues
<1>6. Pursuits' \subseteq Pursuits /\ OpenSms' \subseteq OpenSms
  BY <1>2, <1>3, <1>4, <1>5 DEF Pursuits, OpenSms, Open
<1>7. ASSUME NEW n \in Notices, row'[n] = row[n], Claims(n)
      PROVE  Claims(n)'
  BY <1>2, <1>4, <1>7 DEF Claims, Open, Live, Pursues, Works
<1>8. CASE row' = row
  <2>1. Claimed \subseteq Claimed'
    BY <1>3, <1>7, <1>8 DEF Claimed
  <2>2. Cardinality(TextsSent') = Cardinality(TextsSent) /\ faults' >= faults
    BY <1>2, <1>3 DEF TextsSent
  <2> QED
    BY <1>1, <1>6, <2>1, <2>2, AccountsStand
<1>9. CASE row' # row
  <2>1. PICK n \in Notices : row[n] = "ABSENT" /\ (Mark(n, "PENDING") \/ Mark(n, "SKIPPED"))
    BY <1>9 DEF Dispatches, Dispatch, SweepHandsOver, SweepReads, SweepStops
  <2>2. /\ \A m \in Notices \ {n} : row'[m] = row[m]
        /\ row'[n] \in {"PENDING", "SKIPPED"}
    BY <1>3, <2>1 DEF Mark
  <2>3. Claimed \ {n} \subseteq Claimed'
    BY <1>3, <1>7, <2>2 DEF Claimed
  <2>4. CASE n \in Sms
    <3>1. PICK w \in Workers : TRUE
      BY WorkAssumption
    <3>2. /\ worker[w].notice = n => worker[w].step = "idle"
          /\ job[n].at = "none"
      BY <2>1 DEF IInv, WrittenFirst
    <3>3. ~ Pursues(w, n) /\ ~ Pursues(w, n)' /\ Open(n) /\ (Open(n)' => Claims(n)')
      BY <1>5, <2>1, <3>2 DEF Pursues, Open, Live, Claims
    <3>4. texts'[n] + B(Open(n)') + B(Pursues(w, n)') + B(Claims(n)) + faults
            <= texts[n] + B(Open(n)) + B(Pursues(w, n)) + B(Claims(n)') + faults'
      <4>1. texts[n] \in Nat
        BY <1>1 DEF TypeOK
      <4> QED
        BY <1>2, <1>3, <3>3, <4>1 DEF B
    <3> QED
      BY <1>1, <1>2, <1>6, <2>3, <2>4, <3>4, AccountsAdd
  <2>5. CASE n \notin Sms
    <3>1. Claimed \subseteq Claimed'
      BY <2>3, <2>5 DEF Claimed
    <3>2. Cardinality(TextsSent') = Cardinality(TextsSent) /\ faults' >= faults
      BY <1>2, <1>3 DEF TextsSent
    <3> QED
      BY <1>1, <1>6, <3>1, <3>2, AccountsStand
  <2> QED
    BY <2>4, <2>5
<1> QED
  BY <1>8, <1>9

(* So does a worker's step: if it concerns an SMS, because it pays its way;*)
(* if not, because no SMS is sent, opened, pursued or given up.            *)
LEMMA DeliversKeepsAccounts ==
  ASSUME IInv, IInv', Accounts, NEW w \in Workers, NEW n \in Notices, Delivers(w, n)
  PROVE  Accounts'
<1>1. TypeOK /\ TypeOK' /\ HoldsItsJob /\ InReach /\ WrittenFirst /\ DoneIsSettled
  BY DEF IInv
<1>2. /\ Pursuits' \ {<<w, n>>} \subseteq Pursuits
      /\ OpenSms' \ {n} \subseteq OpenSms
      /\ Claimed \ {n} \subseteq Claimed'
  BY <1>1, OthersPursueNoMore
<1>3. /\ texts' = texts \/ texts' = [texts EXCEPT ![n] = texts[n] + 1]
      /\ faults \in Nat /\ faults' \in {faults, faults + 1}
  BY <1>1, DeliversShape, NumberAssumption DEF TypeOK
<1>4. CASE n \in Sms
  BY <1>1, <1>2, <1>3, <1>4, StepPays, AccountsAdd
<1>5. CASE n \notin Sms
  <2>1. /\ Pursuits' \subseteq Pursuits /\ OpenSms' \subseteq OpenSms /\ Claimed \subseteq Claimed'
    BY <1>2, <1>5 DEF Pursuits, OpenSms, Claimed
  <2>2. Cardinality(TextsSent') = Cardinality(TextsSent) /\ faults' >= faults
    BY <1>1, <1>3, <1>5, OneTextAtMost
  <2> QED
    BY <1>1, <2>1, <2>2, AccountsStand
<1> QED
  BY <1>4, <1>5

(* Every claim on an SMS is a row noted as sent, an open row, a worker in  *)
(* pursuit or one about to note it; so what went out was noted, is about   *)
(* to be, or was a fault.                                                  *)
LEMMA SentOrAboutToBe ==
  ASSUME TypeOK, Accounts
  PROVE  Cardinality(TextsSent) <= SentToday + Cardinality(Recording) + faults
<1>1. /\ IsFiniteSet(TextsSent) /\ IsFiniteSet(OpenSms) /\ IsFiniteSet(Pursuits)
      /\ IsFiniteSet(SentRows) /\ IsFiniteSet(Recording) /\ IsFiniteSet(Claimed)
      /\ faults \in Nat
  BY CountedSets, NumberAssumption DEF TypeOK
<1> DEFINE pursued  == {p[2] : p \in Pursuits}
           recorded == {worker[w].notice : w \in Recording}
<1>2. IsFiniteSet(pursued) /\ Cardinality(pursued) <= Cardinality(Pursuits)
  <2> DEFINE of == [p \in Pursuits |-> p[2]]
  <2>1. of \in Surjection(Pursuits, pursued)
    BY DEF Surjection
  <2> QED
    BY <1>1, <2>1, FS_Surjection
<1>3. IsFiniteSet(recorded) /\ Cardinality(recorded) <= Cardinality(Recording)
  <2> DEFINE of == [w \in Recording |-> worker[w].notice]
  <2>1. of \in Surjection(Recording, recorded)
    BY DEF Surjection
  <2> QED
    BY <1>1, <2>1, FS_Surjection
<1>4. Claimed \subseteq (SentRows \cup OpenSms) \cup (pursued \cup recorded)
  <2>1. SUFFICES ASSUME NEW n \in Sms, Claims(n), row[n] # "SENT", ~ Open(n)
                 PROVE  n \in pursued \cup recorded
    BY DEF Claimed, SentRows, OpenSms
  <2>2. PICK w \in Workers : Pursues(w, n) \/ Works(w, "record", n)
    BY <2>1 DEF Claims
  <2>3. CASE Pursues(w, n)
    <3>1. <<w, n>> \in Pursuits /\ <<w, n>>[2] = n
      BY <2>3 DEF Pursuits
    <3> QED
      BY <3>1
  <2>4. CASE Works(w, "record", n)
    BY <2>4 DEF Works, Recording
  <2> QED
    BY <2>2, <2>3, <2>4
<1> HIDE DEF pursued, recorded
<1>5. ASSUME NEW S, NEW T, IsFiniteSet(S), IsFiniteSet(T)
      PROVE  IsFiniteSet(S \cup T) /\ Cardinality(S \cup T) <= Cardinality(S) + Cardinality(T)
  <2>1. IsFiniteSet(S \cap T) /\ S \cap T \in SUBSET S
    BY <1>5, FS_Subset
  <2>2. /\ IsFiniteSet(S \cup T)
        /\ Cardinality(S \cup T) = Cardinality(S) + Cardinality(T) - Cardinality(S \cap T)
    BY <1>5, FS_Union
  <2>3. Cardinality(S) \in Nat /\ Cardinality(T) \in Nat /\ Cardinality(S \cap T) \in Nat
    BY <1>5, <2>1, FS_CardinalityType
  <2> QED
    BY <2>2, <2>3
<1>6. /\ IsFiniteSet(SentRows \cup OpenSms) /\ IsFiniteSet(pursued \cup recorded)
      /\ Cardinality(SentRows \cup OpenSms) <= Cardinality(SentRows) + Cardinality(OpenSms)
      /\ Cardinality(pursued \cup recorded) <= Cardinality(pursued) + Cardinality(recorded)
  BY <1>1, <1>2, <1>3, <1>5
<1>7. /\ IsFiniteSet((SentRows \cup OpenSms) \cup (pursued \cup recorded))
      /\ Cardinality((SentRows \cup OpenSms) \cup (pursued \cup recorded))
           <= Cardinality(SentRows \cup OpenSms) + Cardinality(pursued \cup recorded)
  BY <1>5, <1>6
<1>8. Cardinality(Claimed) <= Cardinality((SentRows \cup OpenSms) \cup (pursued \cup recorded))
  BY <1>4, <1>7, FS_Subset
<1>9. /\ Cardinality(TextsSent) \in Nat /\ Cardinality(OpenSms) \in Nat
      /\ Cardinality(Pursuits) \in Nat /\ Cardinality(SentRows) \in Nat
      /\ Cardinality(Recording) \in Nat /\ Cardinality(Claimed) \in Nat
      /\ Cardinality(pursued) \in Nat /\ Cardinality(recorded) \in Nat
      /\ Cardinality(SentRows \cup OpenSms) \in Nat /\ Cardinality(pursued \cup recorded) \in Nat
      /\ Cardinality((SentRows \cup OpenSms) \cup (pursued \cup recorded)) \in Nat
  BY <1>1, <1>2, <1>3, <1>6, <1>7, FS_CardinalityType
<1>10. Cardinality(TextsSent) + Cardinality(OpenSms) + Cardinality(Pursuits)
         <= Cardinality(Claimed) + faults
  BY DEF Accounts
<1>11. SentToday = Cardinality(SentRows)
  BY DEF SentToday, SentRows
<1> QED
  BY <1>1, <1>2, <1>3, <1>6, <1>7, <1>8, <1>9, <1>10, <1>11

(* Whom a step makes a sender: nobody but the worker that takes it, and    *)
(* that one only once the rows noted as sent are fewer than the limit, or  *)
(* with a message that is no SMS.                                          *)
LEMMA SendersByBudget ==
  ASSUME IInv, NEW w \in Workers, NEW n \in Notices, Delivers(w, n)
  PROVE  /\ Sending' \ {w} \subseteq Sending
         /\ w \in Sending' /\ w \notin Sending =>
              /\ Budget(w, n) /\ SentToday < Limit /\ texts' = texts /\ w \notin Recording
         /\ n \in Sms /\ texts' # texts => w \in Sending /\ (w \notin Sending' \/ faults' = faults + 1)
<1>1. /\ worker \in [Workers -> Working] /\ texts \in [Notices -> Nat] /\ TypeOK
      /\ worker' = [worker EXCEPT ![w] = worker'[w]]
  BY DeliversShape DEF IInv, TypeOK
<1>2. Sending' \ {w} \subseteq Sending
  BY <1>1 DEF Sending
<1>3. ASSUME NEW step, Goto(w, step)
      PROVE  worker'[w].step = step /\ worker'[w].notice = worker[w].notice
  BY <1>1, <1>3 DEF Goto, Working
<1>4. ASSUME w \in Sending', w \notin Sending
      PROVE  Budget(w, n) /\ SentToday < Limit /\ texts' = texts /\ w \notin Recording
  <2>1. worker'[w].step = "send" /\ worker'[w].notice \in Sms
    BY <1>4 DEF Sending
  <2>2. worker'[w] # worker[w]
    BY <1>1, <1>4, <2>1 DEF Sending
  <2>3. Read(w, n) \/ Budget(w, n) \/ Skip(w, n) \/ Send(w, n) \/ Record(w, n) \/ Catch(w, n)
    BY <1>1, <2>1, <2>2, WorkerGoesOn DEF Idle
  <2>4. worker[w].notice = n /\ n \in Sms
    BY <1>1, <2>1, <2>2, <2>3, WorkerGoesOn DEF Idle, Read, Budget, Skip, Send, Record, Catch, Works
  <2>5. ~ Read(w, n)
    <3>1. SUFFICES ASSUME Read(w, n) PROVE FALSE
      OBVIOUS
    <3>2. Goto(w, "done") \/ Goto(w, "budget") \/ Goto(w, "skip") \/ Goto(w, "throw")
      BY <2>4, <3>1 DEF Read
    <3> QED
      BY <1>3, <2>1, <3>2
  <2>6. ~ Skip(w, n) /\ ~ Send(w, n) /\ ~ Record(w, n) /\ ~ Catch(w, n)
    <3>1. SUFFICES ASSUME Skip(w, n) \/ Send(w, n) \/ Record(w, n) \/ Catch(w, n) PROVE FALSE
      OBVIOUS
    <3>2. Goto(w, "done") \/ Goto(w, "catch") \/ Goto(w, "record") \/ Goto(w, "throw")
      BY <3>1 DEF Skip, Send, Record, Catch
    <3> QED
      BY <1>3, <2>1, <3>2
  <2>7. Budget(w, n)
    BY <2>3, <2>5, <2>6
  <2>8. texts' = texts /\ worker[w].step = "budget"
    BY <2>7 DEF Budget, Works
  <2>9. ~ (SentToday >= Limit)
    <3>1. SUFFICES ASSUME SentToday >= Limit PROVE FALSE
      OBVIOUS
    <3>2. Goto(w, "skip") \/ Goto(w, "catch")
      BY <2>7, <3>1 DEF Budget
    <3> QED
      BY <1>3, <2>1, <3>2
  <2>10. SentToday \in Nat /\ Limit \in Nat
    BY <1>1, CountedSets, FS_CardinalityType, NumberAssumption DEF SentToday, SentRows
  <2> QED
    BY <2>7, <2>8, <2>9, <2>10 DEF Recording
<1>5. ASSUME n \in Sms, texts' # texts
      PROVE  w \in Sending /\ (w \notin Sending' \/ faults' = faults + 1)
  <2>1. Send(w, n)
    BY <1>1, <1>5, DeliversShape
  <2>2. /\ worker[w].step = "send" /\ worker[w].notice = n
        /\ Goto(w, "record") \/ Goto(w, "catch") \/ faults' = faults + 1
    BY <2>1 DEF Send, Works, Fault
  <2>3. worker'[w].step \in {"record", "catch"} \/ faults' = faults + 1
    BY <1>3, <2>2
  <2> QED
    BY <1>5, <2>2, <2>3 DEF Sending
<1> QED
  BY <1>2, <1>4, <1>5

(* A worker that sends leaves the budget as it was; one that may send now  *)
(* is neither among those that send nor among those about to note it.      *)
LEMMA DeliversKeepsBudget ==
  ASSUME IInv, IInv', BudgetInv, NEW w \in Workers, NEW n \in Notices, Delivers(w, n)
  PROVE  WithinBudget'
<1>1. /\ TypeOK /\ TypeOK' /\ Accounts
      /\ texts \in [Notices -> Nat] /\ faults \in Nat /\ faults' \in Nat /\ Limit \in Nat
      /\ texts[n] \in Nat /\ texts'[n] \in Nat
  BY NumberAssumption DEF IInv, TypeOK, BudgetInv
<1>2. /\ texts' = texts \/ texts' = [texts EXCEPT ![n] = texts[n] + 1]
      /\ faults' \in {faults, faults + 1}
  BY <1>1, DeliversShape
<1>3. /\ Cardinality(TextsSent) \in Nat /\ Cardinality(TextsSent') \in Nat
      /\ Cardinality(TextsSent') <= Cardinality(TextsSent) + (texts'[n] - texts[n])
      /\ n \notin Sms \/ texts' = texts => Cardinality(TextsSent') <= Cardinality(TextsSent)
  BY <1>1, <1>2, OneTextAtMost
<1>4. /\ Sending' \ {w} \subseteq Sending
      /\ w \in Sending' /\ w \notin Sending =>
           Budget(w, n) /\ SentToday < Limit /\ texts' = texts /\ w \notin Recording
      /\ n \in Sms /\ texts' # texts => w \in Sending /\ (w \notin Sending' \/ faults' = faults + 1)
  BY SendersByBudget
<1>5. IsFiniteSet(Sending) /\ IsFiniteSet(Recording) /\ IsFiniteSet(Workers)
  BY <1>1, CountedSets, FiniteAssumption
<1>6. /\ Cardinality(Sending) \in Nat /\ Cardinality(Sending') \in Nat
      /\ Cardinality(Sending') + B(w \in Sending) <= Cardinality(Sending) + B(w \in Sending')
  BY <1>4, <1>5, OneElement
<1>7. Cardinality(Workers) \in Nat /\ Cardinality(Recording) \in Nat
  BY <1>5, FS_CardinalityType
<1>8. Cardinality(TextsSent) + Cardinality(Sending) <= Limit + Cardinality(Workers) - 1 + faults
  BY DEF BudgetInv, WithinBudget
<1>9. CASE w \in Sending' /\ w \notin Sending
  <2>1. Cardinality(TextsSent) <= SentToday + Cardinality(Recording) + faults
    BY <1>1, SentOrAboutToBe
  <2>2. SentToday < Limit /\ Cardinality(TextsSent') <= Cardinality(TextsSent)
    BY <1>3, <1>4, <1>9
  <2>3. SentToday \in Nat
    BY <1>1, CountedSets, FS_CardinalityType DEF SentToday, SentRows
  <2>4. Cardinality(Sending) + Cardinality(Recording) + 1 <= Cardinality(Workers)
    <3>1. Sending \cap Recording = {} /\ Sending \cup Recording \in SUBSET (Workers \ {w})
      BY <1>4, <1>9 DEF Sending, Recording
    <3>2. Cardinality(Sending \cup Recording) = Cardinality(Sending) + Cardinality(Recording)
      <4>1. Cardinality(Sending \cup Recording)
              = Cardinality(Sending) + Cardinality(Recording) - Cardinality(Sending \cap Recording)
        BY <1>5, FS_Union
      <4>2. Cardinality(Sending \cap Recording) = 0
        BY <3>1, FS_EmptySet
      <4> QED
        BY <1>6, <1>7, <4>1, <4>2
    <3>3. /\ IsFiniteSet(Workers \ {w}) /\ Cardinality(Workers \ {w}) = Cardinality(Workers) - 1
      BY <1>5, FS_RemoveElement
    <3>4. Cardinality(Sending \cup Recording) <= Cardinality(Workers \ {w})
      BY <3>1, <3>3, FS_Subset
    <3> QED
      BY <1>6, <1>7, <3>2, <3>3, <3>4
  <2>5. Cardinality(TextsSent') + Cardinality(Sending')
          <= Limit + Cardinality(Workers) - 1 + faults'
    BY <1>1, <1>2, <1>3, <1>6, <1>7, <1>9, <2>1, <2>2, <2>3, <2>4 DEF B
  <2> QED
    BY <2>5 DEF WithinBudget
<1>10. CASE w \in Sending' => w \in Sending
  <2>1. Cardinality(TextsSent') + Cardinality(Sending')
          <= Limit + Cardinality(Workers) - 1 + faults'
    <3>1. CASE n \in Sms /\ texts' # texts
      <4>1. texts'[n] = texts[n] + 1
        BY <1>1, <1>2, <3>1
      <4> QED
        BY <1>1, <1>2, <1>3, <1>4, <1>6, <1>7, <1>8, <3>1, <4>1 DEF B
    <3>2. CASE n \notin Sms \/ texts' = texts
      BY <1>1, <1>2, <1>3, <1>6, <1>7, <1>8, <1>10, <3>2 DEF B
    <3> QED
      BY <3>1, <3>2
  <2> QED
    BY <2>1 DEF WithinBudget
<1> QED
  BY <1>9, <1>10

(* At the start every row is open and claimed, and nothing was sent.       *)
LEMMA InitBudget == Init => BudgetInv
<1> SUFFICES ASSUME Init
             PROVE  BudgetInv
  OBVIOUS
<1>1. /\ TypeOK /\ faults = 0 /\ Sms \subseteq Notices
      /\ \A n \in Notices : row[n] = "ABSENT" /\ texts[n] = 0 /\ job[n] = NoJob
      /\ \A w \in Workers : worker[w] = Idle
  BY InitIInv, SmsAssumption DEF Init, IInv
<1>2. NoJob.at = "none" /\ Idle.step = "idle"
  BY DEF NoJob, Idle
<1>3. TextsSent = {} /\ Pursuits = {} /\ Sending = {} /\ OpenSms = Claimed
  <2>1. TextsSent = {}
    BY <1>1 DEF TextsSent
  <2>2. Pursuits = {} /\ Sending = {}
    BY <1>1, <1>2 DEF Pursuits, Pursues, Sending
  <2>3. OpenSms = Claimed
    BY <1>1, <1>2 DEF OpenSms, Claimed, Claims, Open, Live
  <2> QED
    BY <2>1, <2>2, <2>3
<1>4. Cardinality({}) = 0
  BY FS_EmptySet
<1>5. Cardinality(Claimed) \in Nat
  BY <1>1, CountedSets, FS_CardinalityType DEF TypeOK
<1>6. Cardinality(Workers) \in Nat /\ Cardinality(Workers) # 0 /\ Limit \in Nat
  BY WorkAssumption, FiniteAssumption, NumberAssumption, FS_CardinalityType, FS_EmptySet
<1>7. Accounts
  BY <1>1, <1>3, <1>4, <1>5 DEF Accounts
<1>8. WithinBudget
  BY <1>1, <1>3, <1>4, <1>6 DEF WithinBudget
<1> QED
  BY <1>7, <1>8 DEF BudgetInv

(* Every step keeps the accounts and the budget.                           *)
LEMMA NextBudget == IInv /\ IInv' /\ BudgetInv /\ [Next]_vars => BudgetInv'
<1> SUFFICES ASSUME IInv, IInv', BudgetInv, [Next]_vars
             PROVE  BudgetInv'
  OBVIOUS
<1>1. CASE Dispatches
  <2>1. worker' = worker /\ texts' = texts /\ faults' = faults
    BY <1>1, DispatchesShape DEF IInv
  <2>2. WithinBudget'
    BY <2>1 DEF BudgetInv, WithinBudget, TextsSent, Sending
  <2> QED
    BY <1>1, <2>2, DispatchesKeepAccounts DEF BudgetInv
<1>2. ASSUME NEW w \in Workers, NEW n \in Notices, Delivers(w, n)
      PROVE  BudgetInv'
  BY <1>2, DeliversKeepsAccounts, DeliversKeepsBudget DEF BudgetInv
<1>3. CASE UNCHANGED vars
  <2>1. Accounts'
    BY <1>3 DEF vars, BudgetInv, Accounts, TextsSent, OpenSms, Pursuits, Claimed, Claims, Pursues,
       Works, Open, Live
  <2>2. WithinBudget'
    BY <1>3 DEF vars, BudgetInv, WithinBudget, TextsSent, Sending
  <2> QED
    BY <2>1, <2>2 DEF BudgetInv
<1> QED
  BY <1>1, <1>2, <1>3 DEF Next, Dispatches, Delivers

(* What was texted is accounted for, and the senders stay within the       *)
(* budget, throughout.                                                     *)
THEOREM BudgetInvariance == Spec => []BudgetInv
<1>1. IInv /\ BudgetInv /\ [Next]_vars /\ IInv' => BudgetInv'
  BY NextBudget
<1> QED
  BY <1>1, InitBudget, Invariance, PTL DEF Spec

(* The SMS of a day exceed the limit by fewer than there are workers, and  *)
(* by one for each fault.                                                  *)
THEOREM BudgetIsKeptHolds == Spec => []BudgetIsKept
<1>1. ASSUME IInv, BudgetInv
      PROVE  BudgetIsKept
  <2>1. TypeOK /\ texts \in [Notices -> Nat] /\ faults \in Nat /\ Limit \in Nat
    BY <1>1, NumberAssumption DEF IInv, TypeOK
  <2>2. /\ Cardinality(TextsSent) \in Nat /\ Cardinality(Sending) \in Nat
        /\ Cardinality(Workers) \in Nat
    BY <2>1, CountedSets, FiniteAssumption, FS_CardinalityType
  <2> QED
    BY <1>1, <2>1, <2>2 DEF BudgetInv, WithinBudget, BudgetIsKept
<1> QED
  BY <1>1, Invariance, BudgetInvariance, PTL
=============================================================================
