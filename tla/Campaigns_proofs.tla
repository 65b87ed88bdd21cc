-------------------------- MODULE Campaigns_proofs --------------------------
(***************************************************************************)
(* Proofs about a campaign, for any numbers of recipients, requests,       *)
(* workers and faults, and batches of any size.                            *)
(*                                                                         *)
(* Two of the properties are bounds on what is mailed, and each needs to   *)
(* know what may still be mailed: the workers that may mail an address,    *)
(* with the jobs that may become such workers, and the picked addresses    *)
(* that were spared since.  The invariant says that what was mailed and    *)
(* what may be stay under the bound together.                              *)
(***************************************************************************)
EXTENDS Campaigns, FiniteSetTheorems, TLAPS

(* An address that no run has dealt with, and who may still mail one: a    *)
(* worker that has it in its batch, or that may pick it later.             *)
Untouched(r) == rcpt[r] \in {"ABSENT", "PENDING"}
MayMail(w, r) ==
  /\ worker[w].step # "idle"
  /\ \/ r \in worker[w].todo
     \/ Untouched(r) /\ ~ (worker[w].step \in {"sent", "refused"} /\ worker[w].now = r)
Mailers(r) == {w \in Workers : MayMail(w, r)}

Budget ==
  \A r \in Recipients :
    mails[r] + (IF Untouched(r) THEN jobs ELSE 0) + Cardinality(Mailers(r)) <= runs + faults

(* The jobs and the workers at one come from the runs that were queued.    *)
Busy   == {w \in Workers : ~ At(w, "idle")}
Tokens == jobs + Cardinality(Busy) <= runs + faults

(* What is picked and was spared since will be mailed all the same.        *)
Picked == {p \in Workers \X Recipients : p[2] \in worker[p[1]].todo}
Spared == {p \in Picked : rcpt[p[2]] = "SKIPPED"}
SmallBatches == \A w \in Workers : Cardinality(worker[w].todo) <= Batch
LateOnes     == late + Cardinality(Spared) <= spares * (Cardinality(Workers) * Batch)

(* Nobody waits without a request or a worker that will see to it that     *)
(* there is a job.                                                         *)
Returning == {"look", "start", "pick", "mail", "sent", "refused", "count", "again"}
Awaited ==
  Waiting # {} /\ spares = 0 /\ ~ stranded =>
    \/ jobs > 0
    \/ \E w \in Workers : worker[w].step \in Returning
    \/ \E q \in Requests : req[q].step \in {"queue", "enqueue"}
StopsAreCounted ==
  /\ \A q \in Requests : req[q].step = "cancel" => spares > 0
  /\ status = "CANCELLED" => spares > 0

(* While there was one run and no fault, a campaign that has ended has no  *)
(* worker, and one that is being ended is ended as its rows say.           *)
Honest ==
  runs <= 1 /\ faults = 0 =>
    /\ status = "FAILED" => With("SENT") = {}
    /\ status = "SENT" /\ With("FAILED") # {} => With("SENT") # {}
    /\ status \in {"SENT", "FAILED"} => jobs = 0 /\ Busy = {} /\ runs = 1
    /\ \A w \in Workers :
         /\ At(w, "fail") => With("SENT") = {}
         /\ At(w, "close") /\ With("FAILED") # {} => With("SENT") # {}

Bounds == Budget /\ Tokens /\ SmallBatches /\ LateOnes
IInv   == TypeOK /\ Bounds /\ Awaited /\ StopsAreCounted /\ Honest

-----------------------------------------------------------------------------
(* How a count changes when a set of workers shrinks, loses or gains one.  *)
LEMMA Counts ==
  ASSUME NEW S \in SUBSET Workers
  PROVE  /\ IsFiniteSet(S) /\ Cardinality(S) \in Nat
         /\ \A T : T \subseteq S => Cardinality(T) \in Nat /\ Cardinality(T) <= Cardinality(S)
         /\ \A w \in S : \A T : T \subseteq S \ {w} =>
              Cardinality(T) \in Nat /\ Cardinality(T) <= Cardinality(S) - 1
         /\ \A w \in Workers : \A T : T \subseteq S \cup {w} =>
              Cardinality(T) \in Nat /\ Cardinality(T) <= Cardinality(S) + 1
<1>1. IsFiniteSet(S) /\ Cardinality(S) \in Nat
  BY FiniteAssumption, FS_Subset, FS_CardinalityType
<1>2. ASSUME NEW T, T \subseteq S
      PROVE  Cardinality(T) \in Nat /\ Cardinality(T) <= Cardinality(S)
  BY <1>1, <1>2, FS_Subset, FS_CardinalityType
<1>3. ASSUME NEW w \in S, NEW T, T \subseteq S \ {w}
      PROVE  Cardinality(T) \in Nat /\ Cardinality(T) <= Cardinality(S) - 1
  <2>1. IsFiniteSet(S \ {w}) /\ Cardinality(S \ {w}) = Cardinality(S) - 1
    BY <1>1, FS_RemoveElement
  <2> QED
    BY <1>3, <2>1, FS_Subset, FS_CardinalityType
<1>4. ASSUME NEW w \in Workers, NEW T, T \subseteq S \cup {w}
      PROVE  Cardinality(T) \in Nat /\ Cardinality(T) <= Cardinality(S) + 1
  <2>1. IsFiniteSet(S \cup {w}) /\ Cardinality(S \cup {w}) <= Cardinality(S) + 1
    BY <1>1, FS_AddElement
  <2>2. IsFiniteSet(T) /\ Cardinality(T) <= Cardinality(S \cup {w})
    BY <1>4, <2>1, FS_Subset
  <2> QED
    BY <1>1, <2>1, <2>2, FS_CardinalityType
<1> QED
  BY <1>1, <1>2, <1>3, <1>4

(* Workers that hold at most Batch addresses each hold at most that many   *)
(* times their number.                                                     *)
LEMMA HeldTogether ==
  ASSUME NEW T \in [Workers -> SUBSET Recipients],
         \A w \in Workers : Cardinality(T[w]) <= Batch,
         NEW P \in SUBSET {p \in Workers \X Recipients : p[2] \in T[p[1]]}
  PROVE  /\ IsFiniteSet(P) /\ Cardinality(P) \in Nat
         /\ Cardinality(P) <= Cardinality(Workers) * Batch
<1> DEFINE Held == {p \in Workers \X Recipients : p[2] \in T[p[1]]}
           Nth  == [w \in Workers |->
                      CHOOSE f : f \in Bijection(1 .. Cardinality(T[w]), T[w])]
           S    == {x \in Workers \X (1 .. Batch) : x[2] <= Cardinality(T[x[1]])}
           h    == [x \in S |-> <<x[1], Nth[x[1]][x[2]]>>]
<1>1. \A w \in Workers : IsFiniteSet(T[w])
  BY FiniteAssumption, FS_Subset
<1>2. \A w \in Workers : /\ Cardinality(T[w]) \in Nat
                         /\ \E f : f \in Bijection(1 .. Cardinality(T[w]), T[w])
  BY <1>1, FS_CardinalityType DEF ExistsBijection
<1>3. \A w \in Workers : Nth[w] \in Bijection(1 .. Cardinality(T[w]), T[w])
  BY <1>2
<1>4. \A w \in Workers :
        /\ Nth[w] \in [1 .. Cardinality(T[w]) -> T[w]]
        /\ \A r \in T[w] : \E k \in 1 .. Cardinality(T[w]) : Nth[w][k] = r
  BY <1>3 DEF Bijection, Injection, Surjection
<1>5. h \in [S -> Held]
  <2>1. ASSUME NEW x \in S
        PROVE  <<x[1], Nth[x[1]][x[2]]>> \in Held
    <3>1. x[1] \in Workers /\ x[2] \in 1 .. Cardinality(T[x[1]])
      BY <1>2, BatchAssumption
    <3>2. Nth[x[1]][x[2]] \in T[x[1]]
      BY <1>4, <3>1
    <3> QED
      BY <3>1, <3>2
  <2> QED
    BY <2>1
<1>6. ASSUME NEW p \in Held
      PROVE  \E x \in S : h[x] = p
  <2>1. PICK k \in 1 .. Cardinality(T[p[1]]) : Nth[p[1]][k] = p[2]
    BY <1>4
  <2>2. <<p[1], k>> \in S
    BY <1>2, <2>1, BatchAssumption
  <2>3. h[<<p[1], k>>] = <<p[1], p[2]>>
    BY <2>1, <2>2
  <2>4. p = <<p[1], p[2]>>
    OBVIOUS
  <2> QED
    BY <2>2, <2>3, <2>4
<1>7. h \in Surjection(S, Held)
  BY <1>5, <1>6 DEF Surjection
<1>8. /\ IsFiniteSet(Workers \X (1 .. Batch)) /\ Cardinality(Workers) \in Nat
      /\ Cardinality(Workers \X (1 .. Batch)) = Cardinality(Workers) * Batch
  <2>1. IsFiniteSet(1 .. Batch) /\ Cardinality(1 .. Batch) = Batch
    BY BatchAssumption, FS_Interval
  <2> QED
    BY <2>1, FiniteAssumption, FS_Product, FS_CardinalityType
<1>9. IsFiniteSet(S) /\ Cardinality(S) <= Cardinality(Workers) * Batch
  BY <1>8, FS_Subset
<1>10. IsFiniteSet(Held) /\ Cardinality(Held) <= Cardinality(S)
  BY <1>7, <1>9, FS_Surjection
<1>11. IsFiniteSet(P) /\ Cardinality(P) <= Cardinality(Held)
  BY <1>10, FS_Subset
<1>12. /\ Cardinality(P) \in Nat /\ Cardinality(Held) \in Nat /\ Cardinality(S) \in Nat
       /\ Cardinality(Workers) * Batch \in Nat
  BY <1>8, <1>9, <1>10, <1>11, BatchAssumption, FS_CardinalityType
<1> QED
  BY <1>9, <1>10, <1>11, <1>12

-----------------------------------------------------------------------------
(* A request leaves the workers alone, and no address it touches was       *)
(* dealt with or leaves the list.                                          *)
LEMMA RequestsKeepTypes ==
  ASSUME TypeOK, NEW q \in Requests, SendReads(q) \/ CancelReads(q) \/ RequestStep(q)
  PROVE  /\ TypeOK'
         /\ worker' = worker /\ mails' = mails /\ late' = late
         /\ runs' \in {runs, runs + 1} /\ faults' \in {faults, faults + 1}
         /\ With("SENT")' = With("SENT") /\ With("FAILED")' = With("FAILED")
         /\ \A r \in Recipients : rcpt[r] # "ABSENT" => rcpt'[r] # "ABSENT"
         /\ \A r \in Recipients : Untouched(r)' => Untouched(r)
<1>1. /\ worker' = worker /\ mails' = mails /\ late' = late
      /\ runs' \in {runs, runs + 1} /\ faults' \in {faults, faults + 1}
  BY DEF SendReads, CancelReads, RequestStep, Freeze, Queue, Enqueue, Spare, Cancel, ghosts, Fault
<1>2. /\ rcpt' \in [Recipients -> RecipientStatus]
      /\ \A r \in Recipients :
           \/ rcpt'[r] = rcpt[r]
           \/ rcpt[r] = "ABSENT" /\ rcpt'[r] = "PENDING"
           \/ rcpt[r] = "PENDING" /\ rcpt'[r] = "SKIPPED"
  <2>1. rcpt \in [Recipients -> RecipientStatus]
    BY DEF TypeOK
  <2>2. CASE Freeze(q)
    BY <2>1, <2>2 DEF Freeze, RecipientStatus
  <2>3. CASE Spare(q)
    BY <2>1, <2>3 DEF Spare, Waiting, RecipientStatus
  <2> QED
    BY <2>1, <2>2, <2>3 DEF SendReads, CancelReads, RequestStep, Queue, Enqueue, Cancel
<1>3. /\ req' \in [Requests -> Request]
      /\ status' \in EmailCampaignStatus
  BY DEF TypeOK, Request, NoRequest, EmailCampaignStatus, SendReads, CancelReads, RequestStep,
     Freeze, Queue, Enqueue, Spare, Cancel, Asks, Answers
<1>4. /\ {jobs', late', runs', spares', faults'} \subseteq Nat /\ stranded' \in BOOLEAN
      /\ mails' \in [Recipients -> Nat]
  <2>1. /\ jobs \in Nat /\ late \in Nat /\ runs \in Nat /\ spares \in Nat /\ faults \in Nat
        /\ stranded \in BOOLEAN /\ mails \in [Recipients -> Nat]
    BY DEF TypeOK
  <2>2. /\ jobs' \in {jobs, jobs + 1} /\ spares' \in {spares, spares + 1}
        /\ UNCHANGED stranded \/ stranded' = TRUE
    BY DEF SendReads, CancelReads, RequestStep, Freeze, Queue, Enqueue, Spare, Cancel, ghosts
  <2>3. jobs' \in Nat /\ late' \in Nat /\ runs' \in Nat /\ spares' \in Nat /\ faults' \in Nat
    BY <1>1, <2>1, <2>2
  <2>4. stranded' \in BOOLEAN
    BY <2>1, <2>2
  <2> QED
    BY <1>1, <2>1, <2>3, <2>4
<1>5. With("ABSENT")' \subseteq With("ABSENT")
  BY <1>2 DEF With
<1>6. \A w \in Workers : BatchIsListed(w)'
  BY <1>1, <1>5 DEF TypeOK, BatchIsListed, At
<1> QED
  BY <1>1, <1>2, <1>3, <1>4, <1>6 DEF TypeOK, With, Untouched

(* What the step of a worker may do to it and to the rows.                 *)
WorkerActs(w) == Take(w) \/ WorkerStep(w) \/ NoteFails(w) \/ Stall(w) \/ JobFails(w)

LEMMA WorkersKeepTypes ==
  ASSUME TypeOK, NEW w \in Workers, WorkerActs(w)
  PROVE  /\ TypeOK'
         /\ worker' = [worker EXCEPT ![w] = worker'[w]]
         /\ req' = req /\ runs' = runs /\ spares' = spares
         /\ faults' \in {faults, faults + 1}
         /\ \A r \in Recipients : rcpt'[r] = rcpt[r] \/ rcpt'[r] \in {"SENT", "FAILED"}
<1>1. req' = req /\ runs' = runs /\ spares' = spares /\ faults' \in {faults, faults + 1}
  BY DEF WorkerActs, Take, WorkerStep, Look, Start, Pick, Mail, Note, NoteFails, Count, Again, Reread,
     Finish, Close, Stall, JobFails, ghosts, Fault
<1>2. /\ worker \in [Workers -> Batching] /\ status \in EmailCampaignStatus
      /\ rcpt \in [Recipients -> RecipientStatus] /\ worker[w] \in Batching
  BY DEF TypeOK
<1>3. /\ worker' = [worker EXCEPT ![w] = worker'[w]]
      /\ worker'[w] \in Batching
  <2>1. Rest \in Batching
    BY DEF Rest, Batching, EmailCampaignStatus
  <2>2. CASE Take(w) \/ Start(w) \/ Count(w) \/ Again(w)
    BY <1>2, <2>1, <2>2 DEF Take, Start, Count, Again, Goto, Ends, Batching
  <2>6. CASE Look(w)
    BY <1>2, <2>1, <2>6 DEF Look, Rest, Batching
  <2>7. CASE Pick(w)
    <3>1. PICK batch \in SUBSET Recipients, step \in {"finish", "mail"} :
            worker' = [worker EXCEPT ![w].step = step, ![w].todo = batch]
      BY <2>7 DEF Pick, Waiting
    <3>2. worker'[w] = [worker[w] EXCEPT !.step = step, !.todo = batch]
      BY <1>2, <3>1
    <3>3. worker' = [worker EXCEPT ![w] = worker'[w]]
      BY <1>2, <3>1, <3>2
    <3> QED
      BY <1>2, <3>2, <3>3 DEF Batching
  <2>3. CASE Mail(w)
    BY <1>2, <2>3 DEF Mail, Batching
  <2>4. CASE Note(w) \/ NoteFails(w) \/ Reread(w) \/ Finish(w) \/ Close(w)
    BY <1>2, <2>1, <2>4 DEF Note, NoteFails, Reread, Finish, Close, Goto, Ends, Batching
  <2>5. CASE Stall(w) \/ JobFails(w)
    BY <1>2, <2>1, <2>5 DEF Stall, JobFails, Ends
  <2> QED
    BY <2>2, <2>3, <2>4, <2>5, <2>6, <2>7 DEF WorkerActs, WorkerStep
<1>4. /\ rcpt' \in [Recipients -> RecipientStatus]
      /\ \A r \in Recipients : rcpt'[r] = rcpt[r] \/ rcpt'[r] \in {"SENT", "FAILED"}
  BY <1>2 DEF WorkerActs, Take, WorkerStep, Look, Start, Pick, Mail, Note, NoteFails, Count, Again, Reread,
     Finish, Close, Stall, JobFails, ghosts, Mark, RecipientStatus
<1>5. BatchIsListed(w)'
  <2>1. BatchIsListed(w) /\ With("ABSENT")' \subseteq With("ABSENT")
    BY <1>4 DEF TypeOK, With
  <2>2. CASE Take(w) \/ Start(w) \/ Count(w) \/ Again(w)
    BY <1>2, <2>1, <2>2 DEF Take, Start, Count, Again, Goto, Ends, Rest, BatchIsListed, At, Batching
  <2>7. CASE Look(w)
    <3>1. worker'[w].todo = {} /\ worker'[w].step \in {"idle", "start", "pick"}
      BY <1>2, <2>7 DEF Look, Rest
    <3> QED
      BY <3>1 DEF BatchIsListed, At
  <2>3. CASE Pick(w)
    BY <1>2, <2>1, <2>3 DEF Pick, BatchIsListed, At, With, Waiting, Batching, ghosts
  <2>4. CASE Mail(w)
    BY <1>2, <2>1, <2>4 DEF Mail, BatchIsListed, At, With, Batching
  <2>5. CASE Note(w) \/ NoteFails(w) \/ Reread(w) \/ Finish(w) \/ Close(w)
    BY <1>2, <2>1, <2>5 DEF Note, NoteFails, Reread, Finish, Close, Goto, Ends, Rest, BatchIsListed, At,
       Batching, With
  <2>6. CASE Stall(w) \/ JobFails(w)
    BY <1>2, <2>1, <2>6 DEF Stall, JobFails, Ends, Rest, BatchIsListed, At, Batching, With
  <2> QED
    BY <2>2, <2>3, <2>4, <2>5, <2>6, <2>7 DEF WorkerActs, WorkerStep
<1>6. \A v \in Workers : BatchIsListed(v)'
  BY <1>2, <1>3, <1>4, <1>5 DEF TypeOK, BatchIsListed, At, With
<1>7. /\ status' \in EmailCampaignStatus
      /\ {jobs', late', runs', spares', faults'} \subseteq Nat /\ stranded' \in BOOLEAN
      /\ mails' \in [Recipients -> Nat]
  <2>1. /\ jobs \in Nat /\ late \in Nat /\ runs \in Nat /\ spares \in Nat /\ faults \in Nat
        /\ stranded \in BOOLEAN /\ mails \in [Recipients -> Nat]
    BY DEF TypeOK
  <2>2. CASE Mail(w)
    BY <1>1, <1>2, <2>1, <2>2 DEF Mail, Batching
  <2>3. CASE Take(w)
    BY <1>1, <1>2, <2>1, <2>3 DEF Take, ghosts
  <2>4. CASE WorkerStep(w) /\ ~ Mail(w)
    <3>1. UNCHANGED <<mails, late, stranded>> /\ jobs' \in {jobs, jobs + 1}
      BY <2>4 DEF WorkerStep, Look, Start, Pick, Note, Count, Again, Reread, Finish, Close, ghosts
    <3>2. status' \in EmailCampaignStatus
      BY <1>2, <2>4 DEF WorkerStep, Look, Start, Pick, Note, Count, Again, Reread, Finish, Close,
         EmailCampaignStatus
    <3> QED
      BY <1>1, <2>1, <3>1, <3>2
  <2>5. CASE NoteFails(w) \/ Stall(w) \/ JobFails(w)
    <3>1. /\ UNCHANGED <<mails, late, status>> /\ jobs' \in {jobs, jobs + 1}
          /\ UNCHANGED stranded \/ stranded' = TRUE
      BY <2>5 DEF NoteFails, Stall, JobFails
    <3>2. jobs' \in Nat /\ late' \in Nat /\ runs' \in Nat /\ spares' \in Nat /\ faults' \in Nat
      BY <1>1, <2>1, <3>1
    <3>3. stranded' \in BOOLEAN
      BY <2>1, <3>1
    <3> QED
      BY <1>2, <2>1, <3>1, <3>2, <3>3
  <2> QED
    BY <2>2, <2>3, <2>4, <2>5 DEF WorkerActs
<1>8. worker' \in [Workers -> Batching]
  BY <1>2, <1>3
<1> QED
  BY <1>1, <1>3, <1>4, <1>6, <1>7, <1>8 DEF TypeOK

-----------------------------------------------------------------------------
(* The numbers the bounds are about.                                       *)
LEMMA Numbers ==
  ASSUME TypeOK
  PROVE  /\ jobs \in Nat /\ late \in Nat /\ runs \in Nat /\ spares \in Nat /\ faults \in Nat
         /\ mails \in [Recipients -> Nat]
         /\ \A w \in Workers : worker[w] \in Batching /\ BatchIsListed(w)
         /\ \A r \in Recipients : rcpt[r] \in RecipientStatus
         /\ \A r \in Recipients : Cardinality(Mailers(r)) \in Nat
         /\ Cardinality(Busy) \in Nat
         /\ Cardinality(Workers) * Batch \in Nat
<1>1. \A S \in SUBSET Workers : Cardinality(S) \in Nat
  BY Counts
<1>2. Cardinality(Workers) * Batch \in Nat
  BY <1>1, BatchAssumption
<1>3. \A r \in Recipients : Mailers(r) \in SUBSET Workers
  BY DEF Mailers
<1> QED
  BY <1>1, <1>2, <1>3 DEF TypeOK, Busy

(* The addresses that are picked and were spared, counted.                 *)
LEMMA SparedOnes ==
  ASSUME TypeOK, SmallBatches
  PROVE  /\ IsFiniteSet(Spared) /\ Cardinality(Spared) \in Nat
         /\ Cardinality(Spared) <= Cardinality(Workers) * Batch
         /\ \A P : P \subseteq Spared => Cardinality(P) \in Nat /\ Cardinality(P) <= Cardinality(Spared)
         /\ \A p \in Spared : \A P : P \subseteq Spared \ {p} =>
              Cardinality(P) \in Nat /\ Cardinality(P) <= Cardinality(Spared) - 1
         /\ \A P : P \subseteq Picked =>
              Cardinality(P) \in Nat /\ Cardinality(P) <= Cardinality(Workers) * Batch
<1> DEFINE T == [w \in Workers |-> worker[w].todo]
<1>1. T \in [Workers -> SUBSET Recipients]
  BY DEF TypeOK, Batching
<1>2. \A w \in Workers : Cardinality(T[w]) <= Batch
  BY DEF SmallBatches
<1>3. Spared \in SUBSET {p \in Workers \X Recipients : p[2] \in T[p[1]]}
  BY DEF Spared, Picked
<1>4. /\ IsFiniteSet(Spared) /\ Cardinality(Spared) \in Nat
      /\ Cardinality(Spared) <= Cardinality(Workers) * Batch
  <2> HIDE DEF T
  <2> QED
    BY <1>1, <1>2, <1>3, HeldTogether
<1>5. ASSUME NEW P, P \subseteq Spared
      PROVE  Cardinality(P) \in Nat /\ Cardinality(P) <= Cardinality(Spared)
  BY <1>4, <1>5, FS_Subset, FS_CardinalityType
<1>6. ASSUME NEW p \in Spared, NEW P, P \subseteq Spared \ {p}
      PROVE  Cardinality(P) \in Nat /\ Cardinality(P) <= Cardinality(Spared) - 1
  <2>1. IsFiniteSet(Spared \ {p}) /\ Cardinality(Spared \ {p}) = Cardinality(Spared) - 1
    BY <1>4, FS_RemoveElement
  <2> QED
    BY <1>6, <2>1, FS_Subset, FS_CardinalityType
<1>7. ASSUME NEW P, P \subseteq Picked
      PROVE  Cardinality(P) \in Nat /\ Cardinality(P) <= Cardinality(Workers) * Batch
  <2>1. P \in SUBSET {p \in Workers \X Recipients : p[2] \in T[p[1]]}
    BY <1>7 DEF Picked
  <2> HIDE DEF T
  <2> QED
    BY <1>1, <1>2, <2>1, HeldTogether
<1> QED
  BY <1>4, <1>5, <1>6, <1>7

-----------------------------------------------------------------------------
(* A request adds a job only with a run, and what it spares is at most     *)
(* what the workers hold.                                                  *)
LEMMA RequestsKeepBounds ==
  ASSUME TypeOK, Bounds, NEW q \in Requests, SendReads(q) \/ CancelReads(q) \/ RequestStep(q)
  PROVE  Bounds'
<1>1. /\ TypeOK' /\ worker' = worker /\ mails' = mails /\ late' = late
      /\ \A r \in Recipients : Untouched(r)' => Untouched(r)
  BY RequestsKeepTypes
<1>2. jobs' - jobs <= (runs' + faults') - (runs + faults) /\ jobs' >= jobs
  BY Numbers DEF SendReads, CancelReads, RequestStep, Freeze, Queue, Enqueue, Spare, Cancel, ghosts, Fault
<1>3. jobs' \in Nat /\ runs' \in Nat /\ faults' \in Nat /\ spares' \in Nat
  BY <1>1 DEF TypeOK
<1>4. Budget'
  <2> SUFFICES ASSUME NEW r \in Recipients
               PROVE  mails'[r] + (IF Untouched(r)' THEN jobs' ELSE 0)
                        + Cardinality(Mailers(r)') <= runs' + faults'
    BY DEF Budget
  <2>1. Mailers(r)' \subseteq Mailers(r)
    BY <1>1 DEF Mailers, MayMail, Untouched
  <2>2. Cardinality(Mailers(r)') \in Nat /\ Cardinality(Mailers(r)') <= Cardinality(Mailers(r))
    <3>1. Mailers(r) \in SUBSET Workers
      BY DEF Mailers
    <3> QED
      BY <2>1, <3>1, Counts
  <2>3. mails[r] + (IF Untouched(r) THEN jobs ELSE 0) + Cardinality(Mailers(r)) <= runs + faults
    BY DEF Bounds, Budget
  <2>4. (IF Untouched(r)' THEN jobs' ELSE 0) <= (IF Untouched(r) THEN jobs ELSE 0) + (jobs' - jobs)
    BY <1>1, <1>2, <1>3, Numbers
  <2>5. mails'[r] = mails[r] /\ mails[r] \in Nat
    BY <1>1, Numbers
  <2> QED
    BY <1>2, <1>3, <2>2, <2>3, <2>4, <2>5, Numbers
<1>5. Tokens'
  <2>1. Busy' = Busy /\ jobs + Cardinality(Busy) <= runs + faults
    BY <1>1 DEF Busy, At, Bounds, Tokens
  <2> QED
    BY <1>2, <1>3, <2>1, Numbers DEF Tokens
<1>6. SmallBatches'
  BY <1>1 DEF Bounds, SmallBatches
<1>7. LateOnes'
  <2> DEFINE C == Cardinality(Workers) * Batch
  <2>1. /\ C \in Nat /\ late \in Nat /\ spares \in Nat /\ Cardinality(Spared) \in Nat
        /\ late + Cardinality(Spared) <= spares * C
    BY Numbers, SparedOnes DEF Bounds, LateOnes
  <2>2. Cardinality(Spared)' \in Nat /\ Cardinality(Spared)' <= C
    <3>1. Spared' \subseteq Picked
      BY <1>1 DEF Spared, Picked
    <3> QED
      BY <3>1, SparedOnes DEF Bounds
  <2>3. CASE Spare(q)
    <3>1. spares' = spares + 1
      BY <2>3 DEF Spare
    <3>2. late + Cardinality(Spared)' <= spares * C + C
      <4> HIDE DEF C
      <4>1. spares * C \in Nat
        BY <2>1
      <4> QED
        BY <2>1, <2>2, <4>1
    <3>3. spares * C + C = (spares + 1) * C
      <4> HIDE DEF C
      <4> QED
        BY <2>1
    <3> QED
      BY <1>1, <3>1, <3>2, <3>3 DEF LateOnes
  <2>4. CASE ~ Spare(q)
    <3>1. spares' = spares
      BY <2>4 DEF SendReads, CancelReads, RequestStep, Freeze, Queue, Enqueue, Cancel, ghosts
    <3>2. \A r \in Recipients : rcpt'[r] = "SKIPPED" => rcpt[r] = "SKIPPED"
      BY <2>4, Numbers DEF SendReads, CancelReads, RequestStep, Freeze, Queue, Enqueue, Cancel
    <3>3. Spared' \subseteq Spared
      BY <1>1, <3>2 DEF Spared, Picked
    <3>4. Cardinality(Spared)' <= Cardinality(Spared)
      BY <3>3, SparedOnes DEF Bounds
    <3>5. late + Cardinality(Spared)' <= spares * C
      <4> HIDE DEF C
      <4>1. spares * C \in Nat
        BY <2>1
      <4> QED
        BY <2>1, <2>2, <3>4, <4>1
    <3> QED
      BY <1>1, <3>1, <3>5 DEF LateOnes
  <2> QED
    BY <2>3, <2>4
<1> QED
  BY <1>4, <1>5, <1>6, <1>7 DEF Bounds

-----------------------------------------------------------------------------
(* The step of a worker leaves the others as they were: who may mail an    *)
(* address is to be asked of that worker only.                             *)
LEMMA OthersMailNoMore ==
  ASSUME TypeOK, NEW w \in Workers, WorkerActs(w), NEW r \in Recipients
  PROVE  /\ Untouched(r)' => Untouched(r)
         /\ Mailers(r)' \subseteq Mailers(r) \cup {w}
         /\ (MayMail(w, r)' => MayMail(w, r)) => Mailers(r)' \subseteq Mailers(r)
         /\ ~ MayMail(w, r)' => Mailers(r)' \subseteq Mailers(r) \ {w}
<1>1. /\ worker \in [Workers -> Batching]
      /\ worker' = [worker EXCEPT ![w] = worker'[w]]
      /\ rcpt'[r] = rcpt[r] \/ rcpt'[r] \in {"SENT", "FAILED"}
  BY WorkersKeepTypes DEF TypeOK
<1>2. Untouched(r)' => Untouched(r)
  BY <1>1 DEF Untouched
<1>3. ASSUME NEW v \in Workers \ {w}, MayMail(v, r)'
      PROVE  MayMail(v, r)
  <2>1. worker'[v] = worker[v]
    BY <1>1
  <2> QED
    BY <1>2, <1>3, <2>1 DEF MayMail
<1> QED
  BY <1>2, <1>3 DEF Mailers

(* A worker that takes a job may mail whoever no run has dealt with, and   *)
(* one that gives its job back may not mail anybody.                       *)
LEMMA TakingAndGivingBack ==
  ASSUME TypeOK, NEW w \in Workers, NEW r \in Recipients
  PROVE  /\ Take(w) /\ MayMail(w, r)' => Untouched(r)
         /\ Again(w) => ~ MayMail(w, r)' /\ (Untouched(r) => MayMail(w, r))
<1>1. worker \in [Workers -> Batching]
  BY DEF TypeOK
<1>2. ASSUME Take(w), MayMail(w, r)'
      PROVE  Untouched(r)
  <2>1. worker'[w].step = "look" /\ worker'[w].todo = {} /\ UNCHANGED rcpt
    BY <1>1, <1>2 DEF Take, Goto, Rest
  <2> QED
    BY <1>2, <2>1 DEF MayMail, Untouched
<1>3. ASSUME Again(w)
      PROVE  ~ MayMail(w, r)' /\ (Untouched(r) => MayMail(w, r))
  <2>1. worker'[w].step = "idle" /\ worker[w].step = "again"
    BY <1>1, <1>3 DEF Again, Ends, Rest, At
  <2> QED
    BY <2>1 DEF MayMail, Untouched
<1> QED
  BY <1>2, <1>3

(* No other step lets a worker mail somebody it might not have mailed.     *)
LEMMA StepsMailNoMore ==
  ASSUME TypeOK, NEW w \in Workers, NEW r \in Recipients, MayMail(w, r)',
         \/ Look(w) \/ Start(w) \/ Pick(w) \/ Mail(w) \/ Note(w) \/ Count(w) \/ Reread(w)
         \/ Finish(w) \/ Close(w) \/ NoteFails(w) \/ Stall(w) \/ JobFails(w)
  PROVE  MayMail(w, r)
<1>1. /\ worker \in [Workers -> Batching] /\ worker[w] \in Batching /\ BatchIsListed(w)
      /\ rcpt \in [Recipients -> RecipientStatus]
  BY DEF TypeOK
<1>2. CASE Look(w) \/ Start(w) \/ Count(w) \/ Reread(w) \/ Finish(w) \/ Close(w) \/ JobFails(w)
  <2>1. UNCHANGED rcpt
    BY <1>2 DEF Look, Start, Count, Reread, Finish, Close, JobFails
  <2>2. \/ worker'[w].step = "idle"
        \/ /\ worker'[w].todo \subseteq worker[w].todo
           /\ worker[w].step \notin {"idle", "sent", "refused"}
    <3>1. CASE Look(w)
      BY <1>1, <3>1 DEF Look, Rest, At
    <3>2. CASE Start(w) \/ Count(w) \/ Reread(w)
      BY <1>1, <3>2 DEF Start, Count, Reread, Goto, At, Batching
    <3>3. CASE Finish(w) \/ Close(w) \/ JobFails(w)
      BY <1>1, <3>3 DEF Finish, Close, JobFails, Goto, Ends, Rest, At, Batching
    <3> QED
      BY <1>2, <3>1, <3>2, <3>3
  <2> QED
    BY <2>1, <2>2 DEF MayMail, Untouched
<1>3. CASE Pick(w)
  <2>1. /\ UNCHANGED rcpt /\ worker[w].step = "pick"
        /\ \A a \in worker'[w].todo : a \in Waiting
    <3>1. PICK batch \in SUBSET Waiting, step \in {"finish", "mail"} :
            worker' = [worker EXCEPT ![w].step = step, ![w].todo = batch]
      BY <1>3 DEF Pick
    <3>2. worker'[w].todo = batch
      BY <1>1, <3>1 DEF Batching
    <3> QED
      BY <1>3, <3>2 DEF Pick, At
  <2> QED
    BY <2>1 DEF MayMail, Untouched, Waiting
<1>4. CASE Mail(w)
  <2>1. /\ UNCHANGED rcpt /\ worker[w].step = "mail" /\ worker'[w].todo \subseteq worker[w].todo
    <3>1. PICK a \in worker[w].todo, step \in {"sent", "refused"} :
            worker' = [worker EXCEPT ![w].step = step, ![w].now = a, ![w].todo = @ \ {a}]
      BY <1>4 DEF Mail
    <3>2. worker'[w].todo = worker[w].todo \ {a}
      BY <1>1, <3>1 DEF Batching
    <3> QED
      BY <1>4, <3>2 DEF Mail, At
  <2> QED
    BY <2>1 DEF MayMail, Untouched
<1>5. CASE Note(w)
  <2>1. /\ worker[w].step \in {"sent", "refused"} /\ worker[w].now \in Recipients
        /\ worker'[w].todo = worker[w].todo
        /\ rcpt'[worker[w].now] \in {"SENT", "FAILED"}
        /\ rcpt'[r] = rcpt[r] \/ r = worker[w].now
    BY <1>1, <1>5 DEF Note, BatchIsListed, Goto, Mark, Batching
  <2> QED
    BY <2>1 DEF MayMail, Untouched
<1>6. CASE NoteFails(w)
  <2>1. /\ worker[w].step = "sent" /\ worker'[w] = [worker[w] EXCEPT !.step = "refused"]
        /\ UNCHANGED rcpt
    BY <1>1, <1>6 DEF NoteFails, Goto, At
  <2>2. /\ worker'[w].todo = worker[w].todo /\ worker'[w].now = worker[w].now
        /\ worker'[w].step = "refused"
    BY <1>1, <2>1 DEF Batching
  <2> QED
    BY <2>1, <2>2 DEF MayMail, Untouched
<1>7. CASE Stall(w)
  <2>1. UNCHANGED rcpt /\ (UNCHANGED worker \/ worker'[w].step = "idle")
    BY <1>1, <1>7 DEF Stall, Ends, Rest
  <2> QED
    BY <2>1 DEF MayMail, Untouched
<1> QED
  BY <1>2, <1>3, <1>4, <1>5, <1>6, <1>7

(* Who is mailed is off the batch, and not picked again before its row is  *)
(* updated.                                                                *)
LEMMA MailingTakesOff ==
  ASSUME TypeOK, NEW w \in Workers, Mail(w), NEW r \in Recipients, mails'[r] # mails[r]
  PROVE  mails'[r] = mails[r] + 1 /\ MayMail(w, r) /\ ~ MayMail(w, r)'
<1>1. worker[w] \in Batching /\ worker \in [Workers -> Batching] /\ mails \in [Recipients -> Nat]
  BY DEF TypeOK
<1>2. /\ r \in worker[w].todo /\ mails'[r] = mails[r] + 1 /\ worker[w].step = "mail"
      /\ worker' = [worker EXCEPT ![w].step = "sent", ![w].now = r, ![w].todo = @ \ {r}]
  BY <1>1 DEF Mail, At
<1>3. worker'[w].step = "sent" /\ worker'[w].now = r /\ r \notin worker'[w].todo
  BY <1>1, <1>2 DEF Batching
<1> QED
  BY <1>2, <1>3 DEF MayMail

-----------------------------------------------------------------------------
(* The step of a worker keeps the budget of every address.                 *)
LEMMA WorkersKeepBudget ==
  ASSUME TypeOK, Budget, NEW w \in Workers, WorkerActs(w)
  PROVE  Budget'
<1> SUFFICES ASSUME NEW r \in Recipients
             PROVE  mails'[r] + (IF Untouched(r)' THEN jobs' ELSE 0)
                      + Cardinality(Mailers(r)') <= runs' + faults'
  BY DEF Budget
<1>1. /\ mails[r] + (IF Untouched(r) THEN jobs ELSE 0) + Cardinality(Mailers(r)) <= runs + faults
      /\ mails[r] \in Nat /\ jobs \in Nat /\ runs \in Nat /\ faults \in Nat
      /\ Cardinality(Mailers(r)) \in Nat
  BY Numbers DEF Budget
<1>2. /\ runs' = runs /\ faults' \in {faults, faults + 1}
      /\ Untouched(r)' => Untouched(r)
      /\ Mailers(r)' \subseteq Mailers(r) \cup {w}
      /\ (MayMail(w, r)' => MayMail(w, r)) => Mailers(r)' \subseteq Mailers(r)
      /\ ~ MayMail(w, r)' => Mailers(r)' \subseteq Mailers(r) \ {w}
  BY WorkersKeepTypes, OthersMailNoMore
<1>3. /\ Mailers(r) \in SUBSET Workers /\ Cardinality(Mailers(r)') \in Nat
      /\ MayMail(w, r) <=> w \in Mailers(r)
  <2>1. Mailers(r) \in SUBSET Workers /\ Mailers(r)' \in SUBSET Workers
    BY DEF Mailers
  <2> QED
    BY <2>1, Counts DEF Mailers
<1>4. /\ Cardinality(Mailers(r)') <= Cardinality(Mailers(r)) + 1
      /\ (MayMail(w, r)' => MayMail(w, r)) => Cardinality(Mailers(r)') <= Cardinality(Mailers(r))
      /\ MayMail(w, r) /\ ~ MayMail(w, r)' => Cardinality(Mailers(r)') <= Cardinality(Mailers(r)) - 1
  BY <1>2, <1>3, Counts
<1>5. CASE Take(w)
  <2>1. jobs > 0 /\ jobs' = jobs - 1 /\ UNCHANGED <<mails, rcpt, faults>>
    BY <1>5 DEF Take, ghosts
  <2>2. ~ Untouched(r) => Cardinality(Mailers(r)') <= Cardinality(Mailers(r))
    BY <1>4, <1>5, TakingAndGivingBack
  <2>3. Untouched(r)' <=> Untouched(r)
    BY <2>1 DEF Untouched
  <2> QED
    BY <1>1, <1>2, <1>3, <1>4, <2>1, <2>2, <2>3
<1>6. CASE Again(w)
  <2>1. jobs' = jobs + 1 /\ UNCHANGED <<mails, rcpt, faults>>
    BY <1>6 DEF Again, ghosts
  <2>2. /\ Cardinality(Mailers(r)') <= Cardinality(Mailers(r))
        /\ Untouched(r) => Cardinality(Mailers(r)') <= Cardinality(Mailers(r)) - 1
    BY <1>4, <1>6, TakingAndGivingBack
  <2>3. Untouched(r)' <=> Untouched(r)
    BY <2>1 DEF Untouched
  <2> QED
    BY <1>1, <1>2, <1>3, <2>1, <2>2, <2>3
<1>7. CASE Mail(w)
  <2>1. jobs' = jobs /\ UNCHANGED <<rcpt, faults>>
    BY <1>7 DEF Mail
  <2>2. Untouched(r)' <=> Untouched(r)
    BY <2>1 DEF Untouched
  <2>3. CASE mails'[r] # mails[r]
    <3>1. mails'[r] = mails[r] + 1 /\ Cardinality(Mailers(r)') <= Cardinality(Mailers(r)) - 1
      BY <1>4, <1>7, <2>3, MailingTakesOff
    <3> QED
      BY <1>1, <1>2, <1>3, <2>1, <2>2, <3>1
  <2>4. CASE mails'[r] = mails[r]
    <3>1. Cardinality(Mailers(r)') <= Cardinality(Mailers(r))
      BY <1>4, <1>7, StepsMailNoMore
    <3> QED
      BY <1>1, <1>2, <1>3, <2>1, <2>2, <2>4, <3>1
  <2> QED
    BY <2>3, <2>4
<1>8. CASE \/ Look(w) \/ Start(w) \/ Pick(w) \/ Note(w) \/ Count(w) \/ Reread(w)
           \/ Finish(w) \/ Close(w) \/ NoteFails(w) \/ Stall(w) \/ JobFails(w)
  <2>1. /\ mails' = mails
        /\ \/ jobs' = jobs
           \/ jobs' = jobs + 1 /\ faults' = faults + 1
    BY <1>8 DEF Look, Start, Pick, Note, Count, Reread, Finish, Close, NoteFails, Stall, JobFails,
       ghosts, Fault
  <2>2. Cardinality(Mailers(r)') <= Cardinality(Mailers(r))
    BY <1>4, <1>8, StepsMailNoMore
  <2> QED
    BY <1>1, <1>2, <1>3, <2>1, <2>2
<1> QED
  BY <1>5, <1>6, <1>7, <1>8 DEF WorkerActs, WorkerStep

(* Jobs and workers at one together grow only with a fault.                *)
LEMMA WorkersKeepTokens ==
  ASSUME TypeOK, Tokens, NEW w \in Workers, WorkerActs(w)
  PROVE  Tokens'
<1>1. /\ jobs + Cardinality(Busy) <= runs + faults /\ Cardinality(Busy) \in Nat
      /\ jobs \in Nat /\ runs \in Nat /\ faults \in Nat /\ jobs' \in Nat
      /\ runs' = runs /\ faults' \in {faults, faults + 1}
      /\ worker \in [Workers -> Batching] /\ worker' = [worker EXCEPT ![w] = worker'[w]]
  BY Numbers, WorkersKeepTypes DEF Tokens, TypeOK
<1>2. \A v \in Workers \ {w} : worker'[v] = worker[v]
  BY <1>1
<1>3. Busy \in SUBSET Workers /\ Busy' \in SUBSET Workers
  BY DEF Busy
<1>4. Cardinality(Busy') \in Nat
  BY <1>3, Counts
<1>5. CASE Take(w)
  <2>1. jobs > 0 /\ jobs' = jobs - 1
    BY <1>5 DEF Take
  <2>2. Busy' \subseteq Busy \cup {w}
    BY <1>2 DEF Busy, At
  <2>3. Cardinality(Busy') <= Cardinality(Busy) + 1
    BY <1>3, <2>2, Counts
  <2> QED
    BY <1>1, <1>4, <2>1, <2>3 DEF Tokens
<1>6. CASE Again(w)
  <2>1. jobs' = jobs + 1 /\ w \in Busy /\ worker'[w].step = "idle"
    BY <1>1, <1>6 DEF Again, Busy, At, Ends, Rest
  <2>2. Busy' \subseteq Busy \ {w}
    BY <1>2, <2>1 DEF Busy, At
  <2>3. Cardinality(Busy') <= Cardinality(Busy) - 1
    BY <1>3, <2>1, <2>2, Counts
  <2> QED
    BY <1>1, <1>4, <2>1, <2>3 DEF Tokens
<1>7. CASE \/ Look(w) \/ Start(w) \/ Pick(w) \/ Mail(w) \/ Note(w) \/ Count(w) \/ Reread(w)
           \/ Finish(w) \/ Close(w) \/ NoteFails(w) \/ Stall(w) \/ JobFails(w)
  <2>1. \/ jobs' = jobs
        \/ jobs' = jobs + 1 /\ faults' = faults + 1
    BY <1>7 DEF Look, Start, Pick, Mail, Note, Count, Reread, Finish, Close, NoteFails, Stall, JobFails, Fault
  <2>2. \/ worker[w].step # "idle" \/ worker'[w].step = "idle"
    <3>1. CASE Stall(w) \/ JobFails(w)
      BY <1>1, <3>1 DEF Stall, JobFails, Ends, Rest
    <3>2. CASE ~ (Stall(w) \/ JobFails(w))
      BY <1>7, <3>2 DEF Look, Start, Pick, Mail, Note, Count, Reread, Finish, Close, NoteFails, At
    <3> QED
      BY <3>1, <3>2
  <2>3. Busy' \subseteq Busy
    BY <1>2, <2>2 DEF Busy, At
  <2>4. Cardinality(Busy') <= Cardinality(Busy)
    BY <1>3, <2>3, Counts
  <2> QED
    BY <1>1, <1>4, <2>1, <2>4 DEF Tokens
<1> QED
  BY <1>5, <1>6, <1>7 DEF WorkerActs, WorkerStep

(* What a worker holds after a step: nothing, what it held, a new batch of *)
(* people who wait, or what it held but for the one it mails.              *)
LEMMA BatchesOf ==
  ASSUME TypeOK, NEW w \in Workers, WorkerActs(w)
  PROVE  \/ ~ Mail(w) /\ worker'[w].todo \in {{}, worker[w].todo}
         \/ /\ Pick(w)
            /\ worker'[w].todo \subseteq Waiting /\ Cardinality(worker'[w].todo) <= Batch
         \/ /\ Mail(w)
            /\ \E r \in worker[w].todo :
                 /\ worker'[w].todo = worker[w].todo \ {r}
                 /\ late' = late \/ (late' = late + 1 /\ rcpt[r] = "SKIPPED")
<1>1. worker \in [Workers -> Batching] /\ worker[w] \in Batching
  BY DEF TypeOK
<1>2. CASE Take(w) \/ Start(w) \/ Count(w) \/ Again(w) \/ Note(w)
  <2>1. worker[w].step # "mail"
    BY <1>2 DEF Take, Start, Count, Again, Note, At, Rest
  <2>2. worker'[w].todo \in {{}, worker[w].todo}
    BY <1>1, <1>2 DEF Take, Start, Count, Again, Note, Goto, Ends, Rest, Batching
  <2> QED
    BY <2>1, <2>2 DEF Mail, At
<1>3. CASE Reread(w) \/ Finish(w) \/ Close(w) \/ NoteFails(w)
  <2>1. worker[w].step # "mail"
    BY <1>3 DEF Reread, Finish, Close, NoteFails, At
  <2>2. worker'[w].todo \in {{}, worker[w].todo}
    BY <1>1, <1>3 DEF Reread, Finish, Close, NoteFails, Goto, Ends, Rest, Batching
  <2> QED
    BY <2>1, <2>2 DEF Mail, At
<1>4. CASE Look(w)
  BY <1>1, <1>4 DEF Look, Rest, Mail, At
<1>5. CASE Stall(w) \/ JobFails(w)
  <2>1. faults' = faults + 1 /\ faults \in Nat
    BY <1>5, Numbers DEF Stall, JobFails, Fault
  <2>2. worker'[w].todo \in {{}, worker[w].todo}
    BY <1>1, <1>5 DEF Stall, JobFails, Ends, Rest
  <2>3. ~ Mail(w)
    <3>1. faults' # faults
      BY <2>1
    <3> QED
      BY <3>1 DEF Mail
  <2> QED
    BY <2>2, <2>3
<1>6. CASE Pick(w)
  <2>1. PICK batch \in SUBSET Waiting, step \in {"finish", "mail"} :
          /\ Cardinality(batch) <= Batch
          /\ worker' = [worker EXCEPT ![w].step = step, ![w].todo = batch]
    BY <1>6 DEF Pick
  <2>2. worker'[w].todo = batch
    BY <1>1, <2>1 DEF Batching
  <2> QED
    BY <1>6, <2>1, <2>2
<1>7. CASE Mail(w)
  <2>1. PICK r \in worker[w].todo, step \in {"sent", "refused"} :
          /\ worker' = [worker EXCEPT ![w].step = step, ![w].now = r, ![w].todo = @ \ {r}]
          /\ late' = late \/ (late' = late + 1 /\ rcpt[r] = "SKIPPED")
    BY <1>7 DEF Mail
  <2>2. worker'[w].todo = worker[w].todo \ {r}
    BY <1>1, <2>1 DEF Batching
  <2> QED
    BY <1>7, <2>1, <2>2
<1> QED
  BY <1>2, <1>3, <1>4, <1>5, <1>6, <1>7 DEF WorkerActs, WorkerStep

(* A batch stays small.                                                    *)
LEMMA WorkersKeepSmallBatches ==
  ASSUME TypeOK, SmallBatches, NEW w \in Workers, WorkerActs(w)
  PROVE  SmallBatches'
<1>1. /\ worker \in [Workers -> Batching] /\ worker' = [worker EXCEPT ![w] = worker'[w]]
  BY WorkersKeepTypes DEF TypeOK
<1>2. worker[w].todo \in SUBSET Recipients /\ Cardinality(worker[w].todo) <= Batch
  BY <1>1 DEF Batching, SmallBatches
<1>3. IsFiniteSet(worker[w].todo)
  BY <1>2, FiniteAssumption, FS_Subset
<1>4. \A T : T \subseteq worker[w].todo => Cardinality(T) <= Batch
  BY <1>2, <1>3, FS_Subset, FS_CardinalityType, BatchAssumption
<1>5. Cardinality(worker'[w].todo) <= Batch
  BY <1>4, BatchesOf
<1> QED
  BY <1>1, <1>5 DEF SmallBatches

(* Only what was spared is mailed late, and then it is no longer picked.   *)
LEMMA WorkersKeepLateOnes ==
  ASSUME TypeOK, SmallBatches, LateOnes, NEW w \in Workers, WorkerActs(w)
  PROVE  LateOnes'
<1> DEFINE C == Cardinality(Workers) * Batch
<1>1. /\ C \in Nat /\ late \in Nat /\ spares \in Nat /\ Cardinality(Spared) \in Nat
      /\ late + Cardinality(Spared) <= spares * C
      /\ spares' = spares /\ worker \in [Workers -> Batching]
      /\ worker' = [worker EXCEPT ![w] = worker'[w]] /\ worker[w] \in Batching
  BY Numbers, SparedOnes, WorkersKeepTypes DEF LateOnes, TypeOK
<1>2. \A r \in Recipients : rcpt'[r] = "SKIPPED" => rcpt[r] = "SKIPPED"
  BY WorkersKeepTypes
<1>3. \A v \in Workers \ {w} : worker'[v] = worker[v]
  BY <1>1
<1>4. CASE ~ Mail(w)
  <2>1. late' = late
    BY <1>4 DEF WorkerActs, Take, WorkerStep, Look, Start, Pick, Note, NoteFails, Count, Again, Reread,
       Finish, Close, Stall, JobFails, ghosts
  <2>2. \A r \in worker'[w].todo : r \in worker[w].todo \/ rcpt[r] = "PENDING"
    BY <1>4, BatchesOf DEF Waiting
  <2>3. Spared' \subseteq Spared
    BY <1>2, <1>3, <2>2 DEF Spared, Picked
  <2>4. Cardinality(Spared') \in Nat /\ Cardinality(Spared') <= Cardinality(Spared)
    BY <2>3, SparedOnes
  <2>5. spares * C \in Nat
    <3> HIDE DEF C
    <3> QED
      BY <1>1
  <2> QED
    BY <1>1, <2>1, <2>4, <2>5 DEF LateOnes
<1>5. CASE Mail(w)
  <2>1. PICK r \in worker[w].todo :
          /\ worker'[w].todo = worker[w].todo \ {r}
          /\ late' = late \/ (late' = late + 1 /\ rcpt[r] = "SKIPPED")
    BY <1>5, BatchesOf DEF Pick, Mail, At
  <2>2. r \in Recipients
    BY <1>1, <2>1 DEF Batching
  <2>3. Spared' \subseteq Spared \ {<<w, r>>}
    BY <1>2, <1>3, <2>1 DEF Spared, Picked
  <2>4. CASE late' = late
    <3>1. Cardinality(Spared') \in Nat /\ Cardinality(Spared') <= Cardinality(Spared)
      BY <2>3, SparedOnes
    <3>2. spares * C \in Nat
      <4> HIDE DEF C
      <4> QED
        BY <1>1
    <3> QED
      BY <1>1, <2>4, <3>1, <3>2 DEF LateOnes
  <2>5. CASE late' = late + 1 /\ rcpt[r] = "SKIPPED"
    <3>1. <<w, r>> \in Spared
      BY <2>1, <2>2, <2>5 DEF Spared, Picked
    <3>2. Cardinality(Spared') \in Nat /\ Cardinality(Spared') <= Cardinality(Spared) - 1
      BY <2>3, <3>1, SparedOnes
    <3>3. spares * C \in Nat
      <4> HIDE DEF C
      <4> QED
        BY <1>1
    <3> QED
      BY <1>1, <2>5, <3>2, <3>3 DEF LateOnes
  <2> QED
    BY <2>1, <2>4, <2>5
<1> QED
  BY <1>4, <1>5

(* The step of a worker keeps the bounds.                                  *)
LEMMA WorkersKeepBounds ==
  ASSUME TypeOK, Bounds, NEW w \in Workers, WorkerActs(w)
  PROVE  Bounds'
BY WorkersKeepBudget, WorkersKeepTokens, WorkersKeepSmallBatches, WorkersKeepLateOnes DEF Bounds

-----------------------------------------------------------------------------
(* A request leaves somebody waiting only with a request or a job that     *)
(* will see to it, and a campaign is stopped after its rows were.          *)
LEMMA RequestsKeepAwaited ==
  ASSUME TypeOK, Awaited, StopsAreCounted,
         NEW q \in Requests, SendReads(q) \/ CancelReads(q) \/ RequestStep(q)
  PROVE  Awaited' /\ StopsAreCounted'
<1>1. /\ req \in [Requests -> Request] /\ worker' = worker
      /\ jobs \in Nat /\ spares \in Nat
  BY RequestsKeepTypes DEF TypeOK
<1>2. /\ \A p \in Requests : p # q => req'[p] = req[p]
      /\ spares' \in {spares, spares + 1}
  BY <1>1 DEF SendReads, CancelReads, RequestStep, Freeze, Queue, Enqueue, Spare, Cancel,
     Asks, Answers, ghosts
<1>3. Awaited'
  <2> SUFFICES ASSUME Waiting' # {}, spares' = 0, ~ stranded'
               PROVE  \/ jobs' > 0
                      \/ \E v \in Workers : worker'[v].step \in Returning
                      \/ \E p \in Requests : req'[p].step \in {"queue", "enqueue"}
    BY DEF Awaited
  <2>1. ~ Spare(q)
    BY <1>1 DEF Spare
  <2>2. CASE Freeze(q)
    BY <1>1, <2>2 DEF Freeze, Asks, Request
  <2>3. CASE Queue(q)
    BY <1>1, <2>3 DEF Queue, Asks, Request
  <2>4. CASE Enqueue(q)
    BY <1>1, <2>4 DEF Enqueue
  <2>5. CASE SendReads(q) \/ CancelReads(q) \/ Cancel(q)
    <3>1. /\ Waiting' = Waiting /\ jobs' = jobs /\ spares' = spares /\ stranded' = stranded
          /\ req[q].step \in {"idle", "cancel"}
      BY <2>5 DEF SendReads, CancelReads, Cancel, ghosts, Waiting, NoRequest
    <3>2. \A p \in Requests : req[p].step \in {"queue", "enqueue"} => req'[p] = req[p]
      BY <1>2, <3>1
    <3> QED
      BY <1>1, <3>1, <3>2 DEF Awaited
  <2> QED
    BY <2>1, <2>2, <2>3, <2>4, <2>5 DEF RequestStep
<1>4. StopsAreCounted'
  <2>1. CASE Spare(q)
    <3>1. spares' > 0
      BY <1>1, <2>1 DEF Spare
    <3> QED
      BY <3>1 DEF StopsAreCounted
  <2>2. CASE ~ Spare(q)
    <3>1. /\ spares' = spares
          /\ req'[q].step = "cancel" => req[q].step = "cancel"
          /\ status' = "CANCELLED" => status = "CANCELLED" \/ req[q].step = "cancel"
      BY <1>1, <2>2 DEF SendReads, CancelReads, RequestStep, Freeze, Queue, Enqueue, Cancel,
         Asks, Answers, ghosts, NoRequest, Request
    <3> QED
      BY <1>2, <3>1 DEF StopsAreCounted
  <2> QED
    BY <2>1, <2>2
<1> QED
  BY <1>3, <1>4

(* A worker that may still give the campaign its next job keeps to that,   *)
(* or gives it, while somebody waits and nothing was stopped or stranded.  *)
LEMMA ReturningWorkers ==
  ASSUME TypeOK, StopsAreCounted, NEW w \in Workers, WorkerActs(w),
         Waiting # {}, spares = 0, ~ stranded',
         jobs > 0 \/ worker[w].step \in Returning
  PROVE  jobs' > 0 \/ worker'[w].step \in Returning
<1>1. /\ worker \in [Workers -> Batching] /\ worker[w] \in Batching /\ jobs \in Nat
      /\ status # "CANCELLED"
  BY DEF TypeOK, StopsAreCounted
<1>2. CASE Take(w) \/ Start(w) \/ Count(w)
  BY <1>1, <1>2 DEF Take, Start, Count, Goto, Batching, Returning
<1>3. CASE Look(w)
  BY <1>1, <1>3 DEF Look, Rest, Returning
<1>4. CASE Pick(w)
  <2>1. PICK batch \in SUBSET Waiting :
          /\ Cardinality(batch) = Batch \/ batch = Waiting
          /\ worker' = [worker EXCEPT ![w].step = IF batch = {} THEN "finish" ELSE "mail",
                                      ![w].todo = batch]
    BY <1>4 DEF Pick
  <2>2. batch # {}
    BY <2>1, BatchAssumption, FS_EmptySet
  <2>3. worker' = [worker EXCEPT ![w].step = "mail", ![w].todo = batch]
    BY <2>1, <2>2
  <2>4. worker'[w].step = "mail"
    BY <1>1, <2>3 DEF Batching
  <2> QED
    BY <2>4 DEF Returning
<1>5. CASE Mail(w)
  <2>1. PICK r \in worker[w].todo, step \in {"sent", "refused"} :
          worker' = [worker EXCEPT ![w].step = step, ![w].now = r, ![w].todo = @ \ {r}]
    BY <1>5 DEF Mail
  <2>2. worker'[w].step = step
    BY <1>1, <2>1 DEF Batching
  <2> QED
    BY <2>1, <2>2 DEF Returning
<1>6. CASE Note(w) \/ NoteFails(w)
  BY <1>1, <1>6 DEF Note, NoteFails, Goto, Batching, Returning
<1>7. CASE Again(w) \/ Stall(w)
  <2>1. jobs' = jobs + 1
    BY <1>7 DEF Again, Stall
  <2> QED
    BY <1>1, <2>1
<1>8. CASE Reread(w) \/ Finish(w) \/ Close(w)
  <2>1. jobs' = jobs /\ worker[w].step \notin Returning
    BY <1>8 DEF Reread, Finish, Close, At, Returning
  <2> QED
    BY <2>1
<1>9. ~ JobFails(w)
  BY DEF JobFails
<1> QED
  BY <1>2, <1>3, <1>4, <1>5, <1>6, <1>7, <1>8, <1>9 DEF WorkerActs, WorkerStep

(* No worker forgets who waits or stops a campaign.                        *)
LEMMA WorkersKeepAwaited ==
  ASSUME TypeOK, Awaited, StopsAreCounted, NEW w \in Workers, WorkerActs(w)
  PROVE  Awaited' /\ StopsAreCounted'
<1>1. /\ req' = req /\ spares' = spares
      /\ worker \in [Workers -> Batching] /\ worker' = [worker EXCEPT ![w] = worker'[w]]
      /\ \A r \in Recipients : rcpt'[r] = rcpt[r] \/ rcpt'[r] \in {"SENT", "FAILED"}
  BY WorkersKeepTypes DEF TypeOK
<1>2. Awaited'
  <2> SUFFICES ASSUME Waiting' # {}, spares' = 0, ~ stranded'
               PROVE  \/ jobs' > 0
                      \/ \E v \in Workers : worker'[v].step \in Returning
                      \/ \E p \in Requests : req'[p].step \in {"queue", "enqueue"}
    BY DEF Awaited
  <2>1. Waiting # {}
    BY <1>1 DEF Waiting
  <2>2. ~ stranded
    BY DEF WorkerActs, Take, WorkerStep, Look, Start, Pick, Mail, Note, NoteFails, Count, Again, Reread,
       Finish, Close, Stall, JobFails, ghosts
  <2>3. \/ jobs > 0
        \/ \E v \in Workers : worker[v].step \in Returning
        \/ \E p \in Requests : req[p].step \in {"queue", "enqueue"}
    BY <1>1, <2>1, <2>2 DEF Awaited
  <2>4. CASE jobs > 0 \/ worker[w].step \in Returning
    BY <1>1, <2>1, <2>4, ReturningWorkers
  <2>5. CASE \E v \in Workers \ {w} : worker[v].step \in Returning
    BY <1>1, <2>5
  <2>6. CASE \E p \in Requests : req[p].step \in {"queue", "enqueue"}
    BY <1>1, <2>6
  <2> QED
    BY <2>3, <2>4, <2>5, <2>6
<1>3. status' = "CANCELLED" => status = "CANCELLED"
  BY DEF WorkerActs, Take, WorkerStep, Look, Start, Pick, Mail, Note, NoteFails, Count, Again, Reread,
     Finish, Close, Stall, JobFails, ghosts
<1> QED
  BY <1>1, <1>2, <1>3 DEF StopsAreCounted

-----------------------------------------------------------------------------
(* A request leaves the outcome and the rows it tells of alone, or the     *)
(* campaign has no outcome any more; a second run is one too many.         *)
LEMMA RequestsKeepHonest ==
  ASSUME TypeOK, Honest, NEW q \in Requests, SendReads(q) \/ CancelReads(q) \/ RequestStep(q)
  PROVE  Honest'
<1>1. /\ worker' = worker /\ jobs \in Nat /\ runs \in Nat /\ faults \in Nat
      /\ runs' \in {runs, runs + 1} /\ faults' \in {faults, faults + 1}
      /\ With("SENT")' = With("SENT") /\ With("FAILED")' = With("FAILED")
  BY RequestsKeepTypes DEF TypeOK
<1> SUFFICES ASSUME runs' <= 1, faults' = 0
             PROVE  Honest'
  BY DEF Honest
<1>2. runs <= 1 /\ faults = 0
  BY <1>1
<1>3. \/ status' \in {"QUEUED", "CANCELLED"}
      \/ status' = status /\ (Enqueue(q) \/ (jobs' = jobs /\ runs' = runs))
  BY DEF SendReads, CancelReads, RequestStep, Freeze, Queue, Enqueue, Spare, Cancel, ghosts
<1>4. Enqueue(q) => runs' = runs + 1
  BY <1>1 DEF Enqueue, Fault
<1>5. status' \in {"SENT", "FAILED"} => status' = status /\ jobs' = jobs /\ runs' = runs
  <2> SUFFICES ASSUME status' \in {"SENT", "FAILED"}
               PROVE  status' = status /\ jobs' = jobs /\ runs' = runs
    OBVIOUS
  <2>1. status' = status
    BY <1>3
  <2>2. runs = 1
    BY <1>2, <2>1 DEF Honest
  <2>3. ~ Enqueue(q)
    BY <1>4, <2>2
  <2> QED
    BY <1>3, <2>1, <2>3
<1>6. Busy' = Busy /\ \A v \in Workers, s \in {"fail", "close"} : At(v, s)' <=> At(v, s)
  BY <1>1 DEF Busy, At
<1> QED
  BY <1>1, <1>2, <1>5, <1>6 DEF Honest

(* While there was one run and no fault, the worker at work is the only    *)
(* one, and there is no other job.                                         *)
LEMMA AloneAtWork ==
  ASSUME TypeOK, Tokens, runs <= 1, faults' = 0, NEW w \in Workers, WorkerActs(w)
  PROVE  /\ Busy \subseteq {w} /\ runs = 1
         /\ ~ Take(w) => w \in Busy /\ jobs = 0
         /\ Take(w) => jobs > 0
<1>1. /\ jobs \in Nat /\ runs \in Nat /\ faults = 0 /\ Cardinality(Busy) \in Nat
      /\ jobs + Cardinality(Busy) <= runs
  <2>1. /\ jobs \in Nat /\ runs \in Nat /\ faults \in Nat /\ Cardinality(Busy) \in Nat
        /\ jobs + Cardinality(Busy) <= runs + faults /\ faults' \in {faults, faults + 1}
    BY Numbers, WorkersKeepTypes DEF Tokens
  <2> QED
    BY <2>1
<1>2. \A T : T \subseteq Busy => Cardinality(T) <= Cardinality(Busy)
  BY Counts DEF Busy
<1>3. \A v \in Busy : \A T : T \subseteq Busy \ {v} => Cardinality(T) <= Cardinality(Busy) - 1
  BY Counts DEF Busy
<1>4. \A v : Cardinality({v}) = 1
  BY FS_Singleton
<1>5. CASE Take(w)
  <2>1. jobs > 0
    BY <1>5 DEF Take
  <2>2. ASSUME NEW v \in Busy
        PROVE  FALSE
    <3>1. 1 <= Cardinality(Busy)
      BY <1>2, <1>4
    <3> QED
      BY <1>1, <2>1, <3>1
  <2> QED
    BY <1>1, <1>5, <2>1, <2>2
<1>6. CASE ~ Take(w)
  <2>1. ~ (Stall(w) \/ JobFails(w) \/ NoteFails(w))
    BY <1>1 DEF Stall, JobFails, NoteFails, Fault
  <2>2. w \in Busy
    BY <1>6, <2>1 DEF WorkerActs, WorkerStep, Look, Start, Pick, Mail, Note, Count, Again, Reread,
       Finish, Close, Busy, At
  <2>3. 1 <= Cardinality(Busy)
    BY <1>2, <1>4, <2>2
  <2>4. jobs = 0 /\ runs = 1 /\ Cardinality(Busy) = 1
    BY <1>1, <2>3
  <2>5. ASSUME NEW v \in Busy, v # w
        PROVE  FALSE
    <3>1. {w} \subseteq Busy \ {v}
      BY <2>2, <2>5
    <3>2. 1 <= Cardinality(Busy) - 1
      BY <1>3, <1>4, <2>5, <3>1
    <3> QED
      BY <2>4, <3>2
  <2> QED
    BY <1>6, <2>2, <2>4, <2>5
<1> QED
  BY <1>5, <1>6

(* Only Finish leads a worker to the end, with the rows before it, and     *)
(* only Close ends the campaign.                                           *)
LEMMA EndsAsCounted ==
  ASSUME TypeOK, NEW w \in Workers, WorkerActs(w), faults' = faults
  PROVE  /\ worker'[w].step \in {"fail", "close"} =>
              /\ Finish(w)
              /\ At(w, "fail")' => With("SENT") = {}
              /\ At(w, "close")' /\ With("FAILED") # {} => With("SENT") # {}
         /\ Close(w) \/ status' \in {status, "SENDING"}
<1>1. worker \in [Workers -> Batching] /\ worker[w] \in Batching /\ faults \in Nat
  BY DEF TypeOK
<1>2. CASE Take(w) \/ Start(w) \/ Count(w) \/ Note(w) \/ Again(w) \/ Reread(w)
  BY <1>1, <1>2 DEF Take, Start, Count, Note, Again, Reread, Goto, Ends, Rest, Batching
<1>3. CASE Look(w)
  BY <1>1, <1>3 DEF Look, Rest
<1>4. CASE Pick(w)
  <2>1. PICK batch \in SUBSET Waiting, step \in {"finish", "mail"} :
          worker' = [worker EXCEPT ![w].step = step, ![w].todo = batch]
    BY <1>4 DEF Pick
  <2>2. worker'[w].step = step
    BY <1>1, <2>1 DEF Batching
  <2> QED
    BY <1>4, <2>1, <2>2 DEF Pick
<1>5. CASE Mail(w)
  <2>1. PICK r \in worker[w].todo, step \in {"sent", "refused"} :
          worker' = [worker EXCEPT ![w].step = step, ![w].now = r, ![w].todo = @ \ {r}]
    BY <1>5 DEF Mail
  <2>2. worker'[w].step = step
    BY <1>1, <2>1 DEF Batching
  <2> QED
    BY <1>5, <2>1, <2>2 DEF Mail
<1>6. CASE Finish(w)
  BY <1>1, <1>6 DEF Finish, Goto, Ends, Rest, Batching, At
<1>7. CASE Close(w)
  BY <1>1, <1>7 DEF Close, Ends, Rest
<1>8. ~ (Stall(w) \/ JobFails(w) \/ NoteFails(w))
  <2>1. faults' # faults + 1
    BY <1>1
  <2> QED
    BY <2>1 DEF Stall, JobFails, NoteFails, Fault
<1> QED
  BY <1>2, <1>3, <1>4, <1>5, <1>6, <1>7, <1>8 DEF WorkerActs, WorkerStep

(* The only worker ends the only run as the rows say.                      *)
LEMMA WorkersKeepHonest ==
  ASSUME TypeOK, Tokens, Honest, NEW w \in Workers, WorkerActs(w)
  PROVE  Honest'
<1>1. /\ runs' = runs /\ faults' \in {faults, faults + 1} /\ faults \in Nat
      /\ worker \in [Workers -> Batching] /\ worker' = [worker EXCEPT ![w] = worker'[w]]
  BY WorkersKeepTypes DEF TypeOK
<1> SUFFICES ASSUME runs' <= 1, faults' = 0
             PROVE  Honest'
  BY DEF Honest
<1>2. runs <= 1 /\ faults = 0 /\ faults' = faults
  BY <1>1
<1>3. /\ Busy \subseteq {w} /\ runs = 1
      /\ ~ Take(w) => w \in Busy /\ jobs = 0
      /\ Take(w) => jobs > 0
  BY <1>2, AloneAtWork
<1>4. status \notin {"SENT", "FAILED"}
  BY <1>2, <1>3 DEF Honest
<1>5. /\ worker'[w].step \in {"fail", "close"} =>
           /\ Finish(w)
           /\ At(w, "fail")' => With("SENT") = {}
           /\ At(w, "close")' /\ With("FAILED") # {} => With("SENT") # {}
      /\ Close(w) \/ status' \in {status, "SENDING"}
  BY <1>2, EndsAsCounted
<1>6. Finish(w) \/ Close(w) => With("SENT")' = With("SENT") /\ With("FAILED")' = With("FAILED")
  BY DEF Finish, Close, With
<1>7. \A v \in Workers : worker'[v].step # "idle" => v = w
  BY <1>1, <1>3 DEF Busy, At
<1>8. \A v \in Workers :
        /\ At(v, "fail")' => With("SENT")' = {}
        /\ At(v, "close")' /\ With("FAILED")' # {} => With("SENT")' # {}
  BY <1>5, <1>6, <1>7 DEF At
<1>9. CASE Close(w)
  <2>1. worker'[w].step = "idle"
    BY <1>1, <1>9 DEF Close, Ends, Rest
  <2>2. Busy' = {}
    BY <1>7, <2>1 DEF Busy, At
  <2>3. jobs' = 0
    BY <1>3, <1>9 DEF Close, Take, Rest
  <2>4. /\ status' = "FAILED" => With("SENT") = {}
        /\ status' = "SENT" /\ With("FAILED") # {} => With("SENT") # {}
    BY <1>2, <1>9 DEF Close, Honest, At
  <2> QED
    BY <1>1, <1>3, <1>6, <1>8, <1>9, <2>2, <2>3, <2>4 DEF Honest
<1>10. CASE ~ Close(w)
  <2>1. status' \notin {"SENT", "FAILED"}
    BY <1>4, <1>5, <1>10
  <2> QED
    BY <1>8, <2>1 DEF Honest
<1> QED
  BY <1>9, <1>10

-----------------------------------------------------------------------------
(* A campaign that was never queued satisfies the invariant.               *)
LEMMA InitIInv == Init => IInv
<1> SUFFICES ASSUME Init
             PROVE  IInv
  OBVIOUS
<1>1. /\ jobs = 0 /\ late = 0 /\ runs = 0 /\ spares = 0 /\ faults = 0 /\ stranded = FALSE
      /\ status = "DRAFT"
      /\ \A r \in Recipients : rcpt[r] = "ABSENT" /\ mails[r] = 0
      /\ \A q \in Requests : req[q].step = "idle"
      /\ \A w \in Workers : worker[w].step = "idle" /\ worker[w].todo = {}
  BY DEF Init, NoRequest, Rest
<1>2. TypeOK
  <2>1. /\ status \in EmailCampaignStatus
        /\ rcpt \in [Recipients -> RecipientStatus]
        /\ mails \in [Recipients -> Nat]
        /\ {jobs, late, runs, spares, faults} \subseteq Nat
    BY DEF Init, RecipientStatus, EmailCampaignStatus
  <2>5. stranded \in BOOLEAN
    BY DEF Init
  <2>2. NoRequest \in Request /\ Rest \in Batching
    BY DEF Request, NoRequest, Batching, Rest, EmailCampaignStatus
  <2>3. req \in [Requests -> Request] /\ worker \in [Workers -> Batching]
    BY <2>2 DEF Init
  <2>4. \A w \in Workers : BatchIsListed(w)
    BY <1>1 DEF BatchIsListed, At
  <2> QED
    BY <2>1, <2>3, <2>4, <2>5 DEF TypeOK
<1>3. /\ Waiting = {} /\ Busy = {} /\ Spared = {}
      /\ \A r \in Recipients : Mailers(r) = {}
  BY <1>1 DEF Waiting, Busy, At, Spared, Picked, Mailers, MayMail
<1>4. Cardinality({}) = 0 /\ Cardinality(Workers) * Batch \in Nat
  BY <1>2, FS_EmptySet, Numbers
<1>5. Budget /\ Tokens /\ SmallBatches
  <2>1. \A r \in Recipients : Cardinality(Mailers(r)) = 0
    BY <1>3, <1>4
  <2>2. Budget
    BY <1>1, <2>1 DEF Budget
  <2>3. Cardinality(Busy) = 0
    BY <1>3, <1>4
  <2>4. Tokens
    BY <1>1, <2>3 DEF Tokens
  <2>5. \A w \in Workers : Cardinality(worker[w].todo) = 0
    BY <1>1, <1>4
  <2>6. SmallBatches
    BY <2>5, BatchAssumption DEF SmallBatches
  <2> QED
    BY <2>2, <2>4, <2>6
<1>6. LateOnes
  <2> DEFINE C == Cardinality(Workers) * Batch
  <2>1. C \in Nat
    BY <1>4
  <2>2. 0 * C = 0
    <3> HIDE DEF C
    <3> QED
      BY <2>1
  <2>3. Cardinality(Spared) = 0
    BY <1>3, <1>4
  <2> QED
    BY <1>1, <2>2, <2>3 DEF LateOnes
<1>7. Awaited /\ StopsAreCounted
  BY <1>1, <1>3 DEF Awaited, StopsAreCounted
<1>8. Honest
  BY <1>1 DEF Honest, At
<1> QED
  BY <1>2, <1>5, <1>6, <1>7, <1>8 DEF IInv, Bounds

(* Every step keeps the invariant.                                         *)
LEMMA NextIInv == IInv /\ [Next]_vars => IInv'
<1> SUFFICES ASSUME IInv, [Next]_vars
             PROVE  IInv'
  OBVIOUS
<1>1. TypeOK /\ Bounds /\ Awaited /\ StopsAreCounted /\ Honest
  BY DEF IInv
<1>2. ASSUME NEW q \in Requests, SendReads(q) \/ CancelReads(q) \/ RequestStep(q)
      PROVE  IInv'
  BY <1>1, <1>2, RequestsKeepTypes, RequestsKeepBounds, RequestsKeepAwaited, RequestsKeepHonest DEF IInv
<1>3. ASSUME NEW w \in Workers, WorkerActs(w)
      PROVE  IInv'
  BY <1>1, <1>3, WorkersKeepTypes, WorkersKeepBounds, WorkersKeepAwaited, WorkersKeepHonest DEF IInv, Bounds
<1>4. CASE UNCHANGED vars
  <2>1. TypeOK'
    BY <1>1, <1>4 DEF vars, ghosts, TypeOK, BatchIsListed, At, With
  <2>2. Bounds'
    BY <1>1, <1>4 DEF vars, ghosts, Bounds, Budget, Untouched, Mailers, MayMail, Tokens, Busy, At,
       SmallBatches, LateOnes, Spared, Picked
  <2>3. Awaited' /\ StopsAreCounted' /\ Honest'
    BY <1>1, <1>4 DEF vars, ghosts, Awaited, Waiting, StopsAreCounted, Honest, With, Busy, At
  <2> QED
    BY <2>1, <2>2, <2>3 DEF IInv
<1> QED
  BY <1>2, <1>3, <1>4 DEF Next, WorkerActs

(* The invariant holds throughout.                                         *)
THEOREM Invariance == Spec => []IInv
BY InitIInv, NextIInv, PTL DEF Spec

(* A campaign's state is well typed, no batch holds somebody who is not on *)
(* the list, and a worker about to mail has somebody to mail.              *)
THEOREM TypeCorrect == Spec => []TypeOK
<1>1. IInv => TypeOK
  BY DEF IInv
<1> QED
  BY <1>1, Invariance, PTL

(* However two runs, lost jobs and failed writes interleave, no address is *)
(* mailed more often than the campaign was queued and faults occurred.     *)
THEOREM MailedOncePerRunHolds == Spec => []MailedOncePerRun
<1>1. ASSUME IInv
      PROVE  MailedOncePerRun
  <2> SUFFICES ASSUME NEW r \in Recipients
               PROVE  mails[r] <= runs + faults
    BY DEF MailedOncePerRun
  <2>1. /\ mails[r] + (IF Untouched(r) THEN jobs ELSE 0) + Cardinality(Mailers(r)) <= runs + faults
        /\ mails[r] \in Nat /\ jobs \in Nat /\ Cardinality(Mailers(r)) \in Nat
        /\ runs \in Nat /\ faults \in Nat
    BY <1>1, Numbers DEF IInv, Bounds, Budget
  <2> QED
    BY <2>1
<1> QED
  BY <1>1, Invariance, PTL

(* Of what a stopped campaign spared, no more is mailed than the workers   *)
(* may have had in their batches at each stop.                             *)
THEOREM StopLeavesOneBatchHolds == Spec => []StopLeavesOneBatch
<1>1. ASSUME IInv
      PROVE  StopLeavesOneBatch
  <2>1. /\ late \in Nat /\ spares \in Nat /\ Cardinality(Spared) \in Nat
        /\ late + Cardinality(Spared) <= spares * (Cardinality(Workers) * Batch)
        /\ Cardinality(Workers) \in Nat /\ Batch \in Nat
    BY <1>1, Numbers, SparedOnes, Counts, BatchAssumption DEF IInv, Bounds, LateOnes
  <2>2. spares * (Cardinality(Workers) * Batch) = spares * Cardinality(Workers) * Batch
    BY <2>1
  <2>3. spares * Cardinality(Workers) * Batch \in Nat
    BY <2>1
  <2> QED
    BY <2>1, <2>2, <2>3 DEF StopLeavesOneBatch
<1> QED
  BY <1>1, Invariance, PTL

(* Whoever waits is on the list of a job, a worker or a request, unless    *)
(* the campaign was stopped or a fault took the job.                       *)
THEOREM NobodyIsForgottenHolds == Spec => []NobodyIsForgotten
<1>1. ASSUME IInv
      PROVE  NobodyIsForgotten
  <2>1. \A w \in Workers : worker[w].step \in Returning => worker[w] # Rest
    BY DEF Returning, Rest
  <2> QED
    BY <1>1, <2>1 DEF IInv, Awaited, NobodyIsForgotten
<1> QED
  BY <1>1, Invariance, PTL

(* A campaign queued once, without a fault, is FAILED only when nothing    *)
(* got through, and SENT with refusals only when something did.            *)
THEOREM OutcomeIsHonestHolds == Spec => []OutcomeIsHonest
<1>1. IInv => OutcomeIsHonest
  BY DEF IInv, Honest, OutcomeIsHonest
<1> QED
  BY <1>1, Invariance, PTL
=============================================================================
