-------------------------- MODULE Knowledge_proofs --------------------------
(***************************************************************************)
(* Proofs about the knowledge base, for any numbers of requests, workers,  *)
(* writes, faults, titles and bodies.                                      *)
(*                                                                         *)
(* The inductive invariant follows a text and a level on their way to the  *)
(* chunks.  What a run or a request has read is what the document has, or  *)
(* counts as overtaken; a document that differs from its chunks has a      *)
(* request or a job on its way to it, or counts as overtaken or lost; and  *)
(* an enqueue that BullMQ drops because the job runs is dropped in favour  *)
(* of a run that exists.                                                   *)
(***************************************************************************)
EXTENDS Knowledge, TLAPS

Working(w) == run[w].id # 0 /\ run[w].id = doc.id
Looked(q, step) == At(q, step) /\ req[q].id = doc.id

(* The document will be taken by a worker, or is.                          *)
ToCome ==
  \/ job[doc.id].state = "waiting"
  \/ \E w \in Workers : run[w].held /\ run[w].id = doc.id
  \/ \E q \in Requests : Looked(q, "enqueue")

LevelToCome == \E q \in Requests : Looked(q, "level") \/ Looked(q, "sync")

RequestsAreSound ==
  \A q \in Requests :
    /\ req[q].id <= born
    /\ req[q].step \in {"patch", "level", "sync", "enqueue"} => req[q].id # 0
    /\ At(q, "sync") => req[q].level # None
    /\ At(q, "mirror") => req[q].row # NoFaq

JobsAreHeld ==
  /\ \A w \in Workers : run[w].held => job[run[w].id].state = "active"
  /\ \A v, w \in Workers :
       run[v].held /\ run[w].held /\ run[v].id = run[w].id => v = w
  /\ \A i \in Ids :
       job[i].state = "active" => \E w \in Workers : run[w].held /\ run[w].id = i

RunsAreKnown ==
  \A w \in Workers :
    /\ run[w].id <= born
    /\ Working(w) => /\ run[w].text = doc.text \/ "text" \in overtaken
                     /\ run[w].level = doc.level \/ "level" \in overtaken

SyncsAreKnown ==
  \A q \in Requests :
    Looked(q, "sync") => req[q].level = doc.level \/ "level" \in overtaken

MirrorsAreKnown ==
  \A q \in Requests : At(q, "mirror") => req[q].row = faq \/ "faq" \in overtaken

TextIsLookedAfter ==
  doc.id # 0 =>
    \/ chunks.text = doc.text
    \/ doc.text.body \in Blank
    \/ "text" \in overtaken \cup lost
    \/ ToCome \/ LevelToCome

LevelIsLookedAfter ==
  doc.id # 0 =>
    \/ chunks.level \in {doc.level, None}
    \/ "level" \in overtaken \cup lost
    \/ LevelToCome
    \/ doc.hash = NoText /\ (doc.text.body \in Blank \/ ToCome)

MirrorIsLookedAfter ==
  faq.state \in {"draft", "deleted"} =>
    \/ doc = NoDoc
    \/ "faq" \in overtaken \cup lost
    \/ \E q \in Requests : At(q, "mirror") /\ req[q].row = faq

IInv ==
  /\ TypeOK
  /\ RequestsAreSound
  /\ JobsAreHeld
  /\ RunsAreKnown
  /\ SyncsAreKnown
  /\ MirrorsAreKnown
  /\ HashIsHonest
  /\ TextIsLookedAfter
  /\ LevelIsLookedAfter
  /\ MirrorIsLookedAfter

-----------------------------------------------------------------------------
(* A missing text, level, document or FAQ is told from one that is there.  *)
LEMMA Missing ==
  /\ NoText \notin Text
  /\ None \notin AccessLevel
  /\ NoDoc \notin KnowledgeDocument
  /\ NoFaq \notin FaqItem
  /\ NoRun \notin Run
  /\ 0 \notin Ids
  /\ Ids \subseteq Nat
  /\ NoText.body = None
BY NoneAssumption, BoundsAssumption
DEF NoText, Text, None, AccessLevel, NoDoc, KnowledgeDocument, NoFaq, FaqItem,
    NoRun, Run, Ids

(* Ids are numbers, and none is 0.                                         *)
LEMMA IdsAreNumbers == \A i \in Ids : i \in Nat /\ i > 0
BY BoundsAssumption DEF Ids

(* The initial states are typed.                                           *)
LEMMA InitTypes == Init => TypeOK
BY Missing, LevelsAssumption, BoundsAssumption
DEF Init, TypeOK, KnowledgeDocument, KnowledgeChunk, FaqItem, Job, Run, Request,
    NoDoc, NoChunks, NoFaq, NoJob, NoRun, NoText, Idle, Text, AccessLevel,
    KnowledgeStatus, Fields, Ids, None

(* The fields of a document that is there ...                              *)
LEMMA DocTypes ==
  ASSUME TypeOK, doc.id # 0
  PROVE  /\ doc \in KnowledgeDocument
         /\ doc.id \in Ids /\ doc.text \in Text /\ doc.text.body \in Bodies
         /\ doc.level \in AccessLevel /\ doc.hash \in Text \cup {NoText}
         /\ doc.status \in KnowledgeStatus
         /\ doc = [id |-> doc.id, text |-> doc.text, level |-> doc.level,
                   status |-> doc.status, hash |-> doc.hash]
<1>1. doc \in KnowledgeDocument
  BY DEF TypeOK, NoDoc
<1> QED
  BY <1>1 DEF KnowledgeDocument, Text

(* ... and of a run that works.                                            *)
LEMMA RunTypes ==
  ASSUME TypeOK, NEW w \in Workers, run[w].id # 0
  PROVE  /\ run[w] \in Run
         /\ run[w].id \in Ids /\ run[w].text \in Text
         /\ run[w].level \in AccessLevel /\ run[w].held \in BOOLEAN
<1>1. run[w] \in Run
  BY DEF TypeOK, NoRun
<1> QED
  BY <1>1 DEF Run

(* What a request's step makes of it is a request.                         *)
LEMMA RequestTypes ==
  ASSUME TypeOK, NEW q \in Requests,
         NEW step \in {"idle", "patch", "level", "sync", "enqueue", "mirror"}
  PROVE  /\ Goto(q, step) => req' \in [Requests -> Request]
         /\ Finish(q) => req' \in [Requests -> Request]
BY DEF TypeOK, Goto, Finish, Request, Idle, Ids, None, FaqItem, NoFaq

(* Every step of a request keeps the types.                                *)
LEMMA StepTypes ==
  ASSUME TypeOK, RequestsAreSound, NEW q \in Requests, Step(q)
  PROVE  TypeOK'
<1> USE BoundsAssumption DEF Starts, Fault, index, queue, history
<1>0. req[q] \in Request
  BY DEF TypeOK
<1>1. CASE PatchReads(q)
  <2>1. doc.id \in Ids /\ doc.text.body \in Bodies
    BY <1>1, DocTypes DEF PatchReads
  <2>2. req' = [req EXCEPT ![q] = [@ EXCEPT !.step = "patch", !.id = doc.id,
                                            !.body = doc.text.body]]
    BY <1>1 DEF PatchReads
  <2>3. req' \in [Requests -> Request]
    <3>1. [req[q] EXCEPT !.step = "patch", !.id = doc.id, !.body = doc.text.body] \in Request
      BY <1>0, <2>1 DEF Request
    <3> QED
      BY <2>2, <3>1 DEF TypeOK
  <2> QED
    BY <1>1, <2>3 DEF PatchReads, TypeOK
<1>2. CASE PatchWrites(q)
  <2>1. doc.id # 0
    BY <1>2 DEF PatchWrites, RequestsAreSound, At
  <2>2. PICK title \in Titles, body \in Bodies \cup {None}, level \in Levels \cup {None},
             status \in {"DRAFT", "PUBLISHED"} :
          doc' = Patched(title, body, level, status, req[q].body)
    BY <1>2 DEF PatchWrites
  <2>3. /\ Given(body, doc.text.body) \in Bodies
        /\ Given(level, doc.level) \in AccessLevel
        /\ status \in KnowledgeStatus
    BY <2>1, DocTypes, LevelsAssumption DEF Given, KnowledgeStatus
  <2>4. doc' \in KnowledgeDocument /\ doc'.id = doc.id
    BY <2>1, <2>2, <2>3, DocTypes DEF Patched, KnowledgeDocument, Text
  <2>5. req' \in [Requests -> Request]
    BY <1>2, RequestTypes DEF PatchWrites
  <2>6. overtaken' \subseteq Fields
    BY <1>2 DEF PatchWrites, Outdated, Fields, TypeOK
  <2> QED
    BY <1>2, <2>1, <2>4, <2>5, <2>6, Missing DEF PatchWrites, TypeOK
<1>3. CASE PatchFails(q)
  BY <1>3, RequestTypes DEF PatchFails, TypeOK, history
<1>4. CASE SyncReads(q)
  BY <1>4, RequestTypes DEF SyncReads, TypeOK, history, Request, KnowledgeDocument, NoDoc
<1>5. CASE SyncWrites(q)
  <2>1. req' \in [Requests -> Request]
    BY <1>5, RequestTypes DEF SyncWrites
  <2>2. chunks' \in KnowledgeChunk \cup {NoChunks}
    <3>1. req[q].level \in AccessLevel
      BY <1>5 DEF SyncWrites, TypeOK, Request, RequestsAreSound
    <3>2. chunks \in KnowledgeChunk =>
            [chunks EXCEPT !.level = req[q].level] \in KnowledgeChunk
      BY <3>1 DEF KnowledgeChunk
    <3> QED
      BY <1>5, <3>2 DEF SyncWrites, TypeOK
  <2>3. doc = NoDoc => chunks' = NoChunks
    BY <1>5 DEF SyncWrites, TypeOK
  <2> QED
    BY <1>5, <2>1, <2>2, <2>3 DEF SyncWrites, TypeOK
<1>6. CASE Enqueue(q)
  <2>1. job' \in [Ids -> Job]
    <3>1. \A i \in Ids : [job[i] EXCEPT !.state = "waiting"] \in Job
      BY DEF TypeOK, Job
    <3>2. job' = job \/ \E i \in {req[q].id} :
            job' = [job EXCEPT ![i] = [@ EXCEPT !.state = "waiting"]]
      BY <1>6 DEF Enqueue
    <3> QED
      BY <3>1, <3>2 DEF TypeOK
  <2> QED
    BY <1>6, <2>1, RequestTypes DEF Enqueue, TypeOK, Missed, Fields
<1>7. CASE EnqueueIsLost(q)
  BY <1>7, RequestTypes DEF EnqueueIsLost, TypeOK, Missed, Fields
<1>8. CASE Remove(q)
  BY <1>8 DEF Remove, TypeOK, Fields, NoDoc, Ids
<1>9. CASE Reindex(q)
  <2>1. doc.id \in Ids /\ doc \in KnowledgeDocument
    BY <1>9, DocTypes DEF Reindex
  <2>2. req' = [req EXCEPT ![q] = [@ EXCEPT !.step = "enqueue", !.id = doc.id]]
    BY <1>9 DEF Reindex
  <2>3. req' \in [Requests -> Request]
    <3>1. [req[q] EXCEPT !.step = "enqueue", !.id = doc.id] \in Request
      BY <1>0, <2>1 DEF Request
    <3> QED
      BY <2>2, <3>1 DEF TypeOK
  <2>4. doc' \in KnowledgeDocument /\ doc' # NoDoc /\ doc'.id = doc.id
    BY <1>9, <2>1, Missing DEF Reindex, KnowledgeDocument
  <2> QED
    BY <1>9, <2>1, <2>3, <2>4, Missing DEF Reindex, TypeOK
<1>10. CASE EnqueuePending(q)
  <2>1. doc.id \in Ids /\ doc \in KnowledgeDocument
    BY <1>10, DocTypes DEF EnqueuePending
  <2>2. req' = [req EXCEPT ![q] = [@ EXCEPT !.step = "enqueue", !.id = doc.id]]
    BY <1>10 DEF EnqueuePending
  <2>3. req' \in [Requests -> Request]
    <3>1. [req[q] EXCEPT !.step = "enqueue", !.id = doc.id] \in Request
      BY <1>0, <2>1 DEF Request
    <3> QED
      BY <2>2, <3>1 DEF TypeOK
  <2>4. doc' \in KnowledgeDocument /\ doc' # NoDoc /\ doc'.id = doc.id
    BY <1>10, <2>1, Missing DEF EnqueuePending, KnowledgeDocument
  <2> QED
    BY <1>10, <2>1, <2>3, <2>4, Missing DEF EnqueuePending, TypeOK
<1>11. CASE FaqWrites(q)
  <2>1. faq' \in FaqItem
    BY <1>11 DEF FaqWrites, FaqItem
  <2>2. req' = [req EXCEPT ![q] = [@ EXCEPT !.step = "mirror", !.row = faq']]
    BY <1>11 DEF FaqWrites
  <2>3. req' \in [Requests -> Request]
    <3>1. [req[q] EXCEPT !.step = "mirror", !.row = faq'] \in Request
      BY <1>0, <2>1 DEF Request
    <3> QED
      BY <2>2, <3>1 DEF TypeOK
  <2> QED
    BY <1>11, <2>1, <2>3 DEF FaqWrites, TypeOK, Fields
<1>12. CASE Mirror(q)
  BY <1>12 DEF Mirror, TypeOK, KnowledgeDocument, KnowledgeStatus, AccessLevel,
               NoDoc, Request, FaqItem, NoFaq, Outdated, Fields, Ids, RequestsAreSound, At
<1>13. CASE Unmirror(q)
  BY <1>13, RequestTypes DEF Unmirror, TypeOK, NoDoc, Fields, Ids
<1>14. CASE MirrorFails(q)
  BY <1>14, RequestTypes DEF MirrorFails, TypeOK, Fields
<1>15. CASE Dies(q)
  BY <1>15, RequestTypes DEF Dies, TypeOK, Missed, Fields
<1> QED
  BY <1>1, <1>2, <1>3, <1>4, <1>5, <1>6, <1>7, <1>8, <1>9, <1>10, <1>11, <1>12,
     <1>13, <1>14, <1>15 DEF Step

(* A job that is done, or tried again, is a job.                           *)
LEMMA JobTypes ==
  ASSUME TypeOK, NEW i \in Ids
  PROVE  /\ Retried(i) \in [Ids -> Job]
         /\ Done(i) \in [Ids -> Job]
<1>1. /\ job \in [Ids -> Job] /\ job[i].tries \in 0 .. Attempts - 1
      /\ NoJob \in Job
  BY BoundsAssumption DEF TypeOK, Job, NoJob, None
<1>2. Retried(i) \in [Ids -> Job]
  <2>1. [job[i] EXCEPT !.state = "failed"] \in Job
    BY <1>1 DEF Job
  <2>2. job[i].tries + 1 < Attempts =>
          [job[i] EXCEPT !.state = "waiting", !.tries = job[i].tries + 1] \in Job
    <3>1. job[i].tries + 1 < Attempts => job[i].tries + 1 \in 0 .. Attempts - 1
      BY <1>1, BoundsAssumption
    <3> QED
      BY <1>1, <3>1 DEF Job
  <2> QED
    BY <1>1, <2>1, <2>2 DEF Retried
<1> QED
  BY <1>1, <1>2 DEF Done

(* Every step of a worker and of the queue keeps the types.                *)
LEMMA WorkerTypes ==
  ASSUME TypeOK, NEW w \in Workers, Take(w) \/ Commit(w) \/ Throw(w) \/ Stall(w)
  PROVE  TypeOK'
<1> USE BoundsAssumption DEF Fault, index, history
<1>1. CASE Take(w)
  <2>1. PICK i \in Ids :
          /\ job' \in {Retried(i), Done(i), [job EXCEPT ![i].state = "active"]}
          /\ run' # run => doc.id = i /\ run' = [run EXCEPT ![w] =
               [id |-> i, text |-> doc.text, level |-> doc.level, held |-> TRUE]]
    BY <1>1 DEF Take
  <2>2. [job EXCEPT ![i].state = "active"] \in [Ids -> Job]
    BY DEF TypeOK, Job
  <2>3. job' \in [Ids -> Job]
    BY <2>1, <2>2, JobTypes
  <2>4. run' \in [Workers -> Run \cup {NoRun}]
    <3>1. doc.id = i => [id |-> i, text |-> doc.text, level |-> doc.level,
                         held |-> TRUE] \in Run
      BY <2>1, DocTypes, Missing DEF Run
    <3> QED
      BY <2>1, <3>1 DEF TypeOK
  <2>5. lost' \subseteq Fields
    BY <1>1 DEF Take, TypeOK
  <2> QED
    BY <1>1, <2>3, <2>4, <2>5 DEF Take, TypeOK
<1>2. CASE Commit(w)
  <2>1. /\ run[w].id # 0 /\ doc.id = run[w].id
        /\ chunks' = [text |-> run[w].text, level |-> run[w].level]
        /\ doc' = [doc EXCEPT !.hash = run[w].text]
        /\ run' = [run EXCEPT ![w] = NoRun]
        /\ job' \in {Done(doc.id), job}
        /\ lost' \subseteq lost /\ overtaken' \subseteq overtaken
        /\ UNCHANGED <<born, faq, req, asked, faults>>
    BY <1>2 DEF Commit
  <2>2. chunks' \in KnowledgeChunk
    BY <2>1, RunTypes DEF KnowledgeChunk
  <2>3. doc' \in KnowledgeDocument /\ doc'.id = doc.id /\ doc' # NoDoc
    BY <2>1, RunTypes, DocTypes DEF KnowledgeDocument, NoDoc
  <2>4. job' \in [Ids -> Job]
    BY <2>1, DocTypes, JobTypes DEF TypeOK
  <2>5. run' \in [Workers -> Run \cup {NoRun}]
    BY <2>1 DEF TypeOK
  <2> QED
    BY <2>1, <2>2, <2>3, <2>4, <2>5 DEF TypeOK
<1>3. CASE Throw(w)
  BY <1>3, JobTypes DEF Throw, TypeOK, Run, NoRun, GivenUp, Fields
<1>4. CASE Stall(w)
  <2>1. run[w].id \in Ids /\ run[w] \in Run
    BY <1>4, RunTypes, Missing DEF Stall, TypeOK, NoRun, Run
  <2>2. run' \in [Workers -> Run \cup {NoRun}]
    <3>1. [run[w] EXCEPT !.held = FALSE] \in Run
      BY <2>1 DEF Run
    <3>2. \E r \in {NoRun, [run[w] EXCEPT !.held = FALSE]} : run' = [run EXCEPT ![w] = r]
      BY <1>4 DEF Stall
    <3> QED
      BY <3>1, <3>2 DEF TypeOK
  <2>3. job' \in [Ids -> Job]
    <3>1. job \in [Ids -> Job] /\ job[run[w].id].stalls \in 0 .. MaxStalls
      BY <2>1 DEF TypeOK, Job
    <3>2. [job[run[w].id] EXCEPT !.state = "failed"] \in Job
      BY <2>1, <3>1 DEF Job
    <3>3. job[run[w].id].stalls < MaxStalls =>
            [job[run[w].id] EXCEPT !.state = "waiting",
                                   !.stalls = job[run[w].id].stalls + 1] \in Job
      <4>1. job[run[w].id].stalls < MaxStalls =>
              job[run[w].id].stalls + 1 \in 0 .. MaxStalls
        BY <3>1, BoundsAssumption
      <4> QED
        BY <2>1, <3>1, <4>1 DEF Job
    <3> QED
      BY <1>4, <2>1, <3>1, <3>2, <3>3 DEF Stall
  <2> QED
    BY <1>4, <2>2, <2>3 DEF Stall, TypeOK, GivenUp, Fields
<1> QED
  BY <1>1, <1>2, <1>3, <1>4

-----------------------------------------------------------------------------
(* What a step makes of each request.                                      *)
LEMMA RequestAfter ==
  ASSUME TypeOK, NEW q \in Requests, NEW step, NEW p \in Requests
  PROVE  /\ Goto(q, step) =>
              /\ req'[p].step = (IF p = q THEN step ELSE req[p].step)
              /\ req'[p].id = req[p].id /\ req'[p].body = req[p].body
              /\ req'[p].level = req[p].level /\ req'[p].row = req[p].row
         /\ Finish(q) => req'[p] = (IF p = q THEN Idle ELSE req[p])
BY DEF TypeOK, Request, Goto, Finish

(* The id of a document is a number.                                       *)
LEMMA NumbersAre ==
  ASSUME TypeOK
  PROVE  /\ \A p \in Requests : req[p].id \in Nat
         /\ \A w \in Workers : run[w].id \in Nat
         /\ doc.id \in Nat /\ born \in Nat
<1>1. ASSUME NEW p \in Requests PROVE req[p].id \in Nat
  <2>1. req[p].id \in {0} \cup Ids
    BY DEF TypeOK, Request
  <2> QED
    BY <2>1, IdsAreNumbers
<1>2. ASSUME NEW w \in Workers PROVE run[w].id \in Nat
  <2>1. run[w].id # 0 => run[w].id \in Ids
    BY RunTypes
  <2> QED
    BY <2>1, IdsAreNumbers
<1>3. doc.id \in Nat /\ born \in Nat
  BY DocTypes, Missing DEF TypeOK
<1> QED
  BY <1>1, <1>2, <1>3

(* The steps of a request that leave the index, the FAQ and the runs alone.*)
Aside(q) ==
  \/ PatchReads(q) \/ PatchFails(q) \/ SyncReads(q) \/ Enqueue(q)
  \/ EnqueueIsLost(q) \/ EnqueuePending(q) \/ MirrorFails(q) \/ Dies(q)

(* They change neither what was overtaken nor find what was lost.          *)
LEMMA AsideFrame ==
  ASSUME NEW q \in Requests, Aside(q)
  PROVE  /\ UNCHANGED <<doc, chunks, born, faq, run, overtaken>>
         /\ lost \subseteq lost'
BY DEF Aside, PatchReads, PatchFails, SyncReads, Enqueue, EnqueueIsLost,
       EnqueuePending, MirrorFails, Dies, Missed, Starts, Fault, index, queue, history

(* A step changes one request, and only an enqueue the queue.              *)
LEMMA StepFrame ==
  ASSUME TypeOK, NEW q \in Requests, Step(q)
  PROVE  /\ \A p \in Requests \ {q} : req'[p] = req[p]
         /\ Enqueue(q) \/ UNCHANGED <<job, run>>
<1> USE DEF queue, history
<1>1. CASE PatchReads(q)  BY <1>1 DEF PatchReads, TypeOK
<1>2. CASE PatchWrites(q)  BY <1>2 DEF PatchWrites, Goto, TypeOK
<1>3. CASE PatchFails(q)  BY <1>3 DEF PatchFails, Finish, TypeOK
<1>4. CASE SyncReads(q)  BY <1>4 DEF SyncReads, Goto, TypeOK
<1>5. CASE SyncWrites(q)  BY <1>5 DEF SyncWrites, Goto, TypeOK
<1>6. CASE Enqueue(q)  BY <1>6 DEF Enqueue, Finish, TypeOK
<1>7. CASE EnqueueIsLost(q)  BY <1>7 DEF EnqueueIsLost, Finish, TypeOK
<1>8. CASE Remove(q)  BY <1>8 DEF Remove, TypeOK
<1>9. CASE Reindex(q)  BY <1>9 DEF Reindex, TypeOK
<1>10. CASE EnqueuePending(q)  BY <1>10 DEF EnqueuePending, TypeOK
<1>11. CASE FaqWrites(q)  BY <1>11 DEF FaqWrites, TypeOK
<1>12. CASE Mirror(q)  BY <1>12 DEF Mirror, TypeOK
<1>13. CASE Unmirror(q)  BY <1>13 DEF Unmirror, Finish, TypeOK
<1>14. CASE MirrorFails(q)  BY <1>14 DEF MirrorFails, Finish, TypeOK
<1>15. CASE Dies(q)  BY <1>15 DEF Dies, Finish, TypeOK
<1> QED
  BY <1>1, <1>2, <1>3, <1>4, <1>5, <1>6, <1>7, <1>8, <1>9, <1>10, <1>11, <1>12,
     <1>13, <1>14, <1>15 DEF Step

(* The requests of the next state know documents that were made, and have  *)
(* what they are about to write.                                           *)
LEMMA StepKeepsRequests ==
  ASSUME TypeOK, TypeOK', RequestsAreSound, NEW q \in Requests, Step(q)
  PROVE  RequestsAreSound'
<1>1. born \in Nat /\ born' \in Nat /\ born <= born'
  <2>1. CASE Mirror(q)
    BY <2>1, Missing DEF Mirror, TypeOK
  <2>2. CASE ~ Mirror(q)
    BY <2>2, Missing DEF Step, TypeOK, PatchReads, PatchWrites, PatchFails, SyncReads,
       SyncWrites, Enqueue, EnqueueIsLost, Remove, Reindex, EnqueuePending, FaqWrites,
       Unmirror, MirrorFails, Dies, index, history
  <2> QED
    BY <2>1, <2>2
<1>2. \A p \in Requests : req[p].id \in Nat
  BY NumbersAre
<1> DEFINE Sound(r) ==
      /\ r.id <= born'
      /\ r.step \in {"patch", "level", "sync", "enqueue"} => r.id # 0
      /\ r.step = "sync" => r.level # None
      /\ r.step = "mirror" => r.row # NoFaq
<1>3. SUFFICES Sound(req'[q])
  <2>1. \A p \in Requests \ {q} : Sound(req[p])
    BY <1>1, <1>2 DEF RequestsAreSound, At
  <2> QED
    BY <2>1, StepFrame DEF RequestsAreSound, At
<1>4. Sound(req[q])
  BY <1>1, <1>2 DEF RequestsAreSound, At, TypeOK
<1>5. Sound(Idle)
  BY <1>1 DEF Idle
<1>6. CASE PatchReads(q)
  BY <1>1, <1>6 DEF PatchReads, TypeOK, Request, index
<1>7. CASE PatchWrites(q)
  BY <1>4, <1>7, RequestAfter DEF PatchWrites, At
<1>8. CASE PatchFails(q) \/ Enqueue(q) \/ EnqueueIsLost(q) \/ Unmirror(q) \/ MirrorFails(q) \/ Dies(q)
  BY <1>5, <1>8, RequestAfter DEF PatchFails, Enqueue, EnqueueIsLost, Unmirror, MirrorFails, Dies
<1>9. CASE SyncReads(q)
  <2>1. CASE req[q].id # doc.id
    BY <1>4, <1>9, <2>1, RequestAfter DEF SyncReads, At
  <2>2. CASE req[q].id = doc.id
    <3>1. doc.id # 0 /\ doc.level # None
      BY <1>4, <1>9, <2>2, DocTypes, Missing DEF SyncReads, At
    <3> QED
      BY <1>4, <1>9, <2>2, <3>1 DEF SyncReads, At, TypeOK, Request
  <2> QED
    BY <2>1, <2>2
<1>10. CASE SyncWrites(q)
  BY <1>4, <1>10, RequestAfter DEF SyncWrites, At
<1>11. CASE Remove(q)
  BY <1>4, <1>11 DEF Remove
<1>12. CASE Reindex(q)
  <2>1. req' = [req EXCEPT ![q].step = "enqueue", ![q].id = doc.id]
    BY <1>12 DEF Reindex
  <2>2. req'[q].step = "enqueue" /\ req'[q].id = doc.id
    BY <2>1 DEF TypeOK, Request
  <2> QED
    BY <1>1, <1>12, <2>2, NumbersAre DEF Reindex, TypeOK
<1>13. CASE EnqueuePending(q)
  <2>1. req' = [req EXCEPT ![q].step = "enqueue", ![q].id = doc.id]
    BY <1>13 DEF EnqueuePending
  <2>2. req'[q].step = "enqueue" /\ req'[q].id = doc.id
    BY <2>1 DEF TypeOK, Request
  <2> QED
    BY <1>1, <1>13, <2>2, NumbersAre DEF EnqueuePending, TypeOK, index
<1>14. CASE FaqWrites(q)
  <2>1. req'[q].step = "mirror" /\ req'[q].row = faq' /\ req'[q].id = req[q].id
    BY <1>14 DEF FaqWrites, TypeOK, Request
  <2>2. faq' # NoFaq
    BY <1>14 DEF FaqWrites, NoFaq, None
  <2> QED
    BY <1>4, <2>1, <2>2
<1>15. CASE Mirror(q)
  <2>1. /\ req'[q].step = "enqueue" /\ req'[q].id = doc'.id
        /\ doc'.id # 0 /\ doc'.id <= born'
    BY <1>1, <1>15 DEF Mirror, TypeOK, Request
  <2> QED
    BY <2>1
<1> QED
  BY <1>6, <1>7, <1>8, <1>9, <1>10, <1>11, <1>12, <1>13, <1>14, <1>15 DEF Step

-----------------------------------------------------------------------------
(* A held run is of a document.                                            *)
LEMMA HeldRuns ==
  ASSUME TypeOK, NEW w \in Workers, run[w].held
  PROVE  run[w].id \in Ids /\ run[w].id # 0
<1>1. run[w] \in Run
  BY DEF TypeOK, NoRun
<1> QED
  BY <1>1, IdsAreNumbers DEF Run

(* An enqueue leaves the active jobs to the runs that hold them.           *)
LEMMA StepKeepsJobs ==
  ASSUME TypeOK, JobsAreHeld, NEW q \in Requests, Step(q)
  PROVE  JobsAreHeld'
<1>1. CASE UNCHANGED <<job, run>>
  BY <1>1 DEF JobsAreHeld
<1>2. CASE Enqueue(q)
  <2>1. UNCHANGED run
    BY <1>2 DEF Enqueue
  <2>2. \A i \in Ids : (job'[i].state = "active") <=> (job[i].state = "active")
    BY <1>2 DEF Enqueue, TypeOK, Job, None
  <2>3. \A w \in Workers : run[w].held => run[w].id \in Ids
    BY HeldRuns
  <2> QED
    BY <2>1, <2>2, <2>3 DEF JobsAreHeld
<1> QED
  BY <1>1, <1>2, StepFrame

(* A worker's step and the queue's: who takes a job holds it alone, and    *)
(* who ends, or loses the job, leaves it behind in another state.          *)
LEMMA WorkerKeepsJobs ==
  ASSUME TypeOK, JobsAreHeld, NEW w \in Workers,
         Take(w) \/ Commit(w) \/ Throw(w) \/ Stall(w)
  PROVE  JobsAreHeld'
<1> DEFINE Left(i, state) ==
      /\ job' \in [Ids -> Job]
      /\ job'[i].state = state
      /\ \A k \in Ids \ {i} : job'[k] = job[k]
<1>1. ASSUME NEW i \in Ids, job' = Retried(i)
      PROVE  \E state \in {"waiting", "failed"} : Left(i, state)
  <2>1. job' \in [Ids -> Job]
    BY <1>1, JobTypes
  <2>2. \A k \in Ids \ {i} : job'[k] = job[k]
    BY <1>1 DEF Retried, TypeOK
  <2>3. job'[i].state \in {"waiting", "failed"}
    BY <1>1 DEF Retried, TypeOK, Job
  <2> QED
    BY <2>1, <2>2, <2>3
<1>2. ASSUME NEW i \in Ids, job' = Done(i) PROVE Left(i, None)
  BY <1>2, JobTypes DEF Done, TypeOK, NoJob
<1>3. \A v \in Workers : run[v].held => run[v].id \in Ids
  BY HeldRuns
<1>4. CASE \E i \in Ids, state \in {None, "waiting", "failed"} :
             /\ Left(i, state)
             /\ \/ run' = run /\ job[i].state = "waiting"
                \/ /\ run[w].held /\ run[w].id = i /\ ~ run'[w].held
                   /\ \A v \in Workers \ {w} : run'[v] = run[v]
  BY <1>3, <1>4 DEF JobsAreHeld, None
<1>5. CASE /\ job' = job /\ ~ run[w].held /\ ~ run'[w].held
           /\ \A v \in Workers \ {w} : run'[v] = run[v]
  BY <1>3, <1>5 DEF JobsAreHeld
<1>6. CASE Take(w)
  <2>1. PICK i \in Ids :
          /\ run[w] = NoRun /\ job[i].state = "waiting"
          /\ \/ job' = Retried(i) /\ run' = run
             \/ job' = Done(i) /\ run' = run
             \/ /\ job' = [job EXCEPT ![i].state = "active"]
                /\ run' = [run EXCEPT ![w] = [id |-> i, text |-> doc.text,
                                              level |-> doc.level, held |-> TRUE]]
    BY <1>6 DEF Take
  <2>2. CASE job' = [job EXCEPT ![i].state = "active"] /\ run'[w].id = i /\ run'[w].held
             /\ \A v \in Workers \ {w} : run'[v] = run[v]
    <3>1. job'[i].state = "active" /\ \A k \in Ids \ {i} : job'[k] = job[k]
      BY <2>2 DEF TypeOK, Job
    <3>2. ~ \E v \in Workers : run[v].held /\ run[v].id = i
      BY <2>1 DEF JobsAreHeld
    <3>3. ~ run[w].held
      BY <2>1 DEF NoRun
    <3> QED
      BY <1>3, <2>2, <3>1, <3>2, <3>3 DEF JobsAreHeld
  <2>3. run' = [run EXCEPT ![w] = [id |-> i, text |-> doc.text, level |-> doc.level,
                                   held |-> TRUE]]
          => run'[w].id = i /\ run'[w].held /\ \A v \in Workers \ {w} : run'[v] = run[v]
    BY DEF TypeOK
  <2> QED
    BY <1>1, <1>2, <1>4, <2>1, <2>2, <2>3
<1>7. ASSUME run' = [run EXCEPT ![w] = NoRun]
      PROVE  ~ run'[w].held /\ \A v \in Workers \ {w} : run'[v] = run[v]
  BY <1>7 DEF TypeOK, NoRun
<1>8. CASE Commit(w)
  BY <1>2, <1>3, <1>4, <1>5, <1>7, <1>8 DEF Commit
<1>9. CASE Throw(w)
  BY <1>1, <1>3, <1>4, <1>5, <1>7, <1>9 DEF Throw
<1>10. CASE Stall(w)
  <2>1. run[w].held /\ run[w].id \in Ids
    BY <1>3, <1>10 DEF Stall
  <2>2. ~ run'[w].held /\ \A v \in Workers \ {w} : run'[v] = run[v]
    BY <1>10 DEF Stall, TypeOK, NoRun, Run
  <2>3. \E state \in {"waiting", "failed"} : Left(run[w].id, state)
    <3>1. job' \in [Ids -> Job]
      BY <1>10, WorkerTypes DEF TypeOK
    <3> QED
      <4>1. \A k \in Ids \ {run[w].id} : job'[k] = job[k]
        BY <1>10 DEF Stall, TypeOK
      <4>2. job'[run[w].id].state \in {"waiting", "failed"}
        BY <1>10, <2>1 DEF Stall, TypeOK, Job
      <4> QED
        BY <3>1, <4>1, <4>2
  <2> QED
    BY <1>4, <2>1, <2>2, <2>3
<1> QED
  BY <1>6, <1>8, <1>9, <1>10

(* A job that is pushed out was not active.                                *)
LEMMA EvictKeepsJobs ==
  ASSUME TypeOK, JobsAreHeld, NEW i \in Ids, Evict(i)
  PROVE  TypeOK' /\ JobsAreHeld'
<1>1. job' \in [Ids -> Job] /\ run' = run
  BY JobTypes DEF Evict
<1>2. \A k \in Ids : (job'[k].state = "active") <=> (job[k].state = "active")
  BY <1>1 DEF Evict, Done, NoJob, TypeOK, Job, None
<1>3. \A v \in Workers : run[v].held => run[v].id \in Ids
  BY HeldRuns
<1>4. TypeOK'
  BY <1>1 DEF Evict, TypeOK, index, history
<1> QED
  BY <1>1, <1>2, <1>3, <1>4 DEF JobsAreHeld

-----------------------------------------------------------------------------
(* A write of the document tells who had read it.                          *)
Told ==
  /\ doc'.id = doc.id /\ born' = born
  /\ \A f \in {"text", "level"} : f \in overtaken => f \in overtaken'
  /\ doc'.text # doc.text /\ Embedding => "text" \in overtaken'
  /\ doc'.level # doc.level /\ (Embedding \/ \E p \in Requests : At(p, "sync"))
       => "level" \in overtaken'

(* The write of a PATCH tells who had read what it changes, and touches    *)
(* neither the chunks nor the FAQ.                                         *)
LEMMA PatchTells ==
  ASSUME TypeOK, RequestsAreSound, NEW q \in Requests, PatchWrites(q)
  PROVE  Told /\ doc.id # 0 /\ UNCHANGED <<chunks, faq, lost>>
<1>1. doc.id # 0
  BY DEF PatchWrites, RequestsAreSound, At
<1>2. doc'.id = doc.id
  BY <1>1, DocTypes DEF PatchWrites, Patched
<1> QED
  BY <1>1, <1>2 DEF PatchWrites, Told, Outdated

(* A mirror updates the document there is, or makes one nobody has read.   *)
LEMMA MirrorTells ==
  ASSUME TypeOK, NEW q \in Requests, Mirror(q)
  PROVE  /\ IF doc.id # 0 THEN Told
            ELSE /\ doc'.id = born + 1 /\ born' = born + 1
                 /\ \A f \in {"text", "level"} : f \in overtaken => f \in overtaken'
         /\ doc'.hash = NoText /\ doc'.id # 0 /\ UNCHANGED <<chunks, faq>>
         /\ \A f \in {"text", "level"} : f \in lost => f \in lost'
<1>1. doc'.id # 0
  BY IdsAreNumbers DEF Mirror
<1> QED
  BY <1>1 DEF Mirror, Told, Outdated, CaughtUp

(* The other steps that touch the index.                                   *)
LEMMA OtherWrites ==
  ASSUME TypeOK, NEW q \in Requests
  PROVE  /\ Remove(q) \/ Unmirror(q) =>
              doc' = NoDoc /\ chunks' = NoChunks /\ UNCHANGED <<born, faq>>
         /\ Reindex(q) =>
              /\ doc.id # 0 /\ doc'.id = doc.id /\ doc'.hash = NoText
              /\ doc'.text = doc.text /\ doc'.level = doc.level
              /\ UNCHANGED <<chunks, born, faq, overtaken, lost>>
         /\ SyncWrites(q) =>
              /\ UNCHANGED <<doc, born, faq>> /\ chunks'.text = chunks.text
              /\ lost \ {"level"} \subseteq lost'
              /\ overtaken \ {"level"} \subseteq overtaken'
              /\ Embedding \/ Syncing(q) => overtaken' = overtaken
         /\ FaqWrites(q) =>
              UNCHANGED <<doc, chunks, born, lost>> /\ overtaken \subseteq overtaken'
<1>1. Remove(q) \/ Unmirror(q) =>
        doc' = NoDoc /\ chunks' = NoChunks /\ UNCHANGED <<born, faq>>
  BY DEF Remove, Unmirror
<1>2. Reindex(q) =>
        /\ doc.id # 0 /\ doc'.id = doc.id /\ doc'.hash = NoText
        /\ doc'.text = doc.text /\ doc'.level = doc.level
        /\ UNCHANGED <<chunks, born, faq, overtaken, lost>>
  BY DocTypes DEF Reindex
<1>3. SyncWrites(q) =>
        /\ UNCHANGED <<doc, born, faq>> /\ chunks'.text = chunks.text
        /\ lost \ {"level"} \subseteq lost'
        /\ overtaken \ {"level"} \subseteq overtaken'
        /\ Embedding \/ Syncing(q) => overtaken' = overtaken
  <2>1. chunks # NoChunks => chunks \in KnowledgeChunk
    BY DEF TypeOK
  <2>2. SyncWrites(q) => chunks'.text = chunks.text
    BY <2>1 DEF SyncWrites, KnowledgeChunk
  <2> QED
    BY <2>2 DEF SyncWrites
<1>4. FaqWrites(q) =>
        UNCHANGED <<doc, chunks, born, lost>> /\ overtaken \subseteq overtaken'
  BY DEF FaqWrites, index
<1> QED
  BY <1>1, <1>2, <1>3, <1>4

(* What a run has read is the document's, or was overtaken.                *)
LEMMA StepKeepsRuns ==
  ASSUME TypeOK, RequestsAreSound, RunsAreKnown, NEW q \in Requests, Step(q)
  PROVE  RunsAreKnown'
<1>1. UNCHANGED run
  BY StepFrame DEF Enqueue
<1>2. CASE UNCHANGED <<doc, born>> /\ overtaken \subseteq overtaken'
  BY <1>1, <1>2 DEF RunsAreKnown, Working
<1>3. CASE Told
  BY <1>1, <1>3 DEF RunsAreKnown, Working, Told, Embedding
<1>4. CASE doc' = NoDoc /\ born' = born
  BY <1>1, <1>4 DEF RunsAreKnown, Working, NoDoc
<1>5. CASE doc'.id = born + 1 /\ born' = born + 1
  BY <1>1, <1>5, NumbersAre DEF RunsAreKnown, Working
<1>6. CASE Reindex(q)
  BY <1>1, <1>6, OtherWrites DEF RunsAreKnown, Working
<1>7. CASE SyncWrites(q)
  BY <1>1, <1>7, OtherWrites DEF RunsAreKnown, Working, Embedding
<1> QED
  BY <1>2, <1>3, <1>4, <1>5, <1>6, <1>7, AsideFrame, PatchTells, MirrorTells,
     OtherWrites DEF Step, Aside

(* So is the level a request copies ...                                    *)
LEMMA StepKeepsSyncs ==
  ASSUME TypeOK, RequestsAreSound, SyncsAreKnown, NEW q \in Requests, Step(q)
  PROVE  SyncsAreKnown'
<1> DEFINE Others == \A p \in Requests : (At(p, "sync"))' => p # q /\ At(p, "sync")
<1>1. \A p \in Requests \ {q} : req'[p] = req[p]
  BY StepFrame
<1>2. SyncReads(q) \/ Others
  <2>1. CASE PatchReads(q)  BY <1>1, <2>1 DEF PatchReads, TypeOK, Request, At
  <2>2. CASE PatchWrites(q)  BY <1>1, <2>2, RequestAfter DEF PatchWrites, At
  <2>3. CASE SyncWrites(q)  BY <1>1, <2>3, RequestAfter DEF SyncWrites, At
  <2>4. CASE PatchFails(q) \/ Enqueue(q) \/ EnqueueIsLost(q) \/ Unmirror(q)
             \/ MirrorFails(q) \/ Dies(q)
    <3>1. req'[q] = Idle
      BY <2>4, RequestAfter DEF PatchFails, Enqueue, EnqueueIsLost, Unmirror, MirrorFails, Dies
    <3> QED
      BY <1>1, <3>1 DEF At, Idle
  <2>5. CASE Remove(q)  BY <1>1, <2>5 DEF Remove, Starts, At
  <2>6. CASE Reindex(q)  BY <1>1, <2>6 DEF Reindex, TypeOK, Request, At
  <2>7. CASE EnqueuePending(q)  BY <1>1, <2>7 DEF EnqueuePending, TypeOK, Request, At
  <2>8. CASE FaqWrites(q)  BY <1>1, <2>8 DEF FaqWrites, TypeOK, Request, At
  <2>9. CASE Mirror(q)  BY <1>1, <2>9 DEF Mirror, TypeOK, Request, At
  <2> QED
    BY <2>1, <2>2, <2>3, <2>4, <2>5, <2>6, <2>7, <2>8, <2>9 DEF Step
<1>3. CASE SyncReads(q)
  <2>1. UNCHANGED <<doc, overtaken>>
    BY <1>3, AsideFrame DEF Aside
  <2>2. (Looked(q, "sync"))' => req'[q].level = doc.level
    BY <1>3, <2>1 DEF SyncReads, TypeOK, Request, Looked, At, Goto
  <2> QED
    BY <1>1, <2>1, <2>2 DEF SyncsAreKnown, Looked, At
<1>4. CASE Others /\ UNCHANGED doc /\ overtaken \subseteq overtaken'
  BY <1>1, <1>4 DEF SyncsAreKnown, Looked, At
<1>5. CASE Others /\ Told
  BY <1>1, <1>5 DEF SyncsAreKnown, Looked, At, Told
<1>6. CASE Others /\ doc' = NoDoc
  BY <1>1, <1>6 DEF SyncsAreKnown, Looked, At, NoDoc, RequestsAreSound
<1>7. CASE Others /\ doc'.id = born + 1
  BY <1>1, <1>7, NumbersAre DEF SyncsAreKnown, Looked, At, RequestsAreSound
<1>8. CASE Others /\ Reindex(q)
  BY <1>1, <1>8, OtherWrites DEF SyncsAreKnown, Looked, At
<1>9. CASE Others /\ SyncWrites(q)
  BY <1>1, <1>9, OtherWrites DEF SyncsAreKnown, Looked, At, Syncing
<1> QED
  BY <1>2, <1>3, <1>4, <1>5, <1>6, <1>7, <1>8, <1>9, AsideFrame, PatchTells,
     MirrorTells, OtherWrites DEF Step, Aside

(* ... and the row of the FAQ on its way to the mirror; and a FAQ that is  *)
(* not published has no mirror, or a request on its way to take it down.   *)
LEMMA StepKeepsMirrors ==
  ASSUME TypeOK, RequestsAreSound, MirrorsAreKnown, MirrorIsLookedAfter,
         NEW q \in Requests, Step(q)
  PROVE  MirrorsAreKnown' /\ MirrorIsLookedAfter'
<1>1. \A p \in Requests \ {q} : req'[p] = req[p]
  BY StepFrame
<1>2. CASE /\ ~ At(q, "mirror") /\ ~ (At(q, "mirror"))'
           /\ UNCHANGED faq /\ (doc = NoDoc => doc' = NoDoc)
           /\ ("faq" \in overtaken => "faq" \in overtaken')
           /\ ("faq" \in lost => "faq" \in lost')
  BY <1>1, <1>2 DEF MirrorsAreKnown, MirrorIsLookedAfter, At
<1>3. CASE PatchReads(q)
  BY <1>1, <1>2, <1>3 DEF PatchReads, Starts, At, TypeOK, Request, index
<1>4. CASE PatchWrites(q)
  <2>1. doc # NoDoc /\ UNCHANGED <<faq, lost>>
    BY <1>4, PatchTells DEF NoDoc
  <2> QED
    BY <1>2, <1>4, <2>1, RequestAfter DEF PatchWrites, At
<1>5. CASE PatchFails(q) \/ Enqueue(q) \/ EnqueueIsLost(q) \/ Dies(q)
  <2>1. ~ At(q, "mirror") /\ ~ (At(q, "mirror"))'
    BY <1>5, RequestAfter DEF PatchFails, Enqueue, EnqueueIsLost, Dies, At, Idle
  <2> QED
    BY <1>2, <1>5, <2>1, AsideFrame DEF Aside
<1>6. CASE SyncReads(q)
  <2>1. ~ At(q, "mirror") /\ ~ (At(q, "mirror"))'
    BY <1>6, RequestAfter DEF SyncReads, At, TypeOK, Request
  <2> QED
    BY <1>2, <1>6, <2>1, AsideFrame DEF Aside
<1>7. CASE SyncWrites(q)
  <2>1. ~ At(q, "mirror") /\ ~ (At(q, "mirror"))'
    BY <1>7, RequestAfter DEF SyncWrites, At
  <2> QED
    BY <1>2, <1>7, <2>1, OtherWrites
<1>8. CASE Remove(q)
  BY <1>1, <1>2, <1>8 DEF Remove, Starts, At
<1>9. CASE Reindex(q)
  <2>1. ~ At(q, "mirror") /\ ~ (At(q, "mirror"))' /\ doc # NoDoc
    BY <1>9 DEF Reindex, Starts, At, TypeOK, Request, NoDoc
  <2> QED
    BY <1>2, <1>9, <2>1, OtherWrites
<1>10. CASE EnqueuePending(q)
  <2>1. ~ At(q, "mirror") /\ ~ (At(q, "mirror"))'
    BY <1>10 DEF EnqueuePending, Starts, At, TypeOK, Request
  <2> QED
    BY <1>2, <1>10, <2>1, AsideFrame DEF Aside
<1>11. CASE FaqWrites(q)
  <2>1. (At(q, "mirror"))' /\ req'[q].row = faq'
    BY <1>11 DEF FaqWrites, At, TypeOK, Request
  <2>2. (\E p \in Requests \ {q} : At(p, "mirror")) => "faq" \in overtaken'
    BY <1>11 DEF FaqWrites, Mirroring
  <2> QED
    BY <1>1, <2>1, <2>2 DEF MirrorsAreKnown, MirrorIsLookedAfter, At
<1>12. ASSUME At(q, "mirror"), ~ (At(q, "mirror"))', UNCHANGED faq,
              overtaken \ CaughtUp(q) \subseteq overtaken'
       PROVE  MirrorsAreKnown'
  BY <1>1, <1>12 DEF MirrorsAreKnown, CaughtUp, Mirroring, At
<1>13. CASE Mirror(q)
  <2>1. /\ At(q, "mirror") /\ ~ (At(q, "mirror"))' /\ UNCHANGED faq
        /\ req[q].row.state = "published"
        /\ overtaken \ CaughtUp(q) \subseteq overtaken'
    BY <1>13 DEF Mirror, At, TypeOK, Request
  <2>2. MirrorsAreKnown'
    BY <1>12, <2>1
  <2>3. ASSUME faq.state \in {"draft", "deleted"} PROVE "faq" \in overtaken'
    BY <2>1, <2>3 DEF MirrorsAreKnown, CaughtUp
  <2> QED
    BY <2>1, <2>2, <2>3 DEF MirrorIsLookedAfter
<1>14. CASE Unmirror(q)
  <2>1. /\ At(q, "mirror") /\ ~ (At(q, "mirror"))' /\ UNCHANGED faq /\ doc' = NoDoc
        /\ overtaken' = (overtaken \cap {"faq"}) \ CaughtUp(q)
    BY <1>14, RequestAfter DEF Unmirror, At, Idle
  <2> QED
    BY <1>1, <2>1 DEF MirrorsAreKnown, MirrorIsLookedAfter, CaughtUp, Mirroring, At
<1>15. CASE MirrorFails(q)
  <2>1. /\ ~ (At(q, "mirror"))' /\ UNCHANGED <<faq, doc, overtaken>> /\ "faq" \in lost'
    BY <1>15, RequestAfter, AsideFrame DEF MirrorFails, At, Idle, Aside
  <2> QED
    BY <1>1, <2>1 DEF MirrorsAreKnown, MirrorIsLookedAfter, At
<1> QED
  BY <1>3, <1>4, <1>5, <1>6, <1>7, <1>8, <1>9, <1>10, <1>11, <1>13, <1>14, <1>15 DEF Step

(* No step of a request writes a hash, and one that leaves it keeps the    *)
(* body, or was made over an edit it had not seen.                         *)
LEMMA StepKeepsHash ==
  ASSUME TypeOK, RequestsAreSound, HashIsHonest, NEW q \in Requests, Step(q)
  PROVE  HashIsHonest'
<1>1. CASE /\ UNCHANGED doc /\ chunks'.text = chunks.text
           /\ ("text" \in overtaken => "text" \in overtaken')
  BY <1>1 DEF HashIsHonest
<1>2. CASE doc'.hash = NoText
  BY <1>2 DEF HashIsHonest
<1>3. CASE PatchWrites(q)
  <2>1. PICK title \in Titles, body \in Bodies \cup {None}, level \in Levels \cup {None},
             status \in {"DRAFT", "PUBLISHED"} :
          /\ doc' = Patched(title, body, level, status, req[q].body)
          /\ {f \in {"text"} : body # None /\ req[q].body # doc.text.body} \subseteq overtaken'
    BY <1>3 DEF PatchWrites
  <2>2. /\ doc'.hash = IF body # None /\ body # req[q].body THEN NoText ELSE doc.hash
        /\ doc'.text.body = Given(body, doc.text.body)
    BY <1>3, <2>1, PatchTells, DocTypes DEF Patched
  <2>3. UNCHANGED chunks /\ ("text" \in overtaken => "text" \in overtaken')
    BY <1>3, PatchTells DEF Told
  <2>4. body # None /\ req[q].body # doc.text.body => "text" \in overtaken'
    BY <2>1
  <2> QED
    BY <2>2, <2>3, <2>4 DEF HashIsHonest, Given
<1>4. CASE Remove(q) \/ Unmirror(q)
  BY <1>2, <1>4, OtherWrites DEF NoDoc
<1> QED
  BY <1>1, <1>2, <1>3, <1>4, AsideFrame, MirrorTells, OtherWrites DEF Step, Aside

-----------------------------------------------------------------------------
(* The request is on its way to the queue, with or without the level.      *)
Tending(q) == Looked(q, "level") \/ Looked(q, "sync") \/ Looked(q, "enqueue")

(* A request that does not tend the document leaves it as well tended as   *)
(* it was.                                                                 *)
LEMMA OthersTend ==
  ASSUME TypeOK, NEW q \in Requests, ~ Tending(q),
         \A p \in Requests \ {q} : req'[p] = req[p],
         UNCHANGED <<doc, chunks, run>>, doc.id # 0 => job'[doc.id] = job[doc.id],
         \A f \in {"text", "level"} : f \in overtaken \cup lost => f \in overtaken' \cup lost',
         TextIsLookedAfter, LevelIsLookedAfter
  PROVE  TextIsLookedAfter' /\ LevelIsLookedAfter'
<1>1. \A p \in Requests, step \in {"level", "sync", "enqueue"} :
        Looked(p, step) => (Looked(p, step))'
  BY DEF Tending, Looked, At
<1>2. doc.id # 0 /\ ToCome => ToCome'
  BY <1>1 DEF ToCome
<1>3. LevelToCome => LevelToCome'
  BY <1>1 DEF LevelToCome
<1> QED
  BY <1>2, <1>3 DEF TextIsLookedAfter, LevelIsLookedAfter

(* A document has a job that waits or runs once it was enqueued, or is     *)
(* given up.                                                               *)
LEMMA EnqueueTends ==
  ASSUME TypeOK, JobsAreHeld, RequestsAreSound, TextIsLookedAfter, LevelIsLookedAfter,
         NEW q \in Requests, Enqueue(q)
  PROVE  TextIsLookedAfter' /\ LevelIsLookedAfter'
<1>1. /\ \A p \in Requests \ {q} : req'[p] = req[p]
      /\ UNCHANGED <<doc, chunks, run, overtaken>> /\ lost \subseteq lost'
  BY StepFrame, AsideFrame DEF Step, Aside
<1>2. req[q].id \in Ids /\ job[req[q].id] \in Job
  BY DEF Enqueue, At, RequestsAreSound, TypeOK, Request
<1>3. CASE req[q].id # doc.id
  <2>1. doc.id # 0 => job'[doc.id] = job[doc.id]
    BY <1>3, DocTypes DEF Enqueue, TypeOK
  <2> QED
    BY <1>1, <1>3, <2>1, OthersTend DEF Tending, Looked
<1>4. CASE req[q].id = doc.id
  <2>1. job[doc.id].state \in {None, "waiting", "active", "failed"}
    BY <1>2, <1>4 DEF Job
  <2>2. CASE job[doc.id].state \in {None, "waiting"}
    <3>1. job'[doc.id].state = "waiting"
      BY <1>2, <1>4, <2>2 DEF Enqueue, TypeOK, Job, None
    <3>2. ToCome'
      BY <1>1, <3>1 DEF ToCome
    <3>3. LevelToCome => LevelToCome'
      BY <1>1 DEF LevelToCome, Looked, Enqueue, At
    <3> QED
      BY <1>1, <3>2, <3>3 DEF TextIsLookedAfter, LevelIsLookedAfter
  <2>3. CASE job[doc.id].state = "active"
    <3>1. ToCome'
      BY <1>1, <1>2, <1>4, <2>3 DEF ToCome, JobsAreHeld
    <3>2. LevelToCome => LevelToCome'
      BY <1>1 DEF LevelToCome, Looked, Enqueue, At
    <3> QED
      BY <1>1, <3>1, <3>2 DEF TextIsLookedAfter, LevelIsLookedAfter
  <2>4. CASE job[doc.id].state = "failed"
    BY <1>4, <2>4 DEF Enqueue, Missed, TextIsLookedAfter, LevelIsLookedAfter
  <2> QED
    BY <2>1, <2>2, <2>3, <2>4
<1> QED
  BY <1>3, <1>4

(* A step that does not reach the queue leaves the document to another, or *)
(* counts as lost.                                                         *)
LEMMA StepTends ==
  ASSUME TypeOK, TypeOK', RequestsAreSound, JobsAreHeld, SyncsAreKnown, HashIsHonest,
         TextIsLookedAfter, LevelIsLookedAfter, NEW q \in Requests, Step(q)
  PROVE  TextIsLookedAfter' /\ LevelIsLookedAfter'
<1>1. \A p \in Requests \ {q} : req'[p] = req[p]
  BY StepFrame
<1>2. CASE Aside(q) /\ UNCHANGED job /\ ~ Tending(q)
  BY <1>1, <1>2, AsideFrame, OthersTend
<1>3. CASE doc' = NoDoc
  BY <1>3 DEF TextIsLookedAfter, LevelIsLookedAfter, NoDoc
<1>4. CASE doc'.hash = NoText /\ (Looked(q, "enqueue"))'
  BY <1>4 DEF TextIsLookedAfter, LevelIsLookedAfter, ToCome
<1>5. CASE PatchReads(q)
  BY <1>2, <1>5 DEF Aside, PatchReads, Starts, Tending, Looked, At, queue
<1>6. CASE PatchWrites(q)
  <2>1. PICK title \in Titles, body \in Bodies \cup {None}, level \in Levels \cup {None},
             status \in {"DRAFT", "PUBLISHED"} :
          /\ doc' = Patched(title, body, level, status, req[q].body)
          /\ Goto(q, IF level # None THEN "level" ELSE "enqueue")
    BY <1>6 DEF PatchWrites
  <2>2. /\ Told /\ doc.id # 0 /\ UNCHANGED <<chunks, lost, job, run>>
        /\ req[q].id = doc.id /\ At(q, "patch")
    BY <1>6, PatchTells DEF PatchWrites, queue
  <2>3. CASE level # None
    <3>1. (Looked(q, "level"))'
      BY <2>1, <2>2, <2>3, RequestAfter DEF Looked, At, Told
    <3> QED
      BY <3>1 DEF TextIsLookedAfter, LevelIsLookedAfter, LevelToCome
  <2>4. CASE level = None
    <3>1. (Looked(q, "enqueue"))'
      BY <2>1, <2>2, <2>4, RequestAfter DEF Looked, At, Told
    <3>2. ToCome'
      BY <3>1 DEF ToCome
    <3>3. doc'.level = doc.level /\ doc'.hash \in {doc.hash, NoText}
      BY <2>1, <2>2, <2>4, DocTypes DEF Patched, Given
    <3>4. LevelToCome => LevelToCome'
      BY <1>1, <2>2 DEF LevelToCome, Looked, At, Told
    <3> QED
      BY <2>2, <3>2, <3>3, <3>4 DEF TextIsLookedAfter, LevelIsLookedAfter, Told
  <2> QED
    BY <2>3, <2>4
<1>7. CASE PatchFails(q)
  BY <1>2, <1>7 DEF Aside, PatchFails, Tending, Looked, At, queue
<1>8. CASE SyncReads(q)
  <2>1. CASE req[q].id = doc.id
    <3>1. (Looked(q, "sync"))'
      <4>1. req'[q].step = "sync" /\ req'[q].id = req[q].id
        BY <1>8, <2>1 DEF SyncReads, TypeOK, Request
      <4>2. UNCHANGED doc
        BY <1>8, AsideFrame DEF Aside
      <4> QED
        BY <2>1, <4>1, <4>2 DEF Looked, At
    <3> QED
      BY <3>1 DEF TextIsLookedAfter, LevelIsLookedAfter, LevelToCome
  <2>2. CASE req[q].id # doc.id
    BY <1>2, <1>8, <2>2 DEF Aside, SyncReads, Tending, Looked, queue
  <2> QED
    BY <2>1, <2>2
<1>9. CASE SyncWrites(q)
  <2>1. CASE req[q].id = doc.id
    <3>1. (Looked(q, "enqueue"))'
      BY <1>9, <2>1, RequestAfter DEF SyncWrites, Looked, At
    <3>2. TextIsLookedAfter'
      BY <3>1 DEF TextIsLookedAfter, ToCome
    <3>3. chunks'.level \in {req[q].level, None}
      BY <1>9, <2>1 DEF SyncWrites, TypeOK, KnowledgeChunk, NoChunks
    <3>4. req[q].level = doc.level \/ "level" \in overtaken
      BY <1>9, <2>1 DEF SyncsAreKnown, Looked, SyncWrites
    <3>5. req[q].level # doc.level /\ "level" \in overtaken => "level" \in overtaken'
      BY <1>9, <2>1 DEF SyncWrites
    <3> QED
      BY <1>9, <3>2, <3>3, <3>4, <3>5, OtherWrites DEF LevelIsLookedAfter
  <2>2. CASE req[q].id # doc.id
    BY <1>1, <1>9, <2>2, OthersTend DEF SyncWrites, Tending, Looked, queue
  <2> QED
    BY <2>1, <2>2
<1>10. CASE Enqueue(q)
  BY <1>10, EnqueueTends
<1>11. CASE EnqueueIsLost(q) \/ Dies(q)
  <2>1. UNCHANGED job
    BY <1>11 DEF EnqueueIsLost, Dies, queue
  <2>2. CASE Tending(q)
    <3>1. {"text", "level"} \subseteq lost'
      BY <1>11, <2>2 DEF EnqueueIsLost, Dies, Missed, Tending, Looked, At
    <3> QED
      BY <3>1 DEF TextIsLookedAfter, LevelIsLookedAfter
  <2> QED
    BY <1>2, <1>11, <2>1, <2>2 DEF Aside
<1>12. CASE Remove(q) \/ Unmirror(q)
  BY <1>3, <1>12, OtherWrites
<1>13. CASE Reindex(q)
  <2>1. (Looked(q, "enqueue"))'
    <3>1. req'[q].step = "enqueue" /\ req'[q].id = doc.id
      BY <1>13 DEF Reindex, TypeOK, Request
    <3> QED
      BY <1>13, <3>1, OtherWrites DEF Looked, At
  <2> QED
    BY <1>4, <1>13, <2>1, OtherWrites
<1>14. CASE EnqueuePending(q)
  <2>1. (Looked(q, "enqueue"))' /\ doc'.hash = NoText
    <3>1. req'[q].step = "enqueue" /\ req'[q].id = doc.id /\ doc.hash = NoText
      BY <1>14 DEF EnqueuePending, TypeOK, Request
    <3> QED
      BY <1>14, <3>1, AsideFrame DEF Looked, At, Aside
  <2> QED
    BY <1>4, <2>1
<1>15. CASE FaqWrites(q)
  BY <1>1, <1>15, OtherWrites, OthersTend DEF FaqWrites, Starts, Tending, Looked, At, queue
<1>16. CASE Mirror(q)
  <2>1. (Looked(q, "enqueue"))' /\ doc'.hash = NoText
    <3>1. req'[q].step = "enqueue" /\ req'[q].id = doc'.id
      BY <1>16 DEF Mirror, TypeOK, Request
    <3> QED
      BY <1>16, <3>1, MirrorTells DEF Looked, At
  <2> QED
    BY <1>4, <2>1
<1>17. CASE MirrorFails(q)
  BY <1>2, <1>17 DEF Aside, MirrorFails, Tending, Looked, At, queue
<1> QED
  BY <1>5, <1>6, <1>7, <1>8, <1>9, <1>10, <1>11, <1>12, <1>13, <1>14, <1>15, <1>16,
     <1>17 DEF Step

-----------------------------------------------------------------------------
(* The runs of the other workers go on; that of `w` has read the document  *)
(* just now, keeps what it read, or ends.                                  *)
LEMMA WorkerFrame ==
  ASSUME TypeOK, NEW w \in Workers, Take(w) \/ Commit(w) \/ Throw(w) \/ Stall(w)
  PROVE  /\ UNCHANGED <<req, faq, born>>
         /\ \A v \in Workers \ {w} : run'[v] = run[v]
         /\ \/ run'[w].id = 0
            \/ run'[w].id = doc.id /\ run'[w].text = doc.text /\ run'[w].level = doc.level
            \/ /\ run'[w].id = run[w].id /\ run'[w].text = run[w].text
               /\ run'[w].level = run[w].level
         /\ Commit(w) \/ UNCHANGED <<doc, chunks, overtaken>>
<1> USE DEF index
<1>1. CASE Take(w)
  <2>1. PICK i \in Ids :
          \/ run' = run
          \/ doc.id = i /\ run' = [run EXCEPT ![w] = [id |-> i, text |-> doc.text,
                                                     level |-> doc.level, held |-> TRUE]]
    BY <1>1 DEF Take
  <2> QED
    BY <1>1, <2>1 DEF Take, TypeOK
<1>2. CASE Commit(w)
  BY <1>2 DEF Commit, TypeOK, NoRun
<1>3. CASE Throw(w)
  BY <1>3 DEF Throw, TypeOK, NoRun
<1>4. CASE Stall(w)
  BY <1>4 DEF Stall, TypeOK, NoRun, Run
<1> QED
  BY <1>1, <1>2, <1>3, <1>4

(* What a commit writes, and whom it leaves: overtaken is settled only     *)
(* when nobody else has read what it was.                                  *)
LEMMA Commits ==
  ASSUME TypeOK, NEW w \in Workers, Commit(w)
  PROVE  /\ Working(w) /\ doc # NoDoc /\ doc' # NoDoc
         /\ doc'.id = doc.id /\ doc'.text = doc.text /\ doc'.level = doc.level
         /\ doc'.hash = run[w].text
         /\ chunks'.text = run[w].text /\ chunks'.level = run[w].level
         /\ run'[w] = NoRun
         /\ "text" \in overtaken =>
              \/ "text" \in overtaken'
              \/ /\ run[w].text = doc.text
                 /\ \A v \in Workers \ {w} : run[v].id # doc.id
         /\ "level" \in overtaken =>
              \/ "level" \in overtaken'
              \/ /\ run[w].level = doc.level
                 /\ \A v \in Workers \ {w} : run[v].id # doc.id
                 /\ \A p \in Requests : ~ At(p, "sync")
         /\ "faq" \in overtaken => "faq" \in overtaken'
         /\ "text" \in lost => "text" \in lost'
         /\ "level" \in lost => "level" \in lost' \/ run[w].level = doc.level
         /\ "faq" \in lost => "faq" \in lost'
<1>1. Working(w) /\ doc.id # 0
  BY DEF Commit, Working
<1>2. /\ doc # NoDoc /\ doc' # NoDoc
      /\ doc'.id = doc.id /\ doc'.text = doc.text /\ doc'.level = doc.level
      /\ doc'.hash = run[w].text
  BY <1>1, DocTypes DEF Commit, NoDoc
<1>3. /\ chunks'.text = run[w].text /\ chunks'.level = run[w].level /\ run'[w] = NoRun
  BY DEF Commit, TypeOK
<1>4. /\ "text" \in overtaken =>
           \/ "text" \in overtaken'
           \/ /\ run[w].text = doc.text
              /\ \A v \in Workers \ {w} : run[v].id # doc.id
      /\ "level" \in overtaken =>
           \/ "level" \in overtaken'
           \/ /\ run[w].level = doc.level
              /\ \A v \in Workers \ {w} : run[v].id # doc.id
              /\ \A p \in Requests : ~ At(p, "sync")
      /\ "faq" \in overtaken => "faq" \in overtaken'
  BY DEF Commit
<1>5. /\ "text" \in lost => "text" \in lost'
      /\ "level" \in lost => "level" \in lost' \/ run[w].level = doc.level
      /\ "faq" \in lost => "faq" \in lost'
  BY DEF Commit
<1> QED
  BY <1>1, <1>2, <1>3, <1>4, <1>5

(* A worker keeps track of what was read.                                  *)
LEMMA WorkerKeepsReads ==
  ASSUME TypeOK, RunsAreKnown, SyncsAreKnown, MirrorsAreKnown, RequestsAreSound, HashIsHonest,
         NEW w \in Workers, Take(w) \/ Commit(w) \/ Throw(w) \/ Stall(w)
  PROVE  /\ RunsAreKnown' /\ SyncsAreKnown' /\ MirrorsAreKnown'
         /\ RequestsAreSound' /\ HashIsHonest'
<1>1. RequestsAreSound'
  BY WorkerFrame DEF RequestsAreSound, At
<1>2. CASE UNCHANGED <<doc, chunks, overtaken>>
  <2>1. RunsAreKnown'
    <3>1. run'[w].id <= born
      BY WorkerFrame, NumbersAre DEF RunsAreKnown, TypeOK
    <3> QED
      BY <1>2, <3>1, WorkerFrame DEF RunsAreKnown, Working
  <2> QED
    BY <1>1, <1>2, <2>1, WorkerFrame DEF SyncsAreKnown, MirrorsAreKnown, HashIsHonest, Looked, At
<1>3. CASE Commit(w)
  <2>1. RunsAreKnown'
    <3> SUFFICES ASSUME NEW v \in Workers
        PROVE  /\ run'[v].id <= born'
               /\ run'[v].id # 0 /\ run'[v].id = doc'.id =>
                    /\ run'[v].text = doc'.text \/ "text" \in overtaken'
                    /\ run'[v].level = doc'.level \/ "level" \in overtaken'
      BY DEF RunsAreKnown, Working
    <3>1. CASE v # w
      BY <1>3, <3>1, Commits, WorkerFrame DEF RunsAreKnown, Working
    <3>2. CASE v = w
      BY <1>3, <3>2, Commits, WorkerFrame, NumbersAre DEF NoRun
    <3> QED
      BY <3>1, <3>2
  <2>2. SyncsAreKnown'
    BY <1>3, Commits, WorkerFrame DEF SyncsAreKnown, Looked, At
  <2>3. MirrorsAreKnown'
    BY <1>3, Commits, WorkerFrame DEF MirrorsAreKnown, At
  <2>4. HashIsHonest'
    BY <1>3, Commits DEF HashIsHonest, RunsAreKnown
  <2> QED
    BY <1>1, <2>1, <2>2, <2>3, <2>4
<1> QED
  BY <1>2, <1>3, WorkerFrame

(* A worker looks after its document: it takes the job, finds the chunks   *)
(* to be right, writes them, gives the job back, or gives it up.           *)
LEMMA WorkerTends ==
  ASSUME TypeOK, TypeOK', JobsAreHeld, RunsAreKnown, HashIsHonest,
         TextIsLookedAfter, LevelIsLookedAfter, MirrorIsLookedAfter,
         NEW w \in Workers, Take(w) \/ Commit(w) \/ Throw(w) \/ Stall(w)
  PROVE  TextIsLookedAfter' /\ LevelIsLookedAfter' /\ MirrorIsLookedAfter'
<1>1. /\ UNCHANGED <<req, faq>> /\ \A v \in Workers \ {w} : run'[v] = run[v]
  BY WorkerFrame
<1>2. UNCHANGED doc => (LevelToCome <=> LevelToCome')
  BY <1>1 DEF LevelToCome, Looked, At
<1>3. CASE Commit(w)
  <2>1. MirrorIsLookedAfter'
    BY <1>1, <1>3, Commits DEF MirrorIsLookedAfter, At
  <2>2. TextIsLookedAfter'
    BY <1>3, Commits DEF TextIsLookedAfter, RunsAreKnown
  <2>3. LevelIsLookedAfter'
    BY <1>3, Commits DEF LevelIsLookedAfter, RunsAreKnown
  <2> QED
    BY <2>1, <2>2, <2>3
<1>4. ASSUME UNCHANGED <<doc, overtaken>>, "faq" \in lost => "faq" \in lost'
      PROVE  MirrorIsLookedAfter'
  BY <1>1, <1>4 DEF MirrorIsLookedAfter, At
<1>5. CASE /\ UNCHANGED <<doc, chunks, overtaken>> /\ lost \subseteq lost'
           /\ \/ doc.id # 0 /\ ToCome => ToCome'
              \/ {"text", "level"} \subseteq lost'
  BY <1>2, <1>4, <1>5 DEF TextIsLookedAfter, LevelIsLookedAfter
<1>6. CASE Take(w)
  <2>1. /\ UNCHANGED <<doc, chunks, overtaken>> /\ run[w] = NoRun
        /\ lost \ {"text"} \subseteq lost'
    BY <1>6 DEF Take, index
  <2>2. PICK i \in Ids :
          /\ job[i].state = "waiting"
          /\ \/ doc.id # i /\ job' = Retried(i) /\ UNCHANGED <<run, lost>>
             \/ /\ doc.id = i /\ (doc.text.body \in Blank \/ doc.hash = doc.text)
                /\ job' = Done(i) /\ UNCHANGED run
             \/ /\ doc.id = i
                /\ run' = [run EXCEPT ![w] = [id |-> i, text |-> doc.text,
                                              level |-> doc.level, held |-> TRUE]]
    BY <1>6 DEF Take
  <2>3. CASE doc.id # i /\ job' = Retried(i) /\ UNCHANGED <<run, lost>>
    <3>1. doc.id # 0 => job'[doc.id] = job[doc.id]
      BY <2>3, DocTypes DEF Retried, TypeOK
    <3>2. doc.id # 0 /\ ToCome => ToCome'
      BY <1>1, <2>1, <2>3, <3>1 DEF ToCome, Looked, At
    <3> QED
      BY <1>5, <2>1, <2>3, <3>2
  <2>4. CASE doc.id = i /\ (doc.text.body \in Blank \/ doc.hash = doc.text)
    <3>1. doc.id # 0 /\ doc.text # NoText
      BY <2>4, IdsAreNumbers, DocTypes, Missing
    <3>2. TextIsLookedAfter'
      BY <2>1, <2>4, <3>1 DEF TextIsLookedAfter, HashIsHonest
    <3>3. LevelIsLookedAfter'
      BY <1>2, <2>1, <2>4, <3>1 DEF LevelIsLookedAfter
    <3> QED
      BY <1>4, <2>1, <3>2, <3>3
  <2>5. CASE /\ doc.id = i
             /\ run' = [run EXCEPT ![w] = [id |-> i, text |-> doc.text,
                                           level |-> doc.level, held |-> TRUE]]
    <3>1. run'[w].held /\ run'[w].id = doc.id
      BY <2>5 DEF TypeOK
    <3>2. ToCome'
      BY <2>1, <3>1 DEF ToCome
    <3> QED
      BY <1>2, <1>4, <2>1, <3>2 DEF TextIsLookedAfter, LevelIsLookedAfter
  <2> QED
    BY <2>2, <2>3, <2>4, <2>5
<1>7. CASE Throw(w) \/ Stall(w)
  <2>1. /\ UNCHANGED <<doc, chunks, overtaken>>
        /\ lost' = GivenUp(run[w].id) /\ lost \subseteq lost'
    BY <1>7 DEF Throw, Stall, GivenUp, index
  <2>2. CASE run[w].id # doc.id \/ ~ run[w].held
    <3>1. doc.id # 0 => job'[doc.id] = job[doc.id]
      BY <1>7, <2>2, DocTypes DEF Throw, Stall, Retried, TypeOK
    <3>2. doc.id # 0 /\ ToCome => ToCome'
      BY <1>1, <2>1, <2>2, <3>1 DEF ToCome, Looked, At
    <3> QED
      BY <1>5, <2>1, <3>2
  <2>3. CASE run[w].id = doc.id /\ run[w].held
    <3>1. run[w].id \in Ids
      BY <2>3, HeldRuns
    <3>2. job'[run[w].id].state \in {"waiting", "failed"}
      BY <1>7, <2>3, <3>1 DEF Throw, Stall, Retried, TypeOK, Job
    <3>3. CASE job'[run[w].id].state = "waiting"
      BY <1>5, <2>1, <2>3, <3>3 DEF ToCome
    <3>4. CASE job'[run[w].id].state = "failed"
      BY <1>5, <2>1, <2>3, <3>4 DEF GivenUp
    <3> QED
      BY <3>2, <3>3, <3>4
  <2> QED
    BY <2>2, <2>3
<1> QED
  BY <1>3, <1>6, <1>7

-----------------------------------------------------------------------------
(* The document as it was queued: a job waits for it.                      *)
LEMMA InitIInv == Init => IInv
<1> SUFFICES ASSUME Init PROVE IInv
  OBVIOUS
<1>1. TypeOK
  BY InitTypes
<1>2. /\ \A q \in Requests : req[q] = Idle
      /\ \A w \in Workers : run[w] = NoRun
      /\ doc.id = 1 /\ doc.hash = NoText /\ chunks = NoChunks
      /\ faq.state \notin {"draft", "deleted"} /\ born = 1
  BY DEF Init, NoFaq, None
<1>3. job[1].state = "waiting" /\ \A i \in Ids : job[i].state # "active"
  BY BoundsAssumption DEF Init, NoJob, Ids, None
<1>4. RequestsAreSound /\ SyncsAreKnown /\ MirrorsAreKnown
  BY <1>2 DEF RequestsAreSound, SyncsAreKnown, MirrorsAreKnown, Looked, At, Idle
<1>5. JobsAreHeld /\ RunsAreKnown
  BY <1>2, <1>3 DEF JobsAreHeld, RunsAreKnown, Working, NoRun
<1>6. HashIsHonest /\ TextIsLookedAfter /\ LevelIsLookedAfter /\ MirrorIsLookedAfter
  BY <1>2, <1>3 DEF HashIsHonest, TextIsLookedAfter, LevelIsLookedAfter,
     MirrorIsLookedAfter, ToCome
<1> QED
  BY <1>1, <1>4, <1>5, <1>6 DEF IInv

(* What does not depend on the failed jobs is kept when one is pushed out. *)
LEMMA EvictKeepsIInv ==
  ASSUME IInv, NEW i \in Ids, Evict(i)
  PROVE  IInv'
<1>1. UNCHANGED <<doc, chunks, born, faq, run, req, overtaken, lost>>
  BY DEF Evict, index, history
<1>2. TypeOK' /\ JobsAreHeld'
  BY EvictKeepsJobs DEF IInv
<1>3. /\ RequestsAreSound' /\ RunsAreKnown' /\ SyncsAreKnown' /\ MirrorsAreKnown'
      /\ HashIsHonest' /\ MirrorIsLookedAfter'
  BY <1>1 DEF IInv, RequestsAreSound, RunsAreKnown, SyncsAreKnown, MirrorsAreKnown,
     HashIsHonest, MirrorIsLookedAfter, Working, Looked, At
<1>4. doc.id # 0 /\ ToCome => ToCome'
  <2>1. doc.id # 0 /\ job[doc.id].state = "waiting" => job'[doc.id].state = "waiting"
    BY DocTypes DEF Evict, Done, IInv, TypeOK
  <2> QED
    BY <1>1, <2>1 DEF ToCome, Looked, At
<1>5. TextIsLookedAfter' /\ LevelIsLookedAfter'
  BY <1>1, <1>4 DEF IInv, TextIsLookedAfter, LevelIsLookedAfter, LevelToCome, Looked, At
<1> QED
  BY <1>2, <1>3, <1>5 DEF IInv

(* The invariant is inductive.                                             *)
LEMMA NextKeepsIInv == IInv /\ [Next]_vars => IInv'
<1> SUFFICES ASSUME IInv, [Next]_vars PROVE IInv'
  OBVIOUS
<1>1. ASSUME NEW q \in Requests, Step(q) PROVE IInv'
  <2>1. TypeOK'
    BY <1>1, StepTypes DEF IInv
  <2>2. RequestsAreSound' /\ JobsAreHeld' /\ RunsAreKnown' /\ SyncsAreKnown'
    BY <1>1, <2>1, StepKeepsRequests, StepKeepsJobs, StepKeepsRuns, StepKeepsSyncs DEF IInv
  <2>3. MirrorsAreKnown' /\ MirrorIsLookedAfter' /\ HashIsHonest'
    BY <1>1, StepKeepsMirrors, StepKeepsHash DEF IInv
  <2>4. TextIsLookedAfter' /\ LevelIsLookedAfter'
    BY <1>1, <2>1, StepTends DEF IInv
  <2> QED
    BY <2>1, <2>2, <2>3, <2>4 DEF IInv
<1>2. ASSUME NEW w \in Workers, Take(w) \/ Commit(w) \/ Throw(w) \/ Stall(w) PROVE IInv'
  <2>1. TypeOK'
    BY <1>2, WorkerTypes DEF IInv
  <2>2. JobsAreHeld'
    BY <1>2, WorkerKeepsJobs DEF IInv
  <2>3. RunsAreKnown' /\ SyncsAreKnown' /\ MirrorsAreKnown' /\ RequestsAreSound' /\ HashIsHonest'
    BY <1>2, WorkerKeepsReads DEF IInv
  <2>4. TextIsLookedAfter' /\ LevelIsLookedAfter' /\ MirrorIsLookedAfter'
    BY <1>2, <2>1, WorkerTends DEF IInv
  <2> QED
    BY <2>1, <2>2, <2>3, <2>4 DEF IInv
<1>3. CASE UNCHANGED vars
  BY <1>3 DEF vars, index, queue, history, IInv, TypeOK, RequestsAreSound, JobsAreHeld,
     RunsAreKnown, SyncsAreKnown, MirrorsAreKnown, HashIsHonest, TextIsLookedAfter,
     LevelIsLookedAfter, MirrorIsLookedAfter, ToCome, LevelToCome, Working, Looked, At
<1> QED
  BY <1>1, <1>2, <1>3, EvictKeepsIInv DEF Next

(* The inductive invariant holds in every behaviour.                       *)
THEOREM Invariance == Spec => []IInv
BY InitIInv, NextKeepsIInv, PTL DEF Spec

(* Type correctness, and no chunks without a document.                     *)
THEOREM TypeCorrect == Spec => []TypeOK
<1>1. IInv => TypeOK
  BY DEF IInv
<1> QED
  BY <1>1, Invariance, PTL

(* A hash stands for the chunks there are and the body the document has,   *)
(* whatever edits, runs and stalls cross each other, unless a text was     *)
(* overtaken.                                                              *)
THEOREM HashIsHonestHolds == Spec => []HashIsHonest
<1>1. IInv => HashIsHonest
  BY DEF IInv
<1> QED
  BY <1>1, Invariance, PTL

(* When all is quiet the chunks have the document's text and level: nobody *)
(* is at work and no job waits, so neither is looked after and both must   *)
(* be right.                                                               *)
THEOREM IndexFollows == Spec => []IndexFollowsTheDocument
<1>1. IInv => IndexFollowsTheDocument
  <2> SUFFICES ASSUME IInv, Quiet, doc.text.body \notin Blank
               PROVE  /\ chunks.text = doc.text \/ "text" \in overtaken \cup lost
                      /\ chunks.level \in {doc.level, None} \/ "level" \in overtaken \cup lost
    BY DEF IndexFollowsTheDocument
  <2>1. doc.id # 0 /\ ~ ToCome /\ ~ LevelToCome
    BY DEF Quiet, ToCome, LevelToCome, Looked, At, NoRun
  <2> QED
    BY <2>1 DEF IInv, TextIsLookedAfter, LevelIsLookedAfter
<1> QED
  BY <1>1, Invariance, PTL

(* A FAQ that was taken down has no mirror once its edits are through.     *)
THEOREM PulledDownStaysSilent == Spec => []PulledDownIsSilent
<1>1. IInv => PulledDownIsSilent
  BY DEF IInv, PulledDownIsSilent, MirrorIsLookedAfter
<1> QED
  BY <1>1, Invariance, PTL
=============================================================================
