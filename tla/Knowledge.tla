----------------------------- MODULE Knowledge -----------------------------
(***************************************************************************)
(* One document of the assistant's knowledge base, and the chunks that     *)
(* retrieval hands to a visitor: staff edit the document or the FAQ it     *)
(* mirrors, a job whose id is the document's embeds the text, and one      *)
(* transaction replaces the chunks.                                        *)
(*                                                                         *)
(* A handler and a run are cut where the code awaits.  The embedder may    *)
(* refuse any run; requests die, enqueues are lost to Redis and workers    *)
(* lose their jobs, `MaxFaults` times in all.  The hash of a text is the   *)
(* text; `indexedAt`, set and cleared with it except where a reindex       *)
(* clears the hash alone, tells nothing more.                              *)
(***************************************************************************)
EXTENDS Naturals

CONSTANTS
  Requests,   \* staff requests in flight at once
  Workers,    \* slots of the ingest processor
  Titles,
  Bodies,
  Blank,      \* the bodies that hold no text
  Levels,     \* the access levels staff choose from
  Attempts,   \* AI_INGEST_ATTEMPTS
  MaxStalls,  \* how often BullMQ gives a stalled job back
  MaxWrites,  \* bound on what staff ask for
  MaxFaults   \* bound on lost enqueues, dying requests and lost jobs

AccessLevel     == {"PUBLIC", "REGISTERED", "CONTRACTED", "INTERNAL"}
KnowledgeStatus == {"DRAFT", "PUBLISHED", "ARCHIVED"}

ASSUME LevelsAssumption == Levels \subseteq AccessLevel
ASSUME BlankAssumption  == Blank \subseteq Bodies
ASSUME BoundsAssumption ==
  /\ Attempts \in Nat \ {0}
  /\ MaxStalls \in Nat /\ MaxWrites \in Nat /\ MaxFaults \in Nat

VARIABLES
  doc,        \* the KnowledgeDocument row
  chunks,     \* its KnowledgeChunk rows: the text they were cut from, their level
  faq,        \* the FaqItem it mirrors
  job,        \* the ingest job under each document's id
  run,        \* what each worker read before it asked for embeddings
  req,        \* each request's next step and what it has read
  born,       \* how many documents were made: the id of the last one
  asked,      \* how much staff asked for
  faults,
  overtaken,  \* what changed under somebody who had read it and wrote later
  lost        \* what should have been brought up to date, and was not

queue   == <<job, run>>
index   == <<doc, chunks, born>>
history == <<asked, faults, overtaken, lost>>
vars    == <<index, faq, queue, req, history>>

None == "none"
ASSUME NoneAssumption == None \notin Bodies
Text == [title : Titles, body : Bodies]
Ids  == 1 .. MaxWrites + 1  \* staff can ask for no more documents

NoText   == [title |-> None, body |-> None]
NoDoc    == [id |-> 0, text |-> NoText, level |-> None, status |-> None, hash |-> NoText]
NoChunks == [text |-> NoText, level |-> None]
NoFaq    == [state |-> None, text |-> NoText]
NoJob    == [state |-> None, tries |-> 0, stalls |-> 0]
NoRun    == [id |-> 0, text |-> NoText, level |-> None, held |-> FALSE]
Idle     == [step |-> "idle", id |-> 0, body |-> None, level |-> None, row |-> NoFaq]

(* A document was written and queued: by hand, or as the mirror of a FAQ.  *)
Init ==
  /\ \E text \in Text, level \in Levels, mirrored \in BOOLEAN :
       /\ doc = [id |-> 1, text |-> text, status |-> "PUBLISHED", hash |-> NoText,
                 level |-> IF mirrored THEN "PUBLIC" ELSE level]
       /\ faq = IF mirrored THEN [state |-> "published", text |-> text] ELSE NoFaq
       /\ text.body \notin Blank
  /\ chunks = NoChunks
  /\ job = [i \in Ids |-> IF i = 1 THEN [NoJob EXCEPT !.state = "waiting"] ELSE NoJob]
  /\ run = [w \in Workers |-> NoRun]
  /\ req = [q \in Requests |-> Idle]
  /\ born = 1 /\ asked = 0 /\ faults = 0
  /\ overtaken = {} /\ lost = {}

At(q, step) == req[q].step = step
Goto(q, step) == req' = [req EXCEPT ![q].step = step]
Finish(q) == req' = [req EXCEPT ![q] = Idle]

Starts(q) == At(q, "idle") /\ asked < MaxWrites /\ asked' = asked + 1
Fault == faults < MaxFaults /\ faults' = faults + 1

(* Somebody read the document and will write what comes of it.             *)
Embedding     == \E w \in Workers : run[w].id # 0 /\ run[w].id = doc.id
Syncing(q)    == \E p \in Requests \ {q} : At(p, "sync")
Mirroring(q)  == \E p \in Requests \ {q} : At(p, "mirror")

(* What a new text or level of the document changes under such a reader.   *)
Outdated(text, level) ==
  {f \in {"text"} : text # doc.text /\ Embedding}
    \cup {f \in {"level"} : level # doc.level
                            /\ (Embedding \/ \E p \in Requests : At(p, "sync"))}

(* The document whose step was not taken is no longer looked after.        *)
Missed(q, what) == IF req[q].id = doc.id THEN lost \cup what ELSE lost

-----------------------------------------------------------------------------
(* KnowledgeService.update: the row is read, and written later.            *)
PatchReads(q) ==
  /\ Starts(q) /\ doc.id # 0
  /\ req' = [req EXCEPT ![q].step = "patch", ![q].id = doc.id,
                        ![q].body = doc.text.body]
  /\ UNCHANGED <<index, faq, queue, faults, overtaken, lost>>

Given(new, old) == IF new = None THEN old ELSE new

\* Not the code: the level is left to the next run.
PatchWritesWithoutSync(q) ==
  /\ At(q, "patch") /\ req[q].id = doc.id
  /\ \E title \in Titles, body \in Bodies, level \in Levels :
       LET text == [title |-> title, body |-> body]
       IN  /\ doc' = [doc EXCEPT !.text = text, !.level = level,
                                 !.hash = IF body # req[q].body THEN NoText ELSE @]
           /\ overtaken' = overtaken \cup Outdated(text, level)
  /\ Goto(q, "enqueue")
  /\ UNCHANGED <<chunks, born, faq, queue, asked, faults, lost>>

(* The row as patched; a body unlike the one that was read clears the hash. *)
Patched(title, body, level, status, seen) ==
  [doc EXCEPT !.text = [title |-> title, body |-> Given(body, doc.text.body)],
              !.status = status, !.level = Given(level, @),
              !.hash = IF body # None /\ body # seen THEN NoText ELSE @]

PatchWrites(q) ==
  /\ At(q, "patch") /\ req[q].id = doc.id
  /\ \E title \in Titles, body \in Bodies \cup {None},
        level \in Levels \cup {None}, status \in {"DRAFT", "PUBLISHED"} :
       /\ doc' = Patched(title, body, level, status, req[q].body)
       /\ overtaken' = overtaken \cup Outdated(doc'.text, doc'.level)
            \cup {f \in {"text"} : body # None /\ req[q].body # doc.text.body}
       /\ Goto(q, IF level # None THEN "level" ELSE "enqueue")
  /\ UNCHANGED <<chunks, born, faq, queue, asked, faults, lost>>

PatchFails(q) ==
  /\ At(q, "patch") /\ req[q].id # doc.id
  /\ Finish(q)
  /\ UNCHANGED <<index, faq, queue, history>>

(* syncChunkAccess reads the document's level and writes it to the chunks. *)
SyncReads(q) ==
  /\ At(q, "level")
  /\ IF req[q].id = doc.id
     THEN req' = [req EXCEPT ![q].step = "sync", ![q].level = doc.level]
     ELSE Goto(q, "enqueue")
  /\ UNCHANGED <<index, faq, queue, history>>

SyncWrites(q) ==
  /\ At(q, "sync")
  /\ IF req[q].id = doc.id
     THEN /\ chunks' = IF chunks = NoChunks THEN chunks
                       ELSE [chunks EXCEPT !.level = req[q].level]
          /\ LET settled == {f \in {"level"} : req[q].level = doc.level}
             IN  /\ lost' = lost \ settled
                 /\ overtaken' = IF Embedding \/ Syncing(q) THEN overtaken
                                 ELSE overtaken \ settled
     ELSE UNCHANGED <<chunks, lost, overtaken>>
  /\ Goto(q, "enqueue")
  /\ UNCHANGED <<doc, born, faq, queue, asked, faults>>

(* IngestService.enqueue: BullMQ ignores an id it still holds, be it that  *)
(* of a job that waits, runs, or is kept because it failed.                *)
Enqueue(q) ==
  /\ At(q, "enqueue")
  /\ LET i == req[q].id
     IN  /\ job' = IF job[i].state = None
                   THEN [job EXCEPT ![i].state = "waiting"] ELSE job
         /\ lost' = IF job[i].state = "failed" THEN Missed(q, {"text", "level"})
                    ELSE lost
  /\ Finish(q)
  /\ UNCHANGED <<index, faq, run, asked, faults, overtaken>>

(* Redis is down: the error is logged and the request goes on.             *)
EnqueueIsLost(q) ==
  /\ At(q, "enqueue") /\ Fault
  /\ lost' = Missed(q, {"text", "level"})
  /\ Finish(q)
  /\ UNCHANGED <<index, faq, queue, asked, overtaken>>

\* Not the code: the chunks outlive the document.
RemoveKeepsChunks(q) ==
  /\ Starts(q) /\ doc.id # 0
  /\ doc' = NoDoc
  /\ overtaken' = overtaken \cap {"faq"} /\ lost' = lost \cap {"faq"}
  /\ UNCHANGED <<chunks, born, faq, queue, req, faults>>

(* KnowledgeService.remove: the chunks go by cascade, the job stays.       *)
Remove(q) ==
  /\ Starts(q) /\ doc.id # 0
  /\ doc' = NoDoc /\ chunks' = NoChunks
  /\ overtaken' = overtaken \cap {"faq"} /\ lost' = lost \cap {"faq"}
  /\ UNCHANGED <<born, faq, queue, req, faults>>

(* IngestService.reindex clears the hash, then queues.                     *)
Reindex(q) ==
  /\ Starts(q) /\ doc.id # 0
  /\ doc' = [doc EXCEPT !.hash = NoText]
  /\ req' = [req EXCEPT ![q].step = "enqueue", ![q].id = doc.id]
  /\ UNCHANGED <<chunks, born, faq, queue, faults, overtaken, lost>>

(* enqueuePending finds the published documents without a hash.            *)
EnqueuePending(q) ==
  /\ Starts(q) /\ doc.id # 0 /\ doc.status = "PUBLISHED" /\ doc.hash = NoText
  /\ req' = [req EXCEPT ![q].step = "enqueue", ![q].id = doc.id]
  /\ UNCHANGED <<index, faq, queue, faults, overtaken, lost>>

-----------------------------------------------------------------------------
\* Not the code: only a published FAQ is handed on.
FaqWritesPublished(q) ==
  /\ Starts(q) /\ faq.state \in {"draft", "published"}
  /\ \E state \in {"draft", "published", "deleted"}, text \in Text :
       faq' = [state |-> state, text |-> text]
  /\ req' = IF faq'.state = "published"
            THEN [req EXCEPT ![q].step = "mirror", ![q].row = faq'] ELSE req
  /\ overtaken' = IF Mirroring(q) THEN overtaken \cup {"faq"} ELSE overtaken
  /\ UNCHANGED <<index, queue, faults, lost>>

(* FaqService.update and remove: the FAQ's row is written, and handed to   *)
(* the mirror as it was then.                                              *)
FaqWrites(q) ==
  /\ Starts(q) /\ faq.state \in {"draft", "published"}
  /\ \E state \in {"draft", "published", "deleted"}, text \in Text :
       faq' = [state |-> state, text |-> text]
  /\ req' = [req EXCEPT ![q].step = "mirror", ![q].row = faq']
  /\ overtaken' = IF Mirroring(q) THEN overtaken \cup {"faq"} ELSE overtaken
  /\ UNCHANGED <<index, queue, faults, lost>>

(* The mirror has caught up with the FAQ, unless another is on its way.    *)
CaughtUp(q) == {f \in {"faq"} : req[q].row = faq /\ ~ Mirroring(q)}

(* ContentSyncService.mirror: the document of this sourceRef is updated,   *)
(* or a new one made; its hash is cleared either way.                      *)
Mirror(q) ==
  /\ At(q, "mirror")
  /\ LET row == req[q].row
         i   == IF doc.id = 0 THEN born + 1 ELSE doc.id
     IN  /\ row.state = "published" /\ row.text.body \notin Blank
         /\ i \in Ids
         /\ doc' = [id |-> i, text |-> row.text, level |-> "PUBLIC",
                    status |-> "PUBLISHED", hash |-> NoText]
         /\ born' = IF doc.id = 0 THEN i ELSE born
         /\ req' = [req EXCEPT ![q].step = "enqueue", ![q].id = i, ![q].row = NoFaq]
         /\ overtaken' = (overtaken \ CaughtUp(q))
              \cup IF doc.id = 0 THEN {} ELSE Outdated(row.text, "PUBLIC")
  /\ lost' = lost \ CaughtUp(q)
  /\ UNCHANGED <<chunks, faq, queue, asked, faults>>

(* An unpublished, deleted or blank FAQ has no mirror.                     *)
Unmirror(q) ==
  /\ At(q, "mirror")
  /\ req[q].row.state = "published" => req[q].row.text.body \in Blank
  /\ doc' = NoDoc /\ chunks' = NoChunks
  /\ overtaken' = (overtaken \cap {"faq"}) \ CaughtUp(q)
  /\ lost' = (lost \cap {"faq"}) \ CaughtUp(q)
  /\ Finish(q)
  /\ UNCHANGED <<born, faq, queue, asked, faults>>

(* The database refuses: the error is logged, the FAQ stays as edited.     *)
MirrorFails(q) ==
  /\ At(q, "mirror") /\ Fault
  /\ lost' = lost \cup {"faq"}
  /\ Finish(q)
  /\ UNCHANGED <<index, faq, queue, asked, overtaken>>

(* The process stops between two awaits of a request.                      *)
Dies(q) ==
  /\ req[q].step \notin {"idle", "mirror"} /\ Fault
  /\ lost' = IF At(q, "patch") THEN lost ELSE Missed(q, {"text", "level"})
  /\ Finish(q)
  /\ UNCHANGED <<index, faq, queue, asked, overtaken>>

-----------------------------------------------------------------------------
Retried(i) ==
  IF job[i].tries + 1 < Attempts
  THEN [job EXCEPT ![i].state = "waiting", ![i].tries = @ + 1]
  ELSE [job EXCEPT ![i].state = "failed"]

Done(i) == [job EXCEPT ![i] = NoJob]

(* What nobody will bring up to date once the job has failed for good.     *)
GivenUp(i) ==
  IF i = doc.id /\ job'[i].state = "failed" THEN lost \cup {"text", "level"} ELSE lost

(* IngestService.execute reads the document.  One that is gone fails the   *)
(* job; one without text, or whose hash is that of its text, needs no run. *)
(* A job that is taken and has not read is as one that waits.              *)
Take(w) ==
  /\ run[w] = NoRun
  /\ \E i \in Ids :
       /\ job[i].state = "waiting"
       /\ \/ /\ doc.id # i
             /\ job' = Retried(i)
             /\ UNCHANGED <<run, lost>>
          \/ /\ doc.id = i /\ (doc.text.body \in Blank \/ doc.hash = doc.text)
             /\ job' = Done(i)
             /\ lost' = lost \ {"text"}
             /\ UNCHANGED run
          \/ /\ doc.id = i /\ doc.text.body \notin Blank /\ doc.hash # doc.text
             /\ job' = [job EXCEPT ![i].state = "active"]
             /\ run' = [run EXCEPT ![w] = [id |-> i, text |-> doc.text,
                                           level |-> doc.level, held |-> TRUE]]
             /\ lost' = lost \ {"text"}
  /\ UNCHANGED <<index, faq, req, asked, faults, overtaken>>

\* Not the code: the hash is written after the chunks were dropped, and the
\* worker may stop before the new ones are in.
CommitInTwo(w) ==
  /\ run[w].id # 0 /\ run[w].id = doc.id
  /\ \/ chunks' = [text |-> run[w].text, level |-> run[w].level] /\ UNCHANGED faults
     \/ chunks' = NoChunks /\ Fault
  /\ doc' = [doc EXCEPT !.hash = run[w].text]
  /\ run' = [run EXCEPT ![w] = NoRun]
  /\ job' = IF run[w].held THEN Done(doc.id) ELSE job
  /\ UNCHANGED <<born, faq, req, asked, overtaken, lost>>

(* replaceChunks: the embeddings have come; old chunks, new chunks and the *)
(* hash are one transaction.                                               *)
Commit(w) ==
  /\ run[w].id # 0 /\ run[w].id = doc.id
  /\ chunks' = [text |-> run[w].text, level |-> run[w].level]
  /\ doc' = [doc EXCEPT !.hash = run[w].text]
  /\ run' = [run EXCEPT ![w] = NoRun]
  /\ job' = IF run[w].held THEN Done(doc.id) ELSE job
  /\ LET settled == {f \in {"text"} : run[w].text = doc.text}
                      \cup {f \in {"level"} : run[w].level = doc.level}
         others  == \E v \in Workers \ {w} : run[v].id = doc.id
     IN  /\ lost' = lost \ (settled \ {"text"})
         /\ overtaken' = IF others THEN overtaken
                         ELSE overtaken \ {f \in settled :
                           f = "level" => \A p \in Requests : ~ At(p, "sync")}
  /\ UNCHANGED <<born, faq, req, asked, faults>>

(* The embedder refuses, or the document has gone: the error is recorded   *)
(* and thrown on, and BullMQ tries again.                                  *)
Throw(w) ==
  /\ run[w].id # 0
  /\ run' = [run EXCEPT ![w] = NoRun]
  /\ job' = IF run[w].held THEN Retried(run[w].id) ELSE job
  /\ lost' = GivenUp(run[w].id)
  /\ UNCHANGED <<index, faq, req, asked, faults, overtaken>>

(* The job's lock is lost, with the worker or although it still runs.      *)
Stall(w) ==
  /\ run[w].held /\ Fault
  /\ \E r \in {NoRun, [run[w] EXCEPT !.held = FALSE]} :
       run' = [run EXCEPT ![w] = r]
  /\ LET i == run[w].id
     IN  /\ job' = IF job[i].stalls < MaxStalls
                   THEN [job EXCEPT ![i].state = "waiting", ![i].stalls = @ + 1]
                   ELSE [job EXCEPT ![i].state = "failed"]
         /\ lost' = GivenUp(i)
  /\ UNCHANGED <<index, faq, req, asked, overtaken>>

(* removeOnFail: fifty later failures push a failed job out.               *)
Evict(i) ==
  /\ job[i].state = "failed"
  /\ job' = Done(i)
  /\ UNCHANGED <<index, faq, run, req, history>>

-----------------------------------------------------------------------------
Step(q) ==
  \/ PatchReads(q) \/ PatchWrites(q) \/ PatchFails(q)
  \/ SyncReads(q) \/ SyncWrites(q) \/ Enqueue(q) \/ EnqueueIsLost(q)
  \/ Remove(q) \/ Reindex(q) \/ EnqueuePending(q)
  \/ FaqWrites(q) \/ Mirror(q) \/ Unmirror(q) \/ MirrorFails(q) \/ Dies(q)

Next ==
  \/ \E q \in Requests : Step(q)
  \/ \E w \in Workers : Take(w) \/ Commit(w) \/ Throw(w) \/ Stall(w)
  \/ \E i \in Ids : Evict(i)

Spec == Init /\ [][Next]_vars

-----------------------------------------------------------------------------
Fields == {"text", "level", "faq"}

KnowledgeDocument == [id : Ids, text : Text, level : AccessLevel,
                      status : KnowledgeStatus, hash : Text \cup {NoText}]
KnowledgeChunk == [text : Text, level : AccessLevel]
FaqItem == [state : {"draft", "published", "deleted"}, text : Text]
Job == [state : {None, "waiting", "active", "failed"},
        tries : 0 .. Attempts - 1, stalls : 0 .. MaxStalls]
Run == [id : Ids, text : Text, level : AccessLevel, held : BOOLEAN]
Request == [step : {"idle", "patch", "level", "sync", "enqueue", "mirror"},
            id : {0} \cup Ids, body : Bodies \cup {None},
            level : AccessLevel \cup {None}, row : FaqItem \cup {NoFaq}]

(* Types; only a document that is there has chunks.                        *)
TypeOK ==
  /\ doc \in KnowledgeDocument \cup {NoDoc}
  /\ chunks \in KnowledgeChunk \cup {NoChunks}
  /\ doc = NoDoc => chunks = NoChunks
  /\ faq \in FaqItem \cup {NoFaq}
  /\ job \in [Ids -> Job]
  /\ run \in [Workers -> Run \cup {NoRun}]
  /\ req \in [Requests -> Request]
  /\ born \in Ids /\ doc.id <= born
  /\ asked \in 0 .. MaxWrites /\ faults \in 0 .. MaxFaults
  /\ overtaken \subseteq Fields /\ lost \subseteq Fields

(* "Every chunk write is one transaction", and "a document whose text      *)
(* changed is marked un-indexed": a hash is that of the text the chunks    *)
(* were cut from, and the document still has that body -- unless it was    *)
(* edited while a run had read it, or over an edit the editor had not seen.*)
HashIsHonest ==
  doc.hash # NoText =>
    /\ chunks.text = doc.hash
    /\ doc.hash.body = doc.text.body \/ "text" \in overtaken

(* Nobody is at work on the document, and no job for it is to come.        *)
Quiet ==
  /\ \A q \in Requests : At(q, "idle")
  /\ \A w \in Workers : run[w] = NoRun
  /\ doc.id # 0 /\ job[doc.id].state \notin {"waiting", "active"}

(* "An access level moved on the document has to move on its chunks too":  *)
(* when all is quiet, the chunks have the document's text and level,       *)
(* unless an edit overtook a run or another edit, or a step was lost.      *)
(* (A document emptied by its editor keeps the chunks it had.)             *)
IndexFollowsTheDocument ==
  Quiet /\ doc.text.body \notin Blank =>
    /\ chunks.text = doc.text \/ "text" \in overtaken \cup lost
    /\ chunks.level \in {doc.level, None} \/ "level" \in overtaken \cup lost

(* "An article the office pulled down must stop being quoted": a FAQ that  *)
(* is not published has no mirror once its edits are through, unless two   *)
(* of them overtook each other or one was lost.                            *)
PulledDownIsSilent ==
  /\ faq.state \in {"draft", "deleted"}
  /\ \A q \in Requests : ~ At(q, "mirror")
  => doc = NoDoc \/ "faq" \in overtaken \cup lost
=============================================================================
