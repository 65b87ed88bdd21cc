------------------------------- MODULE Facebook -------------------------------
(***************************************************************************)
(* One Messenger thread.  The intake stores what the contact writes and    *)
(* asks for a reply; a reply job runs a turn of the assistant, which reads *)
(* everything nobody has answered, thinks, looks whether a person has      *)
(* taken the thread meanwhile, answers and looks whether more has come.    *)
(* The thread has two reply jobs, `main' and, beside a running one,        *)
(* `next'; their turns run one after another.                              *)
(*                                                                         *)
(* Rows are ordered by createdAt, which is Meta's time for what the        *)
(* contact writes and the time of the insert for what we write: `log' is   *)
(* in that order, and a message is in it before the intake has stored it.  *)
(***************************************************************************)
EXTENDS Naturals, Sequences, FiniteSets

CONSTANTS
  MaxLog,      \* bound on the messages of the thread, of all sides
  MaxWritten,  \* bound on the contact's
  MaxTakes,    \* bound on how often a person takes the thread
  Attempts,    \* attempts of a reply job
  MaxFaults    \* bound on the faults of a behaviour

ASSUME BoundAssumption ==
  /\ {MaxLog, MaxWritten, MaxTakes, Attempts, MaxFaults} \subseteq Nat
  /\ Attempts > 0

VARIABLES
  log,         \* the messages in the order of their createdAt
  needsStaff,  \* FacebookThread.needsStaff
  paused,      \* aiPausedUntil ahead, or aiMode OFF
  job,         \* the reply jobs under the thread's two ids
  chain,       \* inFlight: the running jobs, the first one's turn going on
  intake,      \* the message the inbound queue's only worker is at
  turn,        \* the turn of the chain's first job
  staff,       \* a person's message is out, and the pause not yet set
  takenAt,     \* the messages there were when a person last had the thread
  takes,       \* how often a person took it
  told,        \* how often a message was in the question of a sent answer
  barred,      \* the pause was set before the turn had passed its check
  over,        \* an answer of such a turn was sent
  crowded,     \* a job was refused because both ids' were running
  faults       \* faults so far

ghosts == <<takenAt, takes, told, barred, over, crowded, faults>>
vars   == <<log, needsStaff, paused, job, chain, intake, turn, staff, ghosts>>

JobIds   == {"main", "next"}
NoJob    == [at |-> "none", tries |-> 0]
AtRest   == [step |-> "idle", at |-> 0, answers |-> FALSE, id |-> "main"]
NoTurn   == [step |-> "idle", started |-> 0, asked |-> {}, sent |-> FALSE, id |-> "main"]

Init ==
  /\ log = <<>>
  /\ needsStaff = FALSE /\ paused = FALSE
  /\ job = [j \in JobIds |-> NoJob]
  /\ chain = <<>>
  /\ intake = AtRest /\ turn = NoTurn /\ staff = FALSE
  /\ takenAt = 0 /\ takes = 0
  /\ told = [m \in 1 .. MaxLog |-> 0]
  /\ barred = FALSE /\ over = FALSE /\ crowded = FALSE /\ faults = 0

Written == {m \in DOMAIN log : log[m].by = "CONTACT"}
Stored  == {m \in Written : log[m].stored}
Fault   == faults < MaxFaults /\ faults' = faults + 1
Row(by) == [by |-> by, stored |-> TRUE, words |-> TRUE]

-----------------------------------------------------------------------------
(* Variants of the definitions below, each with a fault a careless edit    *)
(* could introduce; the properties are tried against them.                 *)

OneIdOnly == "main"

UnansweredByStaff ==
  {m \in Stored : \A a \in DOMAIN log : a > m => log[a].by # "STAFF"}

ChecksNothing ==
  /\ turn.step = "check"
  /\ turn' = [turn EXCEPT !.step = "send"]
  /\ UNCHANGED <<log, needsStaff, paused, job, chain, intake, staff, ghosts>>

QueueAgain(id) == job' = [job EXCEPT ![id].at = "waiting"] /\ UNCHANGED crowded

-----------------------------------------------------------------------------
(* unanswered: what the contact has written since anybody last did.        *)
Unanswered ==
  {m \in Stored : \A a \in DOMAIN log : a > m => log[a].by = "CONTACT"}

(* queueReply looks first whether the thread's own job is running ...      *)
IdToQueue == IF job["main"].at = "active" THEN "next" ELSE "main"

(* ... then adds the job, which is ignored while there is one by that id.  *)
Queue(id) ==
  /\ job' = IF job[id].at = "none" THEN [job EXCEPT ![id].at = "waiting"] ELSE job
  /\ crowded' = (crowded \/ (id = "next" /\ job[id].at = "active"))

(* The contact writes; the words may be missing (a photo).                 *)
Writes ==
  /\ Len(log) < MaxLog /\ Cardinality(Written) < MaxWritten
  /\ \E words \in BOOLEAN :
       log' = Append(log, [by |-> "CONTACT", stored |-> FALSE, words |-> words])
  /\ UNCHANGED <<needsStaff, paused, job, chain, intake, turn, staff, ghosts>>

(* inbound reads the thread.  Messages come in Meta's order, but for one   *)
(* that is tried again.                                                    *)
IntakeReads ==
  /\ intake = AtRest
  /\ \E m \in Written \ Stored :
       /\ faults > 0 \/ \A k \in Written \ Stored : m <= k
       /\ intake' = [AtRest EXCEPT !.step = "insert", !.at = m,
                                   !.answers = log[m].words /\ ~ paused]
  /\ UNCHANGED <<log, needsStaff, paused, job, chain, turn, staff, ghosts>>

IntakeStores ==
  /\ intake.step = "insert"
  /\ log' = [log EXCEPT ![intake.at].stored = TRUE]
  /\ intake' = [intake EXCEPT !.step = "update"]
  /\ UNCHANGED <<needsStaff, paused, job, chain, turn, staff, ghosts>>

IntakeUpdates ==
  /\ intake.step = "update"
  /\ needsStaff' = ~ intake.answers
  /\ intake' = IF intake.answers THEN [intake EXCEPT !.step = "look"] ELSE AtRest
  /\ UNCHANGED <<log, paused, job, chain, turn, staff, ghosts>>

IntakeLooks ==
  /\ intake.step = "look"
  /\ intake' = [intake EXCEPT !.step = "add", !.id = IdToQueue]
  /\ UNCHANGED <<log, needsStaff, paused, job, chain, turn, staff, ghosts>>

IntakeQueues ==
  /\ intake.step = "add"
  /\ Queue(intake.id)
  /\ intake' = AtRest
  /\ UNCHANGED <<log, needsStaff, paused, chain, turn, staff,
                 takenAt, takes, told, barred, over, faults>>

(* A statement fails.  The entry is tried again, but a message that was    *)
(* stored is then taken for a duplicate and left alone.                    *)
IntakeFails ==
  /\ intake # AtRest
  /\ intake' = AtRest
  /\ Fault
  /\ UNCHANGED <<log, needsStaff, paused, job, chain, turn, staff,
                 takenAt, takes, told, barred, over, crowded>>

-----------------------------------------------------------------------------
Bars == barred' = (turn.step \in {"gather", "think", "check"})

(* A person writes from the inbox or Business Suite: first the row ...     *)
StaffWrites ==
  /\ Len(log) < MaxLog /\ takes < MaxTakes
  /\ ~ staff /\ staff' = TRUE
  /\ log' = Append(log, Row("STAFF"))
  /\ takes' = takes + 1
  /\ UNCHANGED <<needsStaff, paused, job, chain, intake, turn,
                 takenAt, told, barred, over, crowded, faults>>

(* ... then the pause.                                                     *)
StaffTakes ==
  /\ staff /\ staff' = FALSE
  /\ needsStaff' = FALSE
  /\ paused' = TRUE /\ Bars
  /\ UNCHANGED <<log, job, chain, intake, turn, takenAt, takes, told, over, crowded, faults>>

(* setAi: the assistant is switched off for the thread.                    *)
SwitchOff ==
  /\ takes < MaxTakes /\ ~ paused
  /\ paused' = TRUE /\ Bars
  /\ takes' = takes + 1
  /\ UNCHANGED <<log, needsStaff, job, chain, intake, turn, staff,
                 takenAt, told, over, crowded, faults>>

(* The pause runs out, or is lifted.                                       *)
PauseEnds ==
  /\ paused /\ paused' = FALSE
  /\ takenAt' = Len(log)
  /\ UNCHANGED <<log, needsStaff, job, chain, intake, turn, staff,
                 takes, told, barred, over, crowded, faults>>

-----------------------------------------------------------------------------
(* A worker takes the job, whose turn comes after those going on.          *)
Take(j) ==
  /\ job[j].at = "waiting"
  /\ job' = [job EXCEPT ![j].at = "active"]
  /\ chain' = Append(chain, j)
  /\ UNCHANGED <<log, needsStaff, paused, intake, turn, staff, ghosts>>

TurnEnds == turn' = NoTurn /\ chain' = Tail(chain)
Turns(step) == turn' = [turn EXCEPT !.step = step] /\ UNCHANGED chain

(* reply notes the time and reads the thread ...                           *)
TurnReads ==
  /\ turn = NoTurn /\ chain # <<>>
  /\ IF paused THEN TurnEnds
     ELSE /\ turn' = [NoTurn EXCEPT !.step = "gather", !.started = Len(log)]
          /\ UNCHANGED chain
  /\ UNCHANGED <<log, needsStaff, paused, job, intake, staff, ghosts>>

(* ... and the messages.  Without words, or out of Meta's 24 hours, it is  *)
(* a person's job.                                                         *)
TurnGathers ==
  /\ turn.step = "gather"
  /\ \/ Unanswered = {} /\ TurnEnds
     \/ Unanswered # {} /\ Turns("flag")
     \/ /\ \E m \in Unanswered : log[m].words
        /\ turn' = [turn EXCEPT !.step = "think", !.asked = Unanswered]
        /\ UNCHANGED chain
  /\ UNCHANGED <<log, needsStaff, paused, job, intake, staff, ghosts>>

(* The model answers, or does not; or the day's budget is spent, and the   *)
(* reply is asked for again when there is a new one.                       *)
TurnThinks ==
  /\ turn.step = "think"
  /\ Turns("check") \/ Turns("flag") \/ Turns("later")
  /\ UNCHANGED <<log, needsStaff, paused, job, intake, staff, ghosts>>

TurnFlags ==
  /\ turn.step \in {"flag", "later"}
  /\ needsStaff' = TRUE
  /\ IF turn.step = "flag" THEN TurnEnds ELSE Turns("look")
  /\ UNCHANGED <<log, paused, job, intake, staff, ghosts>>

(* Has a person stepped in?                                                *)
TurnChecks ==
  /\ turn.step = "check"
  /\ IF paused THEN TurnEnds ELSE Turns("send")
  /\ UNCHANGED <<log, needsStaff, paused, job, intake, staff, ghosts>>

(* deliver: Meta takes the answer, or refuses it ...                       *)
TurnSends ==
  /\ turn.step = "send" /\ Len(log) < MaxLog
  /\ \/ /\ turn' = [turn EXCEPT !.step = "record", !.sent = TRUE]
        /\ told' = [m \in DOMAIN told |-> told[m] + IF m \in turn.asked THEN 1 ELSE 0]
        /\ over' = (over \/ (paused /\ barred))
     \/ turn' = [turn EXCEPT !.step = "settle"] /\ UNCHANGED <<told, over>>
  /\ UNCHANGED <<log, needsStaff, paused, job, chain, intake, staff,
                 takenAt, takes, barred, crowded, faults>>

(* ... and the row dates from after it.                                    *)
TurnRecords ==
  /\ turn.step = "record" /\ Len(log) < MaxLog
  /\ log' = Append(log, Row("AI"))
  /\ Turns("settle")
  /\ UNCHANGED <<needsStaff, paused, job, intake, staff, ghosts>>

TurnSettles ==
  /\ turn.step = "settle"
  /\ needsStaff' = ~ turn.sent
  /\ Turns("again")
  /\ UNCHANGED <<log, paused, job, intake, staff, ghosts>>

(* What arrived during the turn is to have a turn of its own.              *)
TurnAsksAgain ==
  /\ turn.step = "again"
  /\ IF \E m \in Stored : m > turn.started THEN Turns("look") ELSE TurnEnds
  /\ UNCHANGED <<log, needsStaff, paused, job, intake, staff, ghosts>>

TurnLooks ==
  /\ turn.step = "look"
  /\ turn' = [turn EXCEPT !.step = "add", !.id = IdToQueue]
  /\ UNCHANGED <<log, needsStaff, paused, job, chain, intake, staff, ghosts>>

TurnQueues ==
  /\ turn.step = "add"
  /\ Queue(turn.id)
  /\ TurnEnds
  /\ UNCHANGED <<log, needsStaff, paused, intake, staff, takenAt, takes, told, barred, over, faults>>

Turn ==
  \/ TurnReads \/ TurnGathers \/ TurnThinks \/ TurnFlags \/ TurnChecks \/ TurnSends
  \/ TurnRecords \/ TurnSettles \/ TurnAsksAgain \/ TurnLooks \/ TurnQueues

(* The queue removes a job whose turn is over ...                          *)
Done(j) ==
  /\ job[j].at = "active"
  /\ \A k \in DOMAIN chain : chain[k] # j
  /\ job' = [job EXCEPT ![j] = NoJob]
  /\ UNCHANGED <<log, needsStaff, paused, chain, intake, turn, staff, ghosts>>

(* ... tries one again that threw, unless it has had its attempts ...      *)
TurnFails ==
  /\ turn # NoTurn
  /\ LET j == Head(chain)
     IN  job' = [job EXCEPT ![j] = IF @.tries + 1 < Attempts
                                   THEN [at |-> "waiting", tries |-> @.tries + 1] ELSE NoJob]
  /\ TurnEnds
  /\ Fault
  /\ UNCHANGED <<log, needsStaff, paused, intake, staff, takenAt, takes, told, barred, over, crowded>>

(* ... and gives back those that were running when the process died.       *)
Restart ==
  /\ job' = [j \in JobIds |-> IF job[j].at = "active" THEN [job[j] EXCEPT !.at = "waiting"]
                                                     ELSE job[j]]
  /\ chain' = <<>> /\ turn' = NoTurn /\ intake' = AtRest
  /\ Fault
  /\ UNCHANGED <<log, needsStaff, paused, staff, takenAt, takes, told, barred, over, crowded>>

Next ==
  \/ Writes
  \/ IntakeReads \/ IntakeStores \/ IntakeUpdates \/ IntakeLooks \/ IntakeQueues \/ IntakeFails
  \/ StaffWrites \/ StaffTakes \/ SwitchOff \/ PauseEnds
  \/ \E j \in JobIds : Take(j) \/ Done(j)
  \/ Turn \/ TurnFails \/ Restart

Spec == Init /\ [][Next]_vars

-----------------------------------------------------------------------------
Message  == [by : {"CONTACT", "AI", "STAFF"}, stored : BOOLEAN, words : BOOLEAN]
ReplyJob == [at : {"none", "waiting", "active"}, tries : 0 .. Attempts]
Taking   == [step : {"idle", "insert", "update", "look", "add"}, at : 0 .. MaxLog,
             answers : BOOLEAN, id : JobIds]
Turning  == [step : {"idle", "gather", "think", "flag", "later", "check", "send", "record",
                     "settle", "again", "look", "add"},
             started : 0 .. MaxLog, asked : SUBSET (1 .. MaxLog), sent : BOOLEAN, id : JobIds]

(* Types; a job is in the chain of turns at most once, and then active; a  *)
(* turn runs only for the head of the chain and asks what was stored.      *)
TypeOK ==
  /\ log \in Seq(Message) /\ Len(log) <= MaxLog
  /\ {needsStaff, paused, staff, barred, over, crowded} \subseteq BOOLEAN
  /\ job \in [JobIds -> ReplyJob]
  /\ chain \in Seq(JobIds)
  /\ \A i, k \in DOMAIN chain : chain[i] = chain[k] => i = k
  /\ \A k \in DOMAIN chain : job[chain[k]].at = "active"
  /\ intake \in Taking /\ (intake # AtRest => intake.at \in Written)
  /\ turn \in Turning /\ (turn # NoTurn => chain # <<>>)
  /\ turn.started <= Len(log) /\ turn.asked \subseteq Stored
  /\ takenAt \in 0 .. MaxLog /\ takes \in 0 .. MaxTakes
  /\ told \in [1 .. MaxLog -> Nat] /\ faults \in 0 .. MaxFaults

(* No message is answered twice, although a turn reads its question long   *)
(* before its answer counts and two jobs of the thread may run at once.    *)
AnsweredOnce == \A m \in Written : told[m] <= 1 + faults

(* "Theirs stands": once a person has taken the thread no answer is sent   *)
(* but one that had passed its check by then, however long the model has   *)
(* been thinking.                                                          *)
QuietWhileTaken == ~ over

(* No person is at the thread and nothing is queued for it.                *)
AllQuiet ==
  /\ ~ paused
  /\ Stored = Written /\ intake = AtRest /\ turn = NoTurn /\ ~ staff
  /\ \A j \in JobIds : job[j].at = "none"

Overlooked == {m \in Stored : told[m] = 0 /\ m > takenAt}

(* "Anything that arrived while this turn ran was not part of its          *)
(* question ... Ask again": when all is quiet and nobody is called, a      *)
(* message is only overlooked behind an answer that was dated after it, or *)
(* when both jobs were running as it asked for one, or after a fault.      *)
OverlookedBehindAnAnswer ==
  AllQuiet /\ ~ needsStaff /\ ~ crowded /\ faults = 0 =>
    \A m \in Overlooked : \E a \in DOMAIN log : a > m /\ log[a].by # "CONTACT"
===============================================================================
