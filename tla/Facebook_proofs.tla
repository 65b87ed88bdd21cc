--------------------------- MODULE Facebook_proofs ---------------------------
(***************************************************************************)
(* Proofs about a Messenger thread, for any bounds on its messages, on     *)
(* how often a person takes it, on attempts and on faults.                 *)
(***************************************************************************)
EXTENDS Facebook, SequenceTheorems, TLAPS

(* Somebody wrote after the message.                                       *)
Answered(m) == \E a \in DOMAIN log : a > m /\ log[a].by # "CONTACT"

(* A message was told, or may be: a turn that has it in its question has   *)
(* not sent yet, or a later turn may read it, as long as no answer is, or  *)
(* is about to be, behind it.                                              *)
Asking(m)    == turn.step \in {"think", "check", "send"} /\ m \in turn.asked
MayBeTold(m) == Asking(m) \/ (~ Answered(m) /\ ~ (turn.step = "record" /\ m \in turn.asked))
ToldOnce     == \A m \in 1 .. MaxLog :
                  told[m] + (IF MayBeTold(m) THEN 1 ELSE 0) <= 1 + faults

(* A turn that may still send was not barred by the pause that is on.      *)
PassedInTime == turn.step = "send" /\ paused => ~ barred

(* What a turn knows of its answer.                                        *)
SentInTurn ==
  /\ turn.sent => turn.step \in {"record", "settle", "again", "look", "add"}
  /\ turn.step = "settle" /\ turn.sent =>
       \E a \in DOMAIN log : a > turn.started /\ log[a].by # "CONTACT"

(* Who will see to a message that nobody has answered: a person who has    *)
(* the thread or is called, the intake that is at work or has the message  *)
(* before it, a reply job, or the turn that is going on.                   *)
WillAdd(id) == id = "next" \/ job["main"].at # "active"
PersonWill  == paused \/ staff \/ needsStaff
IntakeWill  == intake.step \in {"update", "look"} \/ (intake.step = "add" /\ WillAdd(intake.id))
JobWill     == (\E j \in JobIds : job[j].at = "waiting") \/ Len(chain) > 1
                                                        \/ (turn = NoTurn /\ chain # <<>>)
TurnWill(m) ==
  \/ turn.step \in {"gather", "flag", "later", "look"}
  \/ turn.step = "add" /\ WillAdd(turn.id)
  \/ Asking(m)
  \/ turn.step = "settle" /\ ~ turn.sent
  \/ turn.step \in {"settle", "again"} /\ m > turn.started
WillSee(m) == PersonWill \/ IntakeWill \/ JobWill \/ TurnWill(m)
Waits(m)   == told[m] = 0 /\ m > takenAt /\ ~ Answered(m)

NoneOverlooked ==
  faults = 0 /\ ~ crowded => \A m \in Stored : Waits(m) => WillSee(m)

IInv == TypeOK /\ ToldOnce /\ PassedInTime /\ SentInTurn /\ NoneOverlooked /\ ~ over

-----------------------------------------------------------------------------
(* The steps by who takes them.                                            *)
IntakeStep == IntakeReads \/ IntakeStores \/ IntakeUpdates \/ IntakeLooks \/ IntakeQueues \/ IntakeFails
StaffStep  == StaffWrites \/ StaffTakes \/ SwitchOff \/ PauseEnds
QueueStep  == \E j \in JobIds : Take(j) \/ Done(j)

(* Every step is one of theirs.                                            *)
LEMMA StepsByActor ==
  Next <=> Writes \/ IntakeStep \/ StaffStep \/ QueueStep \/ Turn \/ TurnFails \/ Restart
BY DEF Next, IntakeStep, StaffStep, QueueStep

(* The log only grows, a message is stored for good, and so is an answer.  *)
LEMMA LogGrows ==
  ASSUME TypeOK, Next
  PROVE  /\ log' \in Seq(Message) /\ Len(log') <= MaxLog
         /\ Len(log) \in Nat /\ Len(log') \in Nat /\ Len(log) <= Len(log')
         /\ \A i \in 1 .. Len(log) : log'[i].by = log[i].by /\ (log[i].stored => log'[i].stored)
<1>1. log \in Seq(Message) /\ Len(log) <= MaxLog /\ Len(log) \in Nat
  BY LenProperties DEF TypeOK
<1>2. ASSUME NEW row \in Message, Len(log) < MaxLog, log' = Append(log, row)
      PROVE  /\ log' \in Seq(Message) /\ Len(log') <= MaxLog
             /\ Len(log') \in Nat /\ Len(log) <= Len(log')
             /\ \A i \in 1 .. Len(log) : log'[i] = log[i]
  <2>1. /\ log' \in Seq(Message) /\ Len(log') = Len(log) + 1
        /\ \A i \in 1 .. Len(log) : log'[i] = log[i]
    BY <1>1, <1>2, AppendProperties
  <2> QED
    BY <1>1, <1>2, <2>1, BoundAssumption
<1>3. CASE Writes
  <2>1. PICK words \in BOOLEAN :
          log' = Append(log, [by |-> "CONTACT", stored |-> FALSE, words |-> words])
    BY <1>3 DEF Writes
  <2>2. [by |-> "CONTACT", stored |-> FALSE, words |-> words] \in Message
    BY DEF Message
  <2>3. Len(log) < MaxLog
    BY <1>3 DEF Writes
  <2> QED
    BY <1>1, <1>2, <2>1, <2>2, <2>3
<1>4. CASE StaffWrites \/ TurnRecords
  <2>1. Row("STAFF") \in Message /\ Row("AI") \in Message
    BY DEF Row, Message
  <2>2. Len(log) < MaxLog /\ (log' = Append(log, Row("STAFF")) \/ log' = Append(log, Row("AI")))
    BY <1>4 DEF StaffWrites, TurnRecords
  <2> QED
    BY <1>1, <1>2, <2>1, <2>2
<1>5. CASE IntakeStores
  <2>1. intake.at \in 1 .. Len(log)
    <3>1. intake # AtRest
      BY <1>5 DEF IntakeStores, AtRest
    <3> QED
      BY <1>1, <3>1, LenProperties DEF TypeOK, Written
  <2>2. log' = [log EXCEPT ![intake.at].stored = TRUE]
    BY <1>5 DEF IntakeStores
  <2>3. log \in [1 .. Len(log) -> Message]
    BY <1>1, LenProperties
  <2>4. log' \in [1 .. Len(log) -> Message]
        /\ \A i \in 1 .. Len(log) : log'[i].by = log[i].by /\ (log[i].stored => log'[i].stored)
    BY <2>1, <2>2, <2>3 DEF Message
  <2>5. log' \in Seq(Message) /\ Len(log') = Len(log)
    BY <1>1, <2>4
  <2> QED
    BY <1>1, <2>4, <2>5
<1>6. CASE log' = log
  BY <1>1, <1>6
<1>7. Writes \/ StaffWrites \/ TurnRecords \/ IntakeStores \/ log' = log
  <2>1. Turn => TurnRecords \/ log' = log
    BY DEF Turn, TurnReads, TurnGathers, TurnThinks, TurnFlags, TurnChecks, TurnSends, TurnSettles,
       TurnAsksAgain, TurnLooks, TurnQueues
  <2>2. IntakeStep => IntakeStores \/ log' = log
    BY DEF IntakeStep, IntakeReads, IntakeUpdates, IntakeLooks, IntakeQueues, IntakeFails
  <2>3. StaffStep => StaffWrites \/ log' = log
    BY DEF StaffStep, StaffTakes, SwitchOff, PauseEnds
  <2>4. QueueStep \/ TurnFails \/ Restart => log' = log
    BY DEF QueueStep, Take, Done, TurnFails, Restart
  <2> QED
    BY <2>1, <2>2, <2>3, <2>4, StepsByActor
<1> QED
  BY <1>1, <1>2, <1>3, <1>4, <1>5, <1>6, <1>7

(* What was written, stored or answered stays so.                          *)
LEMMA WordsStay ==
  ASSUME TypeOK, Next
  PROVE  /\ Written \subseteq Written' /\ Stored \subseteq Stored'
         /\ \A m : Answered(m) => Answered(m)'
         /\ Written \subseteq 1 .. MaxLog
<1>1. /\ log \in Seq(Message) /\ log' \in Seq(Message) /\ Len(log) <= MaxLog
      /\ Len(log) \in Nat /\ Len(log') \in Nat /\ Len(log) <= Len(log')
      /\ \A i \in 1 .. Len(log) : log'[i].by = log[i].by /\ (log[i].stored => log'[i].stored)
  BY LogGrows DEF TypeOK
<1>2. DOMAIN log = 1 .. Len(log) /\ DOMAIN log' = 1 .. Len(log')
  BY <1>1, LenProperties
<1>3. DOMAIN log \subseteq DOMAIN log' /\ DOMAIN log \subseteq 1 .. MaxLog
  BY <1>1, <1>2, BoundAssumption
<1> QED
  BY <1>1, <1>2, <1>3 DEF Written, Stored, Answered

(* The first of a chain leaves it, and nothing else changes.               *)
LEMMA TailOf ==
  ASSUME NEW s \in Seq(JobIds), s # <<>>, \A i, k \in DOMAIN s : s[i] = s[k] => i = k
  PROVE  /\ Tail(s) \in Seq(JobIds) /\ Head(s) \in JobIds
         /\ Len(Tail(s)) = Len(s) - 1 /\ Len(s) \in Nat /\ Len(s) > 0
         /\ \A i, k \in DOMAIN Tail(s) : Tail(s)[i] = Tail(s)[k] => i = k
         /\ \A k \in DOMAIN Tail(s) : Tail(s)[k] # Head(s)
                                      /\ \E i \in DOMAIN s : s[i] = Tail(s)[k]
<1>1. /\ Tail(s) \in Seq(JobIds) /\ Head(s) \in JobIds
      /\ Len(Tail(s)) = Len(s) - 1 /\ Len(s) \in Nat \ {0}
      /\ \A i \in 1 .. Len(Tail(s)) : Tail(s)[i] = s[i + 1]
      /\ Head(s) = s[1]
  BY HeadTailProperties, EmptySeq
<1>2. DOMAIN s = 1 .. Len(s) /\ DOMAIN Tail(s) = 1 .. Len(Tail(s))
  BY <1>1, LenProperties
<1>3. \A i \in DOMAIN Tail(s) : i \in Nat /\ i + 1 \in DOMAIN s /\ i + 1 # 1 /\ Tail(s)[i] = s[i + 1]
  BY <1>1, <1>2
<1>4. 1 \in DOMAIN s
  BY <1>1, <1>2
<1>5. ASSUME NEW i \in DOMAIN Tail(s), NEW k \in DOMAIN Tail(s), Tail(s)[i] = Tail(s)[k]
      PROVE  i = k
  <2>1. i + 1 = k + 1
    BY <1>3, <1>5
  <2> QED
    BY <1>3, <2>1
<1> QED
  BY <1>1, <1>3, <1>4, <1>5

(* What each actor leaves alone.                                           *)
LEMMA WhatTheyLeaveAlone ==
  /\ Writes => UNCHANGED <<needsStaff, paused, job, chain, intake, turn, staff, takenAt, takes, told,
                           barred, over, crowded, faults>>
  /\ IntakeStep => UNCHANGED <<paused, chain, turn, staff, takenAt, takes, told, barred, over>>
  /\ StaffStep => UNCHANGED <<job, chain, intake, turn, told, over, crowded, faults>>
  /\ QueueStep => UNCHANGED <<log, needsStaff, paused, intake, turn, staff, takenAt, takes, told,
                              barred, over, crowded, faults>>
  /\ Turn => UNCHANGED <<paused, intake, staff, takenAt, takes, barred, faults>>
  /\ TurnFails \/ Restart => UNCHANGED <<log, needsStaff, paused, staff, takenAt, takes, told, barred,
                                         over, crowded>>
<1>1. Writes => UNCHANGED <<needsStaff, paused, job, chain, intake, turn, staff, takenAt, takes, told,
                            barred, over, crowded, faults>>
  BY DEF Writes, ghosts
<1>2. IntakeStep => UNCHANGED <<paused, chain, turn, staff, takenAt, takes, told, barred, over>>
  BY DEF IntakeStep, IntakeReads, IntakeStores, IntakeUpdates, IntakeLooks, IntakeQueues, IntakeFails,
     ghosts
<1>3. StaffStep => UNCHANGED <<job, chain, intake, turn, told, over, crowded, faults>>
  BY DEF StaffStep, StaffWrites, StaffTakes, SwitchOff, PauseEnds, ghosts
<1>4. QueueStep => UNCHANGED <<log, needsStaff, paused, intake, turn, staff, takenAt, takes, told,
                               barred, over, crowded, faults>>
  BY DEF QueueStep, Take, Done, ghosts
<1>5. Turn => UNCHANGED <<paused, intake, staff, takenAt, takes, barred, faults>>
  BY DEF Turn, TurnReads, TurnGathers, TurnThinks, TurnFlags, TurnChecks, TurnSends, TurnRecords,
     TurnSettles, TurnAsksAgain, TurnLooks, TurnQueues, ghosts
<1>6. TurnFails \/ Restart => UNCHANGED <<log, needsStaff, paused, staff, takenAt, takes, told, barred,
                                          over, crowded>>
  BY DEF TurnFails, Restart
<1> QED
  BY <1>1, <1>2, <1>3, <1>4, <1>5, <1>6

-----------------------------------------------------------------------------
(* Types, one piece of the state after the other.                          *)

(* The flags of the thread and of the ghosts.                              *)
LEMMA FlagsStay ==
  ASSUME TypeOK, Next
  PROVE  {needsStaff, paused, staff, barred, over, crowded}' \subseteq BOOLEAN
<1>1. /\ needsStaff \in BOOLEAN /\ paused \in BOOLEAN /\ staff \in BOOLEAN
      /\ barred \in BOOLEAN /\ over \in BOOLEAN /\ crowded \in BOOLEAN
      /\ intake.answers \in BOOLEAN /\ turn.sent \in BOOLEAN
  BY DEF TypeOK, Taking, Turning
<1>2. needsStaff' \in BOOLEAN
  <2>1. IntakeStep => needsStaff' \in BOOLEAN
    BY <1>1 DEF IntakeStep, IntakeReads, IntakeStores, IntakeUpdates, IntakeLooks, IntakeQueues,
       IntakeFails
  <2>2. StaffStep => needsStaff' \in BOOLEAN
    BY <1>1 DEF StaffStep, StaffWrites, StaffTakes, SwitchOff, PauseEnds
  <2>3. Turn => needsStaff' \in BOOLEAN
    BY <1>1 DEF Turn, TurnReads, TurnGathers, TurnThinks, TurnFlags, TurnChecks, TurnSends,
       TurnRecords, TurnSettles, TurnAsksAgain, TurnLooks, TurnQueues
  <2> QED
    BY <1>1, <2>1, <2>2, <2>3, StepsByActor, WhatTheyLeaveAlone
<1>3. paused' \in BOOLEAN /\ staff' \in BOOLEAN /\ barred' \in BOOLEAN
  <2>1. StaffStep => paused' \in BOOLEAN /\ staff' \in BOOLEAN /\ barred' \in BOOLEAN
    <3>1. Bars => barred' \in BOOLEAN
      BY DEF Bars
    <3>2. StaffStep => /\ paused' = paused \/ paused' = TRUE \/ paused' = FALSE
                       /\ staff' = staff \/ staff' = TRUE \/ staff' = FALSE
                       /\ barred' = barred \/ Bars
      BY DEF StaffStep, StaffWrites, StaffTakes, SwitchOff, PauseEnds
    <3> QED
      BY <1>1, <3>1, <3>2
  <2> QED
    BY <1>1, <2>1, StepsByActor, WhatTheyLeaveAlone
<1>4. over' \in BOOLEAN
  <2>1. Turn => over' \in BOOLEAN
    BY <1>1 DEF Turn, TurnReads, TurnGathers, TurnThinks, TurnFlags, TurnChecks, TurnSends,
       TurnRecords, TurnSettles, TurnAsksAgain, TurnLooks, TurnQueues, ghosts
  <2> QED
    BY <1>1, <2>1, StepsByActor, WhatTheyLeaveAlone
<1>5. crowded' \in BOOLEAN
  <2>1. Turn => crowded' \in BOOLEAN
    BY <1>1 DEF Turn, TurnReads, TurnGathers, TurnThinks, TurnFlags, TurnChecks, TurnSends,
       TurnRecords, TurnSettles, TurnAsksAgain, TurnLooks, TurnQueues, ghosts, Queue
  <2>2. IntakeStep => crowded' \in BOOLEAN
    BY <1>1 DEF IntakeStep, IntakeReads, IntakeStores, IntakeUpdates, IntakeLooks, IntakeQueues,
       IntakeFails, ghosts, Queue
  <2> QED
    BY <1>1, <2>1, <2>2, StepsByActor, WhatTheyLeaveAlone
<1> QED
  BY <1>2, <1>3, <1>4, <1>5

(* The counters.                                                           *)
LEMMA CountersStay ==
  ASSUME TypeOK, Next
  PROVE  /\ takenAt' \in 0 .. MaxLog /\ takes' \in 0 .. MaxTakes
         /\ told' \in [1 .. MaxLog -> Nat] /\ faults' \in 0 .. MaxFaults
<1>1. /\ takenAt \in 0 .. MaxLog /\ takes \in 0 .. MaxTakes /\ told \in [1 .. MaxLog -> Nat]
      /\ faults \in 0 .. MaxFaults /\ Len(log) \in 0 .. MaxLog
      /\ MaxLog \in Nat /\ MaxTakes \in Nat /\ MaxFaults \in Nat
  <2>1. Len(log) \in Nat /\ Len(log) <= MaxLog
    BY LenProperties DEF TypeOK
  <2> QED
    BY <2>1, BoundAssumption DEF TypeOK
<1>2. takenAt' \in 0 .. MaxLog /\ takes' \in 0 .. MaxTakes
  <2>1. StaffStep => takenAt' \in 0 .. MaxLog /\ takes' \in 0 .. MaxTakes
    BY <1>1 DEF StaffStep, StaffWrites, StaffTakes, SwitchOff, PauseEnds
  <2> QED
    BY <1>1, <2>1, StepsByActor, WhatTheyLeaveAlone
<1>3. told' \in [1 .. MaxLog -> Nat]
  <2>1. TurnSends => told' \in [1 .. MaxLog -> Nat]
    <3>1. DOMAIN told = 1 .. MaxLog /\ \A m \in 1 .. MaxLog : told[m] \in Nat
      BY <1>1
    <3>2. TurnSends => \/ told' = [m \in DOMAIN told |-> told[m] + IF m \in turn.asked THEN 1 ELSE 0]
                       \/ told' = told
      BY DEF TurnSends
    <3> QED
      BY <1>1, <3>1, <3>2
  <2>2. Turn => TurnSends \/ told' = told
    BY DEF Turn, TurnReads, TurnGathers, TurnThinks, TurnFlags, TurnChecks, TurnRecords, TurnSettles,
       TurnAsksAgain, TurnLooks, TurnQueues, ghosts
  <2> QED
    BY <1>1, <2>1, <2>2, StepsByActor, WhatTheyLeaveAlone
<1>4. faults' \in 0 .. MaxFaults
  <2>1. IntakeStep \/ TurnFails \/ Restart =>
          faults' = faults \/ (faults' = faults + 1 /\ faults < MaxFaults)
    BY DEF IntakeStep, IntakeReads, IntakeStores, IntakeUpdates, IntakeLooks, IntakeQueues, IntakeFails,
       ghosts, TurnFails, Restart, Fault
  <2> QED
    BY <1>1, <2>1, StepsByActor, WhatTheyLeaveAlone
<1> QED
  BY <1>2, <1>3, <1>4

(* The intake is at a message that was written.                            *)
LEMMA IntakeStays ==
  ASSUME TypeOK, Next
  PROVE  intake' \in Taking /\ (intake' # AtRest => intake'.at \in Written')
<1>1. /\ intake \in Taking /\ (intake # AtRest => intake.at \in Written) /\ AtRest \in Taking
      /\ paused \in BOOLEAN /\ \A m \in DOMAIN log : log[m].words \in BOOLEAN
      /\ MaxLog \in Nat
  <2>1. \A m \in DOMAIN log : log[m].words \in BOOLEAN
    <3>1. log \in Seq(Message)
      BY DEF TypeOK
    <3>2. \A m \in DOMAIN log : log[m] \in Message
      BY <3>1, LenProperties
    <3> QED
      BY <3>2 DEF Message
  <2>2. MaxLog \in Nat /\ AtRest \in Taking
    BY BoundAssumption DEF Taking, AtRest, JobIds
  <2> QED
    BY <2>1, <2>2 DEF TypeOK
<1>2. Written \subseteq Written' /\ Written \subseteq 1 .. MaxLog
  BY WordsStay
<1>3. CASE IntakeReads
  <2>1. PICK m \in Written \ Stored :
          intake' = [AtRest EXCEPT !.step = "insert", !.at = m, !.answers = log[m].words /\ ~ paused]
    BY <1>3 DEF IntakeReads
  <2>2. /\ m \in 0 .. MaxLog /\ (log[m].words /\ ~ paused) \in BOOLEAN
    BY <1>1, <1>2
  <2>3. intake' \in Taking /\ intake'.at = m
    BY <2>1, <2>2 DEF Taking, AtRest, JobIds
  <2> QED
    BY <1>2, <2>3
<1>4. CASE IntakeStep /\ ~ IntakeReads
  <2>1. \/ intake' = AtRest
        \/ /\ \E step \in {"update", "look"} : intake' = [intake EXCEPT !.step = step]
           /\ intake # AtRest
        \/ intake' = [intake EXCEPT !.step = "add", !.id = IdToQueue] /\ intake # AtRest
    BY <1>4 DEF IntakeStep, IntakeStores, IntakeUpdates, IntakeLooks, IntakeQueues, IntakeFails, AtRest
  <2>2. IdToQueue \in JobIds
    BY DEF IdToQueue, JobIds
  <2>3. intake' = AtRest \/ (intake' \in Taking /\ intake'.at = intake.at /\ intake # AtRest)
    BY <1>1, <2>1, <2>2 DEF Taking
  <2> QED
    BY <1>1, <1>2, <2>3
<1>5. CASE ~ IntakeStep
  <2>1. intake' = intake \/ intake' = AtRest
    BY <1>5, StepsByActor, WhatTheyLeaveAlone DEF TurnFails, Restart
  <2> QED
    BY <1>1, <1>2, <2>1
<1> QED
  BY <1>3, <1>4, <1>5

(* A turn that goes on: it ends and leaves the chain, or stays its head.   *)
LEMMA TurnGoesOn ==
  ASSUME TypeOK, Turn
  PROVE  /\ chain # <<>>
         /\ \/ turn' = NoTurn /\ chain' = Tail(chain)
            \/ /\ turn' \in Turning /\ turn' # NoTurn /\ chain' = chain
               /\ turn'.started <= Len(log) /\ turn'.asked \subseteq Stored
<1>1. /\ turn \in Turning /\ turn.started <= Len(log) /\ turn.asked \subseteq Stored
      /\ turn # NoTurn => chain # <<>>
      /\ Len(log) \in 0 .. MaxLog /\ Stored \subseteq 1 .. MaxLog
  <2>1. Len(log) \in Nat /\ Len(log) <= MaxLog /\ DOMAIN log = 1 .. Len(log)
    BY LenProperties DEF TypeOK
  <2>2. Len(log) \in 0 .. MaxLog /\ Stored \subseteq 1 .. MaxLog
    BY <2>1, BoundAssumption DEF Stored, Written
  <2> QED
    BY <2>2 DEF TypeOK
<1>2. NoTurn.step = "idle" /\ IdToQueue \in JobIds
  BY DEF NoTurn, IdToQueue, JobIds
<1>3. ASSUME NEW step \in {"gather", "think", "flag", "later", "check", "send", "record", "settle",
                           "again", "look", "add"},
             NEW asked \in SUBSET Stored, NEW sent \in BOOLEAN, NEW id \in JobIds,
             turn' = [turn EXCEPT !.step = step, !.asked = asked, !.sent = sent, !.id = id]
      PROVE  /\ turn' \in Turning /\ turn'.started = turn.started /\ turn'.asked = asked
             /\ turn'.step = step
  <2>1. asked \in SUBSET (1 .. MaxLog)
    BY <1>1
  <2> QED
    BY <1>1, <1>3, <2>1 DEF Turning
<1>4. CASE TurnReads
  <2>1. chain # <<>>
    BY <1>4 DEF TurnReads
  <2>2. \/ TurnEnds
        \/ turn' = [NoTurn EXCEPT !.step = "gather", !.started = Len(log)] /\ chain' = chain
    BY <1>4 DEF TurnReads
  <2>3. ASSUME turn' = [NoTurn EXCEPT !.step = "gather", !.started = Len(log)]
        PROVE  turn' \in Turning /\ turn'.started = Len(log) /\ turn'.asked = {} /\ turn'.step = "gather"
    BY <1>1, <2>3 DEF NoTurn, Turning, JobIds
  <2>4. Len(log) <= Len(log)
    BY <1>1
  <2> QED
    BY <1>2, <2>1, <2>2, <2>3, <2>4 DEF TurnEnds
<1>5. CASE Turn /\ ~ TurnReads
  <2>1. turn.step # "idle"
    BY <1>5 DEF Turn, TurnGathers, TurnThinks, TurnFlags, TurnChecks, TurnSends, TurnRecords,
       TurnSettles, TurnAsksAgain, TurnLooks, TurnQueues
  <2>2. chain # <<>>
    BY <1>1, <1>2, <2>1
  <2>3. \/ TurnEnds
        \/ /\ chain' = chain
           /\ \E step \in {"gather", "think", "flag", "later", "check", "send", "record", "settle",
                           "again", "look", "add"} :
                \/ turn' = [turn EXCEPT !.step = step]
                \/ turn' = [turn EXCEPT !.step = step, !.asked = Unanswered]
                \/ turn' = [turn EXCEPT !.step = step, !.sent = TRUE]
                \/ turn' = [turn EXCEPT !.step = step, !.id = IdToQueue]
    BY <1>5 DEF Turn, TurnGathers, TurnThinks, TurnFlags, TurnChecks, TurnSends, TurnRecords,
       TurnSettles, TurnAsksAgain, TurnLooks, TurnQueues, Turns
  <2>4. CASE TurnEnds
    BY <2>2, <2>4 DEF TurnEnds
  <2>5. ASSUME chain' = chain,
               NEW step \in {"gather", "think", "flag", "later", "check", "send", "record", "settle",
                             "again", "look", "add"},
               \/ turn' = [turn EXCEPT !.step = step]
               \/ turn' = [turn EXCEPT !.step = step, !.asked = Unanswered]
               \/ turn' = [turn EXCEPT !.step = step, !.sent = TRUE]
               \/ turn' = [turn EXCEPT !.step = step, !.id = IdToQueue]
        PROVE  /\ turn' \in Turning /\ turn' # NoTurn
               /\ turn'.started <= Len(log) /\ turn'.asked \subseteq Stored
    <3>1. Unanswered \in SUBSET Stored
      BY DEF Unanswered
    <3> DEFINE After(asked, sent, id) ==
                 [turn EXCEPT !.step = step, !.asked = asked, !.sent = sent, !.id = id]
    <3>2. turn.asked \in SUBSET Stored /\ turn.sent \in BOOLEAN /\ turn.id \in JobIds
      BY <1>1 DEF Turning
    <3>3. /\ [turn EXCEPT !.step = step] = After(turn.asked, turn.sent, turn.id)
          /\ [turn EXCEPT !.step = step, !.asked = Unanswered] = After(Unanswered, turn.sent, turn.id)
          /\ [turn EXCEPT !.step = step, !.sent = TRUE] = After(turn.asked, TRUE, turn.id)
          /\ [turn EXCEPT !.step = step, !.id = IdToQueue] = After(turn.asked, turn.sent, IdToQueue)
      BY <1>1 DEF Turning
    <3>4. ASSUME NEW asked \in SUBSET Stored, NEW sent \in BOOLEAN, NEW id \in JobIds,
                 turn' = After(asked, sent, id)
          PROVE  /\ turn' \in Turning /\ turn' # NoTurn
                 /\ turn'.started <= Len(log) /\ turn'.asked \subseteq Stored
      <4>1. /\ turn' \in Turning /\ turn'.started = turn.started /\ turn'.asked = asked
            /\ turn'.step = step
        BY <1>3, <2>5, <3>4
      <4> QED
        BY <1>1, <1>2, <2>5, <4>1
    <3> HIDE DEF After
    <3>5. CASE turn' = [turn EXCEPT !.step = step]
      BY <3>2, <3>3, <3>4, <3>5
    <3>6. CASE turn' = [turn EXCEPT !.step = step, !.asked = Unanswered]
      BY <3>1, <3>2, <3>3, <3>4, <3>6
    <3>7. CASE turn' = [turn EXCEPT !.step = step, !.sent = TRUE]
      <4>1. turn' = After(turn.asked, TRUE, turn.id) /\ TRUE \in BOOLEAN
        BY <3>3, <3>7
      <4> QED
        BY <3>2, <3>4, <4>1
    <3>8. CASE turn' = [turn EXCEPT !.step = step, !.id = IdToQueue]
      BY <1>2, <3>2, <3>3, <3>4, <3>8
    <3> QED
      BY <2>5, <3>5, <3>6, <3>7, <3>8
  <2> QED
    BY <2>2, <2>3, <2>4, <2>5
<1> QED
  BY <1>4, <1>5

(* A turn runs only for the head of the chain and asks what was stored.    *)
LEMMA TurnStays ==
  ASSUME TypeOK, Next
  PROVE  /\ turn' \in Turning /\ (turn' # NoTurn => chain' # <<>>)
         /\ turn'.started <= Len(log') /\ turn'.asked \subseteq Stored'
<1>1. /\ turn \in Turning /\ (turn # NoTurn => chain # <<>>)
      /\ turn.started <= Len(log) /\ turn.asked \subseteq Stored
      /\ chain \in Seq(JobIds) /\ turn.started \in Nat
  BY DEF TypeOK, Turning
<1>2. /\ Len(log) \in Nat /\ Len(log') \in Nat /\ Len(log) <= Len(log')
      /\ Stored \subseteq Stored'
  BY LogGrows, WordsStay
<1>3. NoTurn \in Turning /\ NoTurn.started = 0 /\ NoTurn.asked = {}
  BY BoundAssumption DEF NoTurn, Turning, JobIds
<1>4. CASE Turn
  <2>1. CASE turn' = NoTurn
    BY <1>2, <1>3, <2>1
  <2>2. CASE turn' # NoTurn
    <3>1. /\ turn' \in Turning /\ chain' # <<>>
          /\ turn'.started <= Len(log) /\ turn'.asked \subseteq Stored
      BY <1>4, <2>2, TurnGoesOn
    <3>2. turn'.started \in Nat
      BY <3>1 DEF Turning
    <3> QED
      BY <1>2, <3>1, <3>2
  <2> QED
    BY <2>1, <2>2
<1>5. CASE TurnFails \/ Restart
  <2>1. turn' = NoTurn
    BY <1>5 DEF TurnFails, TurnEnds, Restart
  <2> QED
    BY <1>2, <1>3, <2>1
<1>6. CASE Writes \/ IntakeStep \/ StaffStep \/ QueueStep
  <2>1. turn' = turn
    BY <1>6, WhatTheyLeaveAlone
  <2>2. chain' = chain \/ \E j \in JobIds : chain' = Append(chain, j)
    BY <1>6, WhatTheyLeaveAlone DEF QueueStep, Take, Done
  <2>3. chain # <<>> => chain' # <<>>
    BY <1>1, <2>2, AppendProperties
  <2> QED
    BY <1>1, <1>2, <2>1, <2>3
<1> QED
  BY <1>4, <1>5, <1>6, StepsByActor

(* What a step does to the chain: nothing, or it takes up a job that was   *)
(* waiting, or lets its head go, or the process starts again; and to the   *)
(* jobs: those in the chain afterwards stay active.                        *)
LEMMA ChainStays ==
  ASSUME TypeOK, Next
  PROVE  /\ job' \in [JobIds -> ReplyJob] /\ chain' \in Seq(JobIds)
         /\ \A i, k \in DOMAIN chain' : chain'[i] = chain'[k] => i = k
         /\ \A k \in DOMAIN chain' : job'[chain'[k]].at = "active"
<1>1. /\ job \in [JobIds -> ReplyJob] /\ chain \in Seq(JobIds)
      /\ \A i, k \in DOMAIN chain : chain[i] = chain[k] => i = k
      /\ \A k \in DOMAIN chain : job[chain[k]].at = "active"
      /\ turn # NoTurn => chain # <<>>
      /\ Attempts \in Nat /\ Attempts > 0
  BY BoundAssumption DEF TypeOK
<1>2. /\ \A k \in DOMAIN chain : chain[k] \in JobIds
      /\ DOMAIN chain = 1 .. Len(chain) /\ Len(chain) \in Nat
  BY <1>1, LenProperties
<1>3. ASSUME NEW id \in JobIds, Queue(id)
      PROVE  /\ job' \in [JobIds -> ReplyJob]
             /\ \A j \in JobIds : job[j].at = "active" => job'[j] = job[j]
  BY <1>1, <1>3 DEF Queue, ReplyJob
<1>4. ASSUME chain' = Tail(chain), chain # <<>>, job' \in [JobIds -> ReplyJob],
             \A j \in JobIds \ {Head(chain)} : job[j].at = "active" => job'[j] = job[j]
      PROVE  /\ chain' \in Seq(JobIds)
             /\ \A i, k \in DOMAIN chain' : chain'[i] = chain'[k] => i = k
             /\ \A k \in DOMAIN chain' : job'[chain'[k]].at = "active"
  <2>1. /\ Tail(chain) \in Seq(JobIds)
        /\ \A i, k \in DOMAIN Tail(chain) : Tail(chain)[i] = Tail(chain)[k] => i = k
        /\ \A k \in DOMAIN Tail(chain) : /\ Tail(chain)[k] # Head(chain)
                                         /\ \E i \in DOMAIN chain : chain[i] = Tail(chain)[k]
    BY <1>1, <1>4, TailOf
  <2> QED
    BY <1>1, <1>2, <1>4, <2>1
<1>5. CASE Writes \/ StaffStep
  BY <1>1, <1>5, WhatTheyLeaveAlone
<1>6. CASE IntakeStep
  <2>1. chain' = chain
    BY <1>6, WhatTheyLeaveAlone
  <2>2. job' = job \/ (Queue(intake.id) /\ intake.id \in JobIds)
    BY <1>6 DEF IntakeStep, IntakeReads, IntakeStores, IntakeUpdates, IntakeLooks, IntakeQueues,
       IntakeFails, TypeOK, Taking
  <2> QED
    BY <1>1, <1>2, <1>3, <2>1, <2>2
<1>7. ASSUME NEW j \in JobIds, Take(j)
      PROVE  /\ job' \in [JobIds -> ReplyJob] /\ chain' \in Seq(JobIds)
             /\ \A i, k \in DOMAIN chain' : chain'[i] = chain'[k] => i = k
             /\ \A k \in DOMAIN chain' : job'[chain'[k]].at = "active"
  <2>1. job[j].at = "waiting" /\ job' = [job EXCEPT ![j].at = "active"] /\ chain' = Append(chain, j)
    BY <1>7 DEF Take
  <2>2. /\ job' \in [JobIds -> ReplyJob] /\ job'[j].at = "active"
        /\ \A k \in JobIds \ {j} : job'[k] = job[k]
    BY <1>1, <2>1 DEF ReplyJob
  <2>3. \A k \in DOMAIN chain : chain[k] # j
    BY <1>1, <2>1
  <2>4. /\ chain' \in Seq(JobIds) /\ DOMAIN chain' = 1 .. Len(chain) + 1
        /\ \A i \in 1 .. Len(chain) : chain'[i] = chain[i]
        /\ chain'[Len(chain) + 1] = j
    BY <1>1, <2>1, AppendProperties, LenProperties
  <2>5. \A k \in DOMAIN chain' : k \in DOMAIN chain \/ k = Len(chain) + 1
    BY <1>2, <2>4
  <2> QED
    BY <1>1, <1>2, <2>2, <2>3, <2>4, <2>5
<1>8. ASSUME NEW j \in JobIds, Done(j)
      PROVE  /\ job' \in [JobIds -> ReplyJob] /\ chain' = chain
             /\ \A k \in DOMAIN chain : job'[chain[k]].at = "active"
  <2>1. /\ job' = [job EXCEPT ![j] = NoJob] /\ chain' = chain /\ \A k \in DOMAIN chain : chain[k] # j
    BY <1>8 DEF Done
  <2>2. NoJob \in ReplyJob
    BY <1>1 DEF NoJob, ReplyJob
  <2> QED
    BY <1>1, <1>2, <2>1, <2>2
<1>9. CASE Turn
  <2>1. chain # <<>> /\ (chain' = chain \/ chain' = Tail(chain))
    BY <1>9, TurnGoesOn
  <2>2. job' = job \/ (Queue(turn.id) /\ turn.id \in JobIds)
    BY <1>9 DEF Turn, TurnReads, TurnGathers, TurnThinks, TurnFlags, TurnChecks, TurnSends,
       TurnRecords, TurnSettles, TurnAsksAgain, TurnLooks, TurnQueues, TypeOK, Turning
  <2>3. /\ job' \in [JobIds -> ReplyJob]
        /\ \A j \in JobIds : job[j].at = "active" => job'[j] = job[j]
    BY <1>1, <1>3, <2>2
  <2> QED
    BY <1>1, <1>2, <1>4, <2>1, <2>3
<1>10. CASE TurnFails
  <2>1. chain # <<>> /\ chain' = Tail(chain)
    BY <1>1, <1>10 DEF TurnFails, TurnEnds
  <2>2. Head(chain) \in JobIds
    BY <1>1, <2>1, HeadTailProperties
  <2> DEFINE j == Head(chain)
             again == IF job[j].tries + 1 < Attempts
                      THEN [at |-> "waiting", tries |-> job[j].tries + 1] ELSE NoJob
  <2>3. job' = [job EXCEPT ![j] = again]
    BY <1>1, <1>10, <2>2 DEF TurnFails
  <2>4. again \in ReplyJob
    <3>1. job[j].tries \in Nat
      BY <1>1, <2>2 DEF ReplyJob
    <3> QED
      BY <1>1, <3>1 DEF NoJob, ReplyJob
  <2> HIDE DEF again
  <2>5. /\ job' \in [JobIds -> ReplyJob] /\ \A k \in JobIds \ {j} : job'[k] = job[k]
    BY <1>1, <2>3, <2>4
  <2> QED
    BY <1>4, <2>1, <2>5
<1>11. CASE Restart
  <2>1. /\ chain' = <<>>
        /\ job' = [j \in JobIds |-> IF job[j].at = "active" THEN [job[j] EXCEPT !.at = "waiting"]
                                                           ELSE job[j]]
    BY <1>11 DEF Restart
  <2>2. job' \in [JobIds -> ReplyJob]
    BY <1>1, <2>1 DEF ReplyJob
  <2>3. chain' \in Seq(JobIds) /\ DOMAIN chain' = {}
    BY <2>1, EmptySeq
  <2> QED
    BY <2>2, <2>3
<1> QED
  BY <1>1, <1>5, <1>6, <1>7, <1>8, <1>9, <1>10, <1>11, StepsByActor DEF QueueStep

(* Every step leaves the types in order.                                   *)
LEMMA TypesStay ==
  ASSUME TypeOK, Next
  PROVE  TypeOK'
<1>1. log' \in Seq(Message) /\ Len(log') <= MaxLog
  BY LogGrows
<1> QED
  BY <1>1, FlagsStay, CountersStay, IntakeStays, TurnStays, ChainStays DEF TypeOK

-----------------------------------------------------------------------------
(* How a turn's step changes and what its steps leave of question and      *)
(* answer.                                                                 *)
LEMMA TurnSteps ==
  ASSUME TypeOK
  PROVE  /\ NoTurn.step = "idle" /\ NoTurn.asked = {} /\ NoTurn.sent = FALSE
         /\ TurnEnds => turn' = NoTurn
         /\ \A step : Turns(step) =>
              /\ turn'.step = step /\ turn'.started = turn.started /\ turn'.asked = turn.asked
              /\ turn'.sent = turn.sent /\ turn'.id = turn.id
         /\ turn' = [NoTurn EXCEPT !.step = "gather", !.started = Len(log)] =>
              turn'.step = "gather" /\ turn'.asked = {} /\ ~ turn'.sent
         /\ turn' = [turn EXCEPT !.step = "think", !.asked = Unanswered] =>
              turn'.step = "think" /\ turn'.asked = Unanswered /\ turn'.sent = turn.sent
         /\ \A step : turn' = [turn EXCEPT !.step = step] =>
              turn'.step = step /\ turn'.asked = turn.asked /\ turn'.sent = turn.sent
         /\ turn' = [turn EXCEPT !.step = "record", !.sent = TRUE] =>
              turn'.step = "record" /\ turn'.asked = turn.asked
         /\ turn' = [turn EXCEPT !.step = "add", !.id = IdToQueue] =>
              turn'.step = "add" /\ turn'.asked = turn.asked /\ turn'.id = IdToQueue
<1>1. turn \in Turning
  BY DEF TypeOK
<1>2. NoTurn.step = "idle" /\ NoTurn.asked = {} /\ NoTurn.sent = FALSE
  BY DEF NoTurn
<1>3. TurnEnds => turn' = NoTurn
  BY DEF TurnEnds
<1>4. ASSUME NEW step, Turns(step)
      PROVE  /\ turn'.step = step /\ turn'.started = turn.started /\ turn'.asked = turn.asked
             /\ turn'.sent = turn.sent /\ turn'.id = turn.id
  BY <1>1, <1>4 DEF Turns, Turning
<1>5. turn' = [NoTurn EXCEPT !.step = "gather", !.started = Len(log)] =>
        turn'.step = "gather" /\ turn'.asked = {} /\ ~ turn'.sent
  BY DEF NoTurn
<1>6. /\ turn' = [turn EXCEPT !.step = "think", !.asked = Unanswered] =>
           turn'.step = "think" /\ turn'.asked = Unanswered /\ turn'.sent = turn.sent
      /\ \A step : turn' = [turn EXCEPT !.step = step] =>
           turn'.step = step /\ turn'.asked = turn.asked /\ turn'.sent = turn.sent
      /\ turn' = [turn EXCEPT !.step = "record", !.sent = TRUE] =>
           turn'.step = "record" /\ turn'.asked = turn.asked
      /\ turn' = [turn EXCEPT !.step = "add", !.id = IdToQueue] =>
           turn'.step = "add" /\ turn'.asked = turn.asked /\ turn'.id = IdToQueue
  BY <1>1 DEF Turning
<1> QED
  BY <1>2, <1>3, <1>4, <1>5, <1>6

(* The counts stay, unless the turn sends; nobody may be told who might    *)
(* not before, unless a fault undid a turn.                                *)
LEMMA ToldOnceStays ==
  ASSUME TypeOK, TypeOK', ToldOnce, Next
  PROVE  ToldOnce'
<1> SUFFICES ASSUME NEW m \in 1 .. MaxLog
             PROVE  told'[m] + (IF MayBeTold(m)' THEN 1 ELSE 0) <= 1 + faults'
  BY DEF ToldOnce
<1>1. /\ told[m] \in Nat /\ told'[m] \in Nat /\ faults \in Nat /\ faults' \in Nat
      /\ told[m] + (IF MayBeTold(m) THEN 1 ELSE 0) <= 1 + faults
      /\ turn \in Turning
  BY BoundAssumption DEF TypeOK, ToldOnce
<1>2. Answered(m) => Answered(m)'
  BY WordsStay
<1>3. ASSUME told'[m] = told[m], faults' >= faults, MayBeTold(m)' => MayBeTold(m)
      PROVE  told'[m] + (IF MayBeTold(m)' THEN 1 ELSE 0) <= 1 + faults'
  BY <1>1, <1>3
<1>4. CASE Writes \/ StaffStep \/ QueueStep \/ IntakeStep
  <2>1. turn' = turn /\ told' = told
    BY <1>4, WhatTheyLeaveAlone
  <2>2. faults' = faults \/ faults' = faults + 1
    BY <1>4, WhatTheyLeaveAlone DEF IntakeStep, IntakeReads, IntakeStores, IntakeUpdates, IntakeLooks,
       IntakeQueues, IntakeFails, Fault, ghosts
  <2>3. MayBeTold(m)' => MayBeTold(m)
    BY <1>2, <2>1 DEF MayBeTold, Asking
  <2>4. faults' >= faults
    BY <1>1, <2>2
  <2> QED
    BY <1>3, <2>1, <2>3, <2>4
<1>5. CASE TurnFails \/ Restart
  <2>1. told' = told /\ faults' = faults + 1
    BY <1>5, WhatTheyLeaveAlone DEF TurnFails, Restart, Fault
  <2> QED
    BY <1>1, <2>1
<1>6. CASE Turn
  <2>1. faults' = faults
    BY <1>6, WhatTheyLeaveAlone
  <2>2. /\ NoTurn.step = "idle" /\ NoTurn.asked = {}
        /\ TurnEnds => turn' = NoTurn
        /\ \A step : Turns(step) => turn'.step = step /\ turn'.asked = turn.asked
    BY TurnSteps
  <2>3. ASSUME told' = told, turn.step # "record", turn' = NoTurn
        PROVE  MayBeTold(m)' => MayBeTold(m)
    BY <1>2, <2>2, <2>3 DEF MayBeTold, Asking
  <2>4. ASSUME told' = told, turn.step # "record",
               turn'.asked = turn.asked,
               turn'.step \in {"think", "check", "send"} => turn.step \in {"think", "check", "send"}
        PROVE  MayBeTold(m)' => MayBeTold(m)
    BY <1>2, <2>4 DEF MayBeTold, Asking
  <2>5. CASE TurnReads
    <3>1. /\ told' = told /\ turn = NoTurn
          /\ TurnEnds \/ turn' = [NoTurn EXCEPT !.step = "gather", !.started = Len(log)]
      BY <2>5 DEF TurnReads, ghosts
    <3>2. turn' = NoTurn \/ (turn'.step = "gather" /\ turn'.asked = {})
      BY <2>2, <3>1 DEF NoTurn
    <3>3. MayBeTold(m)' => MayBeTold(m)
      BY <1>2, <2>2, <3>1, <3>2 DEF MayBeTold, Asking
    <3> QED
      BY <1>1, <1>3, <2>1, <3>1, <3>3
  <2>6. CASE TurnGathers
    <3>1. told' = told /\ turn.step = "gather"
      BY <2>6 DEF TurnGathers, ghosts
    <3>2. \/ TurnEnds \/ Turns("flag")
          \/ turn' = [turn EXCEPT !.step = "think", !.asked = Unanswered]
      BY <2>6 DEF TurnGathers
    <3>3. m \in Unanswered => ~ Answered(m)
      BY DEF Unanswered, Answered
    <3>4. CASE turn' = [turn EXCEPT !.step = "think", !.asked = Unanswered]
      <4>1. turn'.step = "think" /\ turn'.asked = Unanswered
        BY <1>1, <3>4 DEF Turning
      <4>2. MayBeTold(m)' => MayBeTold(m)
        BY <1>2, <3>1, <3>3, <4>1 DEF MayBeTold, Asking
      <4> QED
        BY <1>1, <1>3, <2>1, <3>1, <4>2
    <3> QED
      BY <1>1, <1>3, <2>1, <2>2, <2>3, <2>4, <3>1, <3>2, <3>4
  <2>7. CASE TurnThinks \/ TurnFlags \/ TurnChecks \/ TurnSettles \/ TurnAsksAgain
    <3>1. /\ told' = told
          /\ turn.step \in {"think", "flag", "later", "check", "settle", "again"}
          /\ \/ TurnEnds \/ Turns("flag") \/ Turns("later") \/ Turns("look") \/ Turns("again")
             \/ turn.step \in {"think", "check"} /\ (Turns("check") \/ Turns("send"))
      BY <2>7 DEF TurnThinks, TurnFlags, TurnChecks, TurnSettles, TurnAsksAgain, ghosts
    <3>2. turn' # NoTurn => turn'.asked = turn.asked /\
            (turn'.step \in {"think", "check", "send"} => turn.step \in {"think", "check", "send"})
      BY <2>2, <3>1
    <3>3. MayBeTold(m)' => MayBeTold(m)
      BY <2>3, <2>4, <3>1, <3>2
    <3> QED
      BY <1>1, <1>3, <2>1, <3>1, <3>3
  <2>8. CASE TurnLooks \/ TurnQueues
    <3>1. told' = told /\ turn.step \in {"look", "add"}
      BY <2>8 DEF TurnLooks, TurnQueues, ghosts
    <3>2. turn' = NoTurn \/ (turn'.step = "add" /\ turn'.asked = turn.asked)
      BY <1>1, <2>2, <2>8 DEF TurnLooks, TurnQueues, Turning
    <3>3. MayBeTold(m)' => MayBeTold(m)
      BY <2>3, <2>4, <3>1, <3>2
    <3> QED
      BY <1>1, <1>3, <2>1, <3>1, <3>3
  <2>9. CASE TurnSends
    <3>1. turn.step = "send"
      BY <2>9 DEF TurnSends
    <3>2. CASE turn' = [turn EXCEPT !.step = "settle"] /\ told' = told
      <4>1. turn'.step = "settle" /\ turn'.asked = turn.asked
        BY <1>1, <3>2 DEF Turning
      <4> QED
        BY <1>1, <1>3, <2>1, <2>4, <3>1, <3>2, <4>1
    <3>3. CASE /\ turn' = [turn EXCEPT !.step = "record", !.sent = TRUE]
               /\ told' = [k \in DOMAIN told |-> told[k] + IF k \in turn.asked THEN 1 ELSE 0]
      <4>1. turn'.step = "record" /\ turn'.asked = turn.asked
        BY <1>1, <3>3 DEF Turning
      <4>2. told'[m] = told[m] + IF m \in turn.asked THEN 1 ELSE 0
        BY <3>3 DEF TypeOK
      <4>3. /\ m \in turn.asked => MayBeTold(m) /\ ~ MayBeTold(m)'
            /\ m \notin turn.asked => (MayBeTold(m)' => MayBeTold(m))
        BY <1>2, <3>1, <4>1 DEF MayBeTold, Asking
      <4> QED
        BY <1>1, <2>1, <4>2, <4>3
    <3> QED
      BY <2>9, <3>2, <3>3 DEF TurnSends
  <2>10. CASE TurnRecords
    <3>1. /\ told' = told /\ turn.step = "record" /\ Turns("settle")
          /\ log' = Append(log, Row("AI"))
      BY <2>10 DEF TurnRecords, ghosts
    <3>2. turn'.step = "settle"
      BY <2>2, <3>1
    <3>3. m \in turn.asked => Answered(m)'
      <4>1. log \in Seq(Message) /\ Row("AI") \in Message /\ Row("AI").by = "AI"
        BY DEF TypeOK, Row, Message
      <4>2. /\ log' \in Seq(Message) /\ Len(log') = Len(log) + 1 /\ Len(log) \in Nat
            /\ log'[Len(log) + 1] = Row("AI") /\ DOMAIN log' = 1 .. Len(log')
            /\ DOMAIN log = 1 .. Len(log)
        BY <3>1, <4>1, AppendProperties, LenProperties
      <4>3. m \in turn.asked => m \in DOMAIN log
        BY DEF TypeOK, Stored, Written
      <4>4. Len(log) + 1 \in DOMAIN log' /\ (m \in DOMAIN log => Len(log) + 1 > m)
        BY <4>2
      <4> QED
        BY <4>1, <4>2, <4>3, <4>4 DEF Answered
    <3>4. MayBeTold(m)' => MayBeTold(m)
      BY <1>2, <3>2, <3>3 DEF MayBeTold, Asking
    <3> QED
      BY <1>1, <1>3, <2>1, <3>1, <3>4
  <2> QED
    BY <1>6, <2>5, <2>6, <2>7, <2>8, <2>9, <2>10 DEF Turn
<1> QED
  BY <1>4, <1>5, <1>6, StepsByActor

(* A turn comes to its send only past the check, and a pause that is set   *)
(* after it does not bar it.                                               *)
LEMMA PassedInTimeStays ==
  ASSUME TypeOK, PassedInTime, ~ over, Next
  PROVE  PassedInTime' /\ ~ over'
<1>1. turn \in Turning /\ paused \in BOOLEAN
  BY DEF TypeOK
<1>2. CASE Writes \/ QueueStep \/ IntakeStep
  BY <1>2, WhatTheyLeaveAlone DEF PassedInTime
<1>3. CASE StaffStep
  <2>1. turn' = turn /\ over' = over
    BY <1>3, WhatTheyLeaveAlone
  <2>2. \/ paused' = paused /\ barred' = barred
        \/ paused' = FALSE
        \/ Bars
    BY <1>3 DEF StaffStep, StaffWrites, StaffTakes, SwitchOff, PauseEnds
  <2>3. Bars /\ turn.step = "send" => ~ barred'
    BY DEF Bars
  <2> QED
    BY <2>1, <2>2, <2>3 DEF PassedInTime
<1>4. CASE TurnFails \/ Restart
  <2>1. turn' = NoTurn /\ over' = over
    BY <1>4, WhatTheyLeaveAlone DEF TurnFails, TurnEnds, Restart
  <2> QED
    BY <2>1, TurnSteps DEF PassedInTime
<1>5. CASE Turn
  <2>1. paused' = paused /\ barred' = barred
    BY <1>5, WhatTheyLeaveAlone
  <2>2. ~ over'
    <3>1. TurnSends => \/ turn.step = "send" /\ over' = (over \/ (paused /\ barred))
                       \/ over' = over
      BY DEF TurnSends
    <3>2. ~ TurnSends => over' = over
      BY <1>5 DEF Turn, TurnReads, TurnGathers, TurnThinks, TurnFlags, TurnChecks, TurnRecords,
         TurnSettles, TurnAsksAgain, TurnLooks, TurnQueues, ghosts
    <3> QED
      BY <3>1, <3>2 DEF PassedInTime
  <2>3. turn'.step = "send" => TurnChecks /\ ~ paused
    <3>1. CASE TurnReads \/ TurnGathers \/ TurnSends \/ TurnLooks
      <4>1. turn'.step \in {"idle", "gather", "flag", "think", "record", "settle", "add"}
        BY <3>1, TurnSteps DEF TurnReads, TurnGathers, TurnSends, TurnLooks
      <4> QED
        BY <4>1
    <3>2. CASE TurnThinks \/ TurnFlags \/ TurnRecords \/ TurnSettles \/ TurnAsksAgain \/ TurnQueues
      <4>1. turn'.step \in {"idle", "check", "flag", "later", "look", "settle", "again"}
        BY <3>2, TurnSteps DEF TurnThinks, TurnFlags, TurnRecords, TurnSettles, TurnAsksAgain, TurnQueues
      <4> QED
        BY <4>1
    <3>3. CASE TurnChecks
      <4>1. IF paused THEN turn'.step = "idle" ELSE turn'.step = "send"
        BY <3>3, TurnSteps DEF TurnChecks
      <4> QED
        BY <3>3, <4>1
    <3> QED
      BY <1>5, <3>1, <3>2, <3>3 DEF Turn
  <2> QED
    BY <2>1, <2>2, <2>3 DEF PassedInTime
<1> QED
  BY <1>2, <1>3, <1>4, <1>5, StepsByActor

(* The row of an answer lies behind what the turn started from.            *)
LEMMA SentInTurnStays ==
  ASSUME TypeOK, SentInTurn, Next
  PROVE  SentInTurn'
<1> DEFINE Behind(t) == \E a \in DOMAIN log : a > t.started /\ log[a].by # "CONTACT"
<1>1. turn \in Turning
  BY DEF TypeOK
<1>2. /\ log \in Seq(Message) /\ log' \in Seq(Message)
      /\ Len(log) \in Nat /\ Len(log') \in Nat /\ Len(log) <= Len(log')
      /\ \A i \in 1 .. Len(log) : log'[i].by = log[i].by
      /\ DOMAIN log = 1 .. Len(log) /\ DOMAIN log' = 1 .. Len(log')
  BY LogGrows, LenProperties DEF TypeOK
<1>3. ASSUME turn'.started = turn.started, Behind(turn)
      PROVE  Behind(turn)'
  BY <1>2, <1>3
<1>4. CASE Writes \/ QueueStep \/ IntakeStep \/ StaffStep
  <2>1. turn' = turn
    BY <1>4, WhatTheyLeaveAlone
  <2> QED
    BY <1>3, <2>1 DEF SentInTurn
<1>5. ASSUME turn' = NoTurn
      PROVE  SentInTurn'
  BY <1>5, TurnSteps DEF SentInTurn
<1>6. CASE TurnFails \/ Restart
  BY <1>5, <1>6 DEF TurnFails, TurnEnds, Restart
<1>7. CASE TurnReads \/ TurnGathers \/ TurnThinks \/ TurnFlags \/ TurnChecks
  <2>1. turn' = NoTurn \/ (~ turn'.sent /\ turn'.step # "settle")
    <3>1. CASE TurnReads
      BY <3>1, TurnSteps DEF TurnReads
    <3>2. CASE TurnGathers
      <4>1. turn.step = "gather" /\ ~ turn.sent
        BY <1>1, <3>2 DEF TurnGathers, SentInTurn, Turning
      <4> QED
        BY <3>2, <4>1, TurnSteps DEF TurnGathers
    <3>3. CASE TurnThinks \/ TurnFlags \/ TurnChecks
      BY <3>3, TurnSteps DEF TurnThinks, TurnFlags, TurnChecks, SentInTurn
    <3> QED
      BY <1>7, <3>1, <3>2, <3>3
  <2> QED
    BY <1>5, <2>1 DEF SentInTurn
<1>8. CASE TurnSends
  <2>1. \/ turn'.step = "record"
        \/ turn'.step = "settle" /\ turn'.sent = turn.sent /\ turn.step = "send"
    BY <1>1, <1>8 DEF TurnSends, Turning
  <2> QED
    BY <2>1 DEF SentInTurn
<1>9. CASE TurnRecords
  <2>1. Turns("settle") /\ log' = Append(log, Row("AI"))
    BY <1>9 DEF TurnRecords
  <2>2. turn'.step = "settle" /\ turn'.started = turn.started
    BY <2>1, TurnSteps
  <2>3. Row("AI") \in Message /\ Row("AI").by # "CONTACT"
    BY DEF Row, Message
  <2>4. Len(log') = Len(log) + 1 /\ log'[Len(log) + 1] = Row("AI")
    BY <1>2, <2>1, <2>3, AppendProperties
  <2>5. turn.started <= Len(log) /\ turn.started \in Nat
    BY DEF TypeOK, Turning
  <2>6. Len(log) + 1 \in DOMAIN log' /\ Len(log) + 1 > turn'.started
    BY <1>2, <2>2, <2>4, <2>5
  <2> QED
    BY <2>2, <2>3, <2>4, <2>6 DEF SentInTurn
<1>10. CASE TurnSettles \/ TurnAsksAgain \/ TurnLooks \/ TurnQueues
  <2>1. turn' = NoTurn \/ turn'.step \in {"again", "look", "add"}
    BY <1>1, <1>10, TurnSteps DEF TurnSettles, TurnAsksAgain, TurnLooks, TurnQueues, Turning
  <2> QED
    BY <1>5, <2>1 DEF SentInTurn
<1> QED
  BY <1>4, <1>6, <1>7, <1>8, <1>9, <1>10, StepsByActor DEF Turn

-----------------------------------------------------------------------------
(* Who will see to a message.                                              *)

(* A fault is never taken back, nor that a job was refused.                *)
LEMMA GhostsStay ==
  ASSUME TypeOK, Next
  PROVE  /\ faults' = 0 => faults = 0 /\ ~ IntakeFails /\ ~ TurnFails /\ ~ Restart
         /\ crowded => crowded'
<1>1. faults \in Nat
  BY BoundAssumption DEF TypeOK
<1>2. IntakeFails \/ TurnFails \/ Restart => faults' = faults + 1
  BY DEF IntakeFails, TurnFails, Restart, Fault
<1>3. IntakeStep => IntakeFails \/ faults' = faults
  BY DEF IntakeStep, IntakeReads, IntakeStores, IntakeUpdates, IntakeLooks, IntakeQueues, ghosts
<1>4. faults' = faults \/ faults' = faults + 1
  BY <1>2, <1>3, StepsByActor, WhatTheyLeaveAlone
<1>5. crowded => crowded'
  <2>1. IntakeStep => crowded' = crowded \/ Queue(intake.id)
    BY DEF IntakeStep, IntakeReads, IntakeStores, IntakeUpdates, IntakeLooks, IntakeQueues,
       IntakeFails, ghosts
  <2>2. Turn => crowded' = crowded \/ Queue(turn.id)
    BY DEF Turn, TurnReads, TurnGathers, TurnThinks, TurnFlags, TurnChecks, TurnSends, TurnRecords,
       TurnSettles, TurnAsksAgain, TurnLooks, TurnQueues, ghosts
  <2>3. \A id : Queue(id) /\ crowded => crowded'
    BY DEF Queue
  <2> QED
    BY <2>1, <2>2, <2>3, StepsByActor, WhatTheyLeaveAlone
<1> QED
  BY <1>1, <1>2, <1>4, <1>5

(* A message becomes stored only as the intake stores it, and a row that   *)
(* is new is not the contact's, or not stored.                             *)
LEMMA NewWords ==
  ASSUME TypeOK, Next, NEW m \in Written'
  PROVE  /\ m \in Written \/ m \notin Stored'
         /\ m \in Stored' /\ m \notin Stored => IntakeStores
         /\ TurnRecords => Answered(m)'
         /\ m <= Len(log) \/ m \notin Written
<1>1. log \in Seq(Message) /\ DOMAIN log = 1 .. Len(log) /\ Len(log) \in Nat
  BY LenProperties DEF TypeOK
<1>2. ASSUME NEW row \in Message, log' = Append(log, row)
      PROVE  /\ DOMAIN log' = 1 .. Len(log) + 1 /\ log'[Len(log) + 1] = row
             /\ \A i \in 1 .. Len(log) : log'[i] = log[i]
  BY <1>1, <1>2, AppendProperties, LenProperties
<1>3. m <= Len(log) \/ m \notin Written
  BY <1>1 DEF Written
<1>4. CASE Writes
  <2>1. PICK words \in BOOLEAN :
          log' = Append(log, [by |-> "CONTACT", stored |-> FALSE, words |-> words])
    BY <1>4 DEF Writes
  <2>2. [by |-> "CONTACT", stored |-> FALSE, words |-> words] \in Message
    BY DEF Message
  <2>3. /\ DOMAIN log' = 1 .. Len(log) + 1
        /\ log'[Len(log) + 1] = [by |-> "CONTACT", stored |-> FALSE, words |-> words]
        /\ \A i \in 1 .. Len(log) : log'[i] = log[i]
    BY <1>2, <2>1, <2>2
  <2>4. m \in 1 .. Len(log) \/ m = Len(log) + 1
    BY <1>1, <2>3 DEF Written
  <2>5. /\ m \in 1 .. Len(log) => m \in Written /\ (m \in Stored' => m \in Stored)
        /\ m = Len(log) + 1 => m \notin Stored'
    BY <1>1, <2>3 DEF Written, Stored
  <2>6. ~ TurnRecords
    <3>1. Row("AI") \in Message /\ Row("AI").by = "AI"
      BY DEF Row, Message
    <3>2. TurnRecords => log'[Len(log) + 1] = Row("AI")
      BY <1>2, <3>1 DEF TurnRecords
    <3> QED
      BY <2>3, <3>1, <3>2
  <2> QED
    BY <1>3, <2>4, <2>5, <2>6
<1>5. CASE StaffWrites \/ TurnRecords
  <2>1. Row("STAFF") \in Message /\ Row("AI") \in Message
    BY DEF Row, Message
  <2>2. PICK by \in {"STAFF", "AI"} : log' = Append(log, Row(by))
    BY <1>5 DEF StaffWrites, TurnRecords
  <2>3. /\ DOMAIN log' = 1 .. Len(log) + 1 /\ log'[Len(log) + 1] = Row(by)
        /\ \A i \in 1 .. Len(log) : log'[i] = log[i]
    BY <1>2, <2>1, <2>2
  <2>4. Row(by).by # "CONTACT"
    BY DEF Row
  <2>5. m \in 1 .. Len(log)
    BY <1>1, <2>3, <2>4 DEF Written
  <2>6. m \in Written /\ (m \in Stored' => m \in Stored)
    BY <1>1, <2>3, <2>5 DEF Written, Stored
  <2>7. Answered(m)'
    <3>1. Len(log) + 1 \in DOMAIN log' /\ Len(log) + 1 > m
      BY <1>1, <2>3, <2>5
    <3> QED
      BY <2>3, <2>4, <3>1 DEF Answered
  <2> QED
    BY <1>3, <2>6, <2>7
<1>6. CASE IntakeStores
  <2>1. log' = [log EXCEPT ![intake.at].stored = TRUE]
    BY <1>6 DEF IntakeStores
  <2>2. intake.at \in 1 .. Len(log)
    <3>1. intake # AtRest
      BY <1>6 DEF IntakeStores, AtRest
    <3> QED
      BY <1>1, <3>1 DEF TypeOK, Written
  <2>3. log \in [1 .. Len(log) -> Message]
    BY <1>1, LenProperties
  <2>4. DOMAIN log' = DOMAIN log /\ \A i \in DOMAIN log : log'[i].by = log[i].by
    BY <1>1, <2>1, <2>2, <2>3 DEF Message
  <2>5. m \in Written
    BY <2>4 DEF Written
  <2>6. ~ TurnRecords
    <3>1. intake \in Taking
      BY DEF TypeOK
    <3>2. intake.step = "insert" /\ intake'.step = "update"
      BY <1>6, <3>1 DEF IntakeStores, Taking
    <3>3. TurnRecords => intake' = intake
      BY DEF TurnRecords
    <3> QED
      BY <3>2, <3>3
  <2> QED
    BY <1>3, <1>6, <2>5, <2>6
<1>7. CASE log' = log /\ ~ TurnRecords
  BY <1>3, <1>7 DEF Written, Stored
<1>8. Writes \/ StaffWrites \/ TurnRecords \/ IntakeStores \/ log' = log
  <2>1. Turn => TurnRecords \/ log' = log
    BY DEF Turn, TurnReads, TurnGathers, TurnThinks, TurnFlags, TurnChecks, TurnSends, TurnSettles,
       TurnAsksAgain, TurnLooks, TurnQueues
  <2>2. IntakeStep => IntakeStores \/ log' = log
    BY DEF IntakeStep, IntakeReads, IntakeUpdates, IntakeLooks, IntakeQueues, IntakeFails
  <2>3. StaffStep => StaffWrites \/ log' = log
    BY DEF StaffStep, StaffTakes, SwitchOff, PauseEnds
  <2>4. QueueStep \/ TurnFails \/ Restart => log' = log
    BY WhatTheyLeaveAlone
  <2> QED
    BY <2>1, <2>2, <2>3, <2>4, StepsByActor
<1> QED
  BY <1>4, <1>5, <1>6, <1>7, <1>8

(* A request for a reply that finds room puts a job in the queue, and one  *)
(* that finds none leaves the others' claims alone.                        *)
LEMMA QueueSees ==
  ASSUME TypeOK, NEW id \in JobIds, Queue(id), ~ crowded'
  PROVE  /\ WillAdd(id) => \E j \in JobIds : job'[j].at = "waiting"
         /\ \A j \in JobIds : job[j].at = "waiting" => job'[j].at = "waiting"
         /\ \A other \in JobIds : WillAdd(other) => WillAdd(other)'
<1>1. job \in [JobIds -> ReplyJob] /\ "main" \in JobIds /\ "next" \in JobIds
  BY DEF TypeOK, JobIds
<1>2. id = "next" => job[id].at # "active"
  BY DEF Queue
<1>3. CASE job[id].at = "none"
  <2>1. job' = [job EXCEPT ![id].at = "waiting"]
    BY <1>3 DEF Queue
  <2>2. job'[id].at = "waiting" /\ \A j \in JobIds \ {id} : job'[j] = job[j]
    BY <1>1, <2>1 DEF ReplyJob
  <2> QED
    BY <1>1, <2>2 DEF WillAdd
<1>4. CASE job[id].at # "none"
  <2>1. job' = job
    BY <1>4 DEF Queue
  <2>2. job[id].at \in {"waiting", "active"}
    BY <1>1, <1>4 DEF ReplyJob
  <2>3. WillAdd(id) => job[id].at = "waiting"
    BY <1>2, <2>2 DEF WillAdd, JobIds
  <2> QED
    BY <2>1, <2>3 DEF WillAdd
<1> QED
  BY <1>3, <1>4

(* The intake keeps what it has begun, and so does everyone beside it.     *)
LEMMA IntakeSees ==
  ASSUME TypeOK, NEW m, WillSee(m), IntakeStep, ~ IntakeFails, ~ crowded'
  PROVE  WillSee(m)'
<1>1. /\ intake \in Taking /\ turn \in Turning
      /\ paused' = paused /\ staff' = staff /\ chain' = chain /\ turn' = turn
  BY WhatTheyLeaveAlone DEF TypeOK
<1>2. CASE IntakeReads
  <2>1. ~ IntakeWill
    BY <1>2 DEF IntakeReads, IntakeWill, AtRest
  <2>2. needsStaff' = needsStaff /\ job' = job
    BY <1>2 DEF IntakeReads
  <2> QED
    BY <1>1, <2>1, <2>2 DEF WillSee, PersonWill, JobWill, TurnWill, Asking, WillAdd
<1>3. CASE IntakeStores \/ (IntakeUpdates /\ intake.answers)
  <2>1. intake'.step \in {"update", "look"}
    BY <1>1, <1>3 DEF IntakeStores, IntakeUpdates, Taking
  <2> QED
    BY <2>1 DEF WillSee, IntakeWill
<1>4. CASE IntakeUpdates /\ ~ intake.answers
  BY <1>4 DEF IntakeUpdates, WillSee, PersonWill
<1>5. CASE IntakeLooks
  <2>1. intake'.step = "add" /\ intake'.id = IdToQueue /\ job' = job
    BY <1>1, <1>5 DEF IntakeLooks, Taking
  <2>2. WillAdd(IdToQueue)'
    BY <2>1 DEF WillAdd, IdToQueue
  <2>3. IdToQueue' = IdToQueue
    BY <2>1 DEF IdToQueue
  <2> QED
    BY <2>1, <2>2, <2>3 DEF WillSee, IntakeWill, WillAdd
<1>6. CASE IntakeQueues
  <2>1. intake.id \in JobIds /\ turn.id \in JobIds /\ intake.step = "add" /\ Queue(intake.id)
    BY <1>1, <1>6 DEF IntakeQueues, Taking, Turning
  <2>2. /\ WillAdd(intake.id) => \E j \in JobIds : job'[j].at = "waiting"
        /\ \A j \in JobIds : job[j].at = "waiting" => job'[j].at = "waiting"
        /\ WillAdd(turn.id) => WillAdd(turn.id)'
    BY <1>1, <2>1, QueueSees
  <2>3. IntakeWill => JobWill'
    BY <2>1, <2>2 DEF IntakeWill, JobWill
  <2>4. JobWill => JobWill'
    BY <1>1, <2>2 DEF JobWill
  <2>5. TurnWill(m) => TurnWill(m)'
    BY <1>1, <2>2 DEF TurnWill, Asking
  <2>6. PersonWill => PersonWill'
    BY <1>1, <1>6 DEF IntakeQueues, PersonWill
  <2> QED
    BY <2>3, <2>4, <2>5, <2>6 DEF WillSee
<1> QED
  BY <1>2, <1>3, <1>4, <1>5, <1>6 DEF IntakeStep

(* A worker that takes a job takes it on, and a job is removed only after  *)
(* its turn.                                                               *)
LEMMA QueueStepSees ==
  ASSUME TypeOK, NEW m, WillSee(m), QueueStep
  PROVE  WillSee(m)'
<1>1. PICK j \in JobIds : Take(j) \/ Done(j)
  BY DEF QueueStep
<1>2. /\ chain \in Seq(JobIds) /\ (turn # NoTurn => chain # <<>>) /\ job \in [JobIds -> ReplyJob]
      /\ UNCHANGED <<needsStaff, paused, intake, turn, staff>>
  BY WhatTheyLeaveAlone DEF TypeOK
<1>3. CASE Take(j)
  <2>1. chain' = Append(chain, j)
    BY <1>3 DEF Take
  <2>2. Len(chain') = Len(chain) + 1 /\ Len(chain) \in Nat /\ chain' \in Seq(JobIds)
    BY <1>2, <2>1, AppendProperties, LenProperties
  <2>3. chain' # <<>> /\ (chain # <<>> => Len(chain') > 1)
    BY <1>2, <2>2, EmptySeq
  <2> QED
    BY <1>2, <2>3 DEF WillSee, JobWill
<1>4. CASE Done(j)
  <2>1. /\ chain' = chain /\ job[j].at = "active" /\ job' = [job EXCEPT ![j] = NoJob]
    BY <1>4 DEF Done
  <2>2. /\ \A k \in JobIds : job[k].at = "waiting" => job'[k].at = "waiting"
        /\ \A k \in JobIds : job[k].at # "active" => job'[k].at # "active"
    BY <1>2, <2>1 DEF NoJob
  <2>3. \A id : WillAdd(id) => WillAdd(id)'
    BY <2>2 DEF WillAdd, JobIds
  <2>4. IntakeWill => IntakeWill'
    BY <1>2, <2>3 DEF IntakeWill
  <2>5. TurnWill(m) => TurnWill(m)'
    BY <1>2, <2>3 DEF TurnWill, Asking
  <2>6. JobWill => JobWill'
    BY <1>2, <2>1, <2>2 DEF JobWill
  <2> QED
    BY <1>2, <2>4, <2>5, <2>6 DEF WillSee, PersonWill
<1> QED
  BY <1>1, <1>3, <1>4

(* A turn that ends or goes on leaves the jobs behind it their turns.      *)
LEMMA OthersKeepTheirTurn ==
  ASSUME TypeOK, Turn, ~ TurnReads, ~ crowded', JobWill
  PROVE  JobWill'
<1>1. turn # NoTurn /\ chain # <<>>
  <2>1. turn.step # "idle"
    BY DEF Turn, TurnGathers, TurnThinks, TurnFlags, TurnChecks, TurnSends, TurnRecords,
       TurnSettles, TurnAsksAgain, TurnLooks, TurnQueues
  <2> QED
    BY <2>1 DEF NoTurn, TypeOK
<1>2. \A j \in JobIds : job[j].at = "waiting" => job'[j].at = "waiting"
  <2>1. CASE TurnQueues
    <3>1. turn.id \in JobIds /\ Queue(turn.id)
      BY <2>1 DEF TurnQueues, TypeOK, Turning
    <3> QED
      BY <3>1, QueueSees
  <2>2. ~ TurnQueues => job' = job
    BY DEF Turn, TurnReads, TurnGathers, TurnThinks, TurnFlags, TurnChecks, TurnSends, TurnRecords,
       TurnSettles, TurnAsksAgain, TurnLooks
  <2> QED
    BY <2>1, <2>2
<1>3. Len(chain) > 1 => Len(chain') > 1 \/ (turn' = NoTurn /\ chain' # <<>>)
  <2>1. CASE chain' = chain
    BY <2>1
  <2>2. CASE turn' = NoTurn /\ chain' = Tail(chain)
    <3>1. /\ chain \in Seq(JobIds)
          /\ \A i, k \in DOMAIN chain : chain[i] = chain[k] => i = k
      BY DEF TypeOK
    <3>2. Tail(chain) \in Seq(JobIds) /\ Len(Tail(chain)) = Len(chain) - 1 /\ Len(chain) \in Nat
      BY <1>1, <3>1, TailOf
    <3>3. Len(chain) > 1 => Len(Tail(chain)) # 0
      BY <3>2
    <3> QED
      BY <2>2, <3>2, <3>3, EmptySeq
  <2> QED
    BY <2>1, <2>2, TurnGoesOn
<1> QED
  BY <1>1, <1>2, <1>3 DEF JobWill

(* A turn sees to a message that waits, or leaves it to who saw to it.     *)
LEMMA TurnSees ==
  ASSUME TypeOK, SentInTurn, NEW m \in Stored, WillSee(m), ~ Answered(m), told'[m] = 0,
         Turn, ~ TurnRecords, ~ crowded'
  PROVE  WillSee(m)'
<1>1. /\ turn \in Turning /\ m \in Nat /\ turn.started \in Nat
      /\ paused' = paused /\ staff' = staff /\ intake' = intake
  <2>1. m \in 1 .. MaxLog
    BY WordsStay DEF Stored, Next
  <2> QED
    BY <2>1, BoundAssumption, WhatTheyLeaveAlone DEF TypeOK, Turning
<1>2. CASE TurnReads
  <2>1. paused => PersonWill'
    BY <1>1 DEF PersonWill
  <2>2. ~ paused => turn'.step = "gather"
    BY <1>2, TurnSteps DEF TurnReads
  <2> QED
    BY <2>1, <2>2 DEF WillSee, TurnWill
<1>3. ~ TurnReads /\ JobWill => JobWill'
  BY OthersKeepTheirTurn
<1>4. ~ TurnQueues => job' = job
  BY DEF Turn, TurnReads, TurnGathers, TurnThinks, TurnFlags, TurnChecks, TurnSends, TurnRecords,
     TurnSettles, TurnAsksAgain, TurnLooks
<1>5. IntakeWill => IntakeWill'
  <2>1. CASE TurnQueues
    <3>1. turn.id \in JobIds /\ intake.id \in JobIds /\ Queue(turn.id)
      BY <2>1 DEF TurnQueues, TypeOK, Turning, Taking
    <3>2. WillAdd(intake.id) => WillAdd(intake.id)'
      BY <1>1, <3>1, QueueSees
    <3> QED
      BY <1>1, <3>2 DEF IntakeWill
  <2>2. CASE ~ TurnQueues
    BY <1>1, <1>4, <2>2 DEF IntakeWill, WillAdd
  <2> QED
    BY <2>1, <2>2
<1>6. ASSUME needsStaff' = needsStaff, ~ TurnReads, ~ TurnWill(m)
      PROVE  WillSee(m)'
  BY <1>1, <1>3, <1>5, <1>6 DEF WillSee, PersonWill
<1>7. CASE TurnGathers
  <2>1. m \in Unanswered
    BY DEF Unanswered, Answered
  <2>2. \/ turn'.step = "flag"
        \/ turn'.step = "think" /\ turn'.asked = Unanswered
    BY <1>7, <2>1, TurnSteps DEF TurnGathers
  <2> QED
    BY <2>1, <2>2 DEF WillSee, TurnWill, Asking
<1>8. CASE TurnThinks
  <2>1. turn.step = "think" /\ needsStaff' = needsStaff /\ ~ TurnReads
    BY <1>8 DEF TurnThinks, TurnReads, NoTurn
  <2>2. turn'.step \in {"check", "flag", "later"} /\ turn'.asked = turn.asked
    BY <1>8, TurnSteps DEF TurnThinks
  <2>3. TurnWill(m) => m \in turn.asked
    BY <2>1 DEF TurnWill, Asking
  <2>4. m \in turn.asked => TurnWill(m)'
    BY <2>2 DEF TurnWill, Asking
  <2> QED
    BY <1>6, <2>1, <2>3, <2>4 DEF WillSee
<1>9. CASE TurnFlags
  BY <1>9 DEF TurnFlags, WillSee, PersonWill
<1>10. CASE TurnChecks
  <2>1. turn.step = "check" /\ needsStaff' = needsStaff /\ ~ TurnReads
    BY <1>10 DEF TurnChecks, TurnReads, NoTurn
  <2>2. paused => PersonWill'
    BY <1>1 DEF PersonWill
  <2>3. ~ paused => turn'.step = "send" /\ turn'.asked = turn.asked
    BY <1>10, TurnSteps DEF TurnChecks
  <2>4. TurnWill(m) => m \in turn.asked
    BY <2>1 DEF TurnWill, Asking
  <2> QED
    BY <1>6, <2>1, <2>2, <2>3, <2>4 DEF WillSee, TurnWill, Asking
<1>11. CASE TurnSends
  <2>1. turn.step = "send" /\ needsStaff' = needsStaff /\ ~ TurnReads
    BY <1>11 DEF TurnSends, TurnReads, NoTurn
  <2>2. CASE turn' = [turn EXCEPT !.step = "settle"]
    <3>1. turn'.step = "settle" /\ ~ turn'.sent
      BY <2>1, <2>2, TurnSteps DEF SentInTurn
    <3> QED
      BY <3>1 DEF WillSee, TurnWill
  <2>3. CASE told' = [k \in DOMAIN told |-> told[k] + IF k \in turn.asked THEN 1 ELSE 0]
    <3>1. m \in 1 .. MaxLog /\ told \in [1 .. MaxLog -> Nat]
      BY WordsStay DEF TypeOK, Stored, Next
    <3>2. m \notin turn.asked
      BY <2>3, <3>1
    <3>3. ~ TurnWill(m)
      BY <2>1, <3>2 DEF TurnWill, Asking
    <3> QED
      BY <1>6, <2>1, <3>3
  <2> QED
    BY <1>11, <2>2, <2>3 DEF TurnSends
<1>12. CASE TurnSettles
  <2>1. needsStaff' = ~ turn.sent /\ turn'.step = "again" /\ turn'.started = turn.started
    BY <1>12, TurnSteps DEF TurnSettles
  <2>2. CASE ~ turn.sent
    BY <2>1, <2>2 DEF WillSee, PersonWill
  <2>3. CASE turn.sent
    <3>1. PICK a \in DOMAIN log : a > turn.started /\ log[a].by # "CONTACT"
      BY <1>12, <2>3 DEF TurnSettles, SentInTurn
    <3>2. a \in Nat /\ ~ (a > m)
      BY <3>1, LenProperties DEF Answered, TypeOK
    <3>3. m > turn.started
      BY <1>1, <3>1, <3>2
    <3> QED
      BY <2>1, <3>3 DEF WillSee, TurnWill
  <2> QED
    BY <1>1, <2>2, <2>3 DEF Turning
<1>13. CASE TurnAsksAgain
  <2>1. turn.step = "again" /\ needsStaff' = needsStaff /\ ~ TurnReads
    BY <1>13 DEF TurnAsksAgain, TurnReads, NoTurn
  <2>2. TurnWill(m) => m > turn.started
    BY <2>1 DEF TurnWill, Asking
  <2>3. m > turn.started => turn'.step = "look"
    BY <1>13, TurnSteps DEF TurnAsksAgain
  <2> QED
    BY <1>6, <2>1, <2>2, <2>3 DEF WillSee, TurnWill
<1>14. CASE TurnLooks
  <2>1. turn'.step = "add" /\ turn'.id = IdToQueue /\ job' = job
    BY <1>1, <1>14 DEF TurnLooks, Turning
  <2>2. WillAdd(turn.id)'
    BY <2>1 DEF WillAdd, IdToQueue
  <2> QED
    BY <2>1, <2>2 DEF WillSee, TurnWill
<1>15. CASE TurnQueues
  <2>1. turn.step = "add" /\ needsStaff' = needsStaff /\ ~ TurnReads
    BY <1>15 DEF TurnQueues, TurnReads, NoTurn
  <2>2. turn.id \in JobIds /\ Queue(turn.id)
    BY <1>1, <1>15 DEF TurnQueues, Turning
  <2>3. WillAdd(turn.id) => JobWill'
    BY <2>2, QueueSees DEF JobWill
  <2>4. TurnWill(m) => WillAdd(turn.id)
    BY <2>1 DEF TurnWill, Asking
  <2> QED
    BY <1>6, <2>1, <2>3, <2>4 DEF WillSee
<1> QED
  BY <1>2, <1>7, <1>8, <1>9, <1>10, <1>11, <1>12, <1>13, <1>14, <1>15 DEF Turn

(* What is stored and waits goes on being seen to, whoever takes the step. *)
LEMMA NoneOverlookedStays ==
  ASSUME TypeOK, TypeOK', SentInTurn, NoneOverlooked, Next
  PROVE  NoneOverlooked'
<1> SUFFICES ASSUME faults' = 0, ~ crowded', NEW m \in Stored', Waits(m)'
             PROVE  WillSee(m)'
  BY DEF NoneOverlooked
<1>1. faults = 0 /\ ~ IntakeFails /\ ~ TurnFails /\ ~ Restart /\ ~ crowded
  BY GhostsStay
<1>2. /\ m \in Written' /\ m \in Written /\ (m \notin Stored => IntakeStores)
      /\ ~ TurnRecords /\ ~ Answered(m) /\ told'[m] = 0 /\ m > takenAt'
  <2>1. m \in Written'
    BY DEF Stored
  <2>2. ~ Answered(m)
    BY WordsStay DEF Waits
  <2> QED
    BY <2>1, <2>2, NewWords DEF Waits
<1>3. CASE m \notin Stored
  <2>1. intake \in Taking /\ IntakeStores
    BY <1>2, <1>3 DEF TypeOK
  <2>2. intake'.step = "update"
    BY <2>1 DEF IntakeStores, Taking
  <2> QED
    BY <2>2 DEF WillSee, IntakeWill
<1>4. CASE m \in Stored
  <2>1. ~ PauseEnds /\ m > takenAt
    <3>1. m \in 1 .. Len(log) /\ Len(log) \in Nat
      BY <1>2, LenProperties DEF Written, TypeOK
    <3>2. ~ PauseEnds
      BY <1>2, <3>1 DEF PauseEnds
    <3>3. StaffStep => takenAt' = takenAt
      BY <3>2 DEF StaffStep, StaffWrites, StaffTakes, SwitchOff
    <3> QED
      BY <1>2, <3>2, <3>3, StepsByActor, WhatTheyLeaveAlone
  <2>2. told[m] = 0
    <3>1. m \in 1 .. MaxLog /\ told \in [1 .. MaxLog -> Nat] /\ told' \in [1 .. MaxLog -> Nat]
      BY <1>2, WordsStay DEF TypeOK
    <3>2. told' = told \/ told' = [k \in DOMAIN told |-> told[k] + IF k \in turn.asked THEN 1 ELSE 0]
      <4>1. Turn => \/ told' = told
                    \/ told' = [k \in DOMAIN told |-> told[k] + IF k \in turn.asked THEN 1 ELSE 0]
        BY DEF Turn, TurnReads, TurnGathers, TurnThinks, TurnFlags, TurnChecks, TurnSends,
           TurnRecords, TurnSettles, TurnAsksAgain, TurnLooks, TurnQueues, ghosts
      <4> QED
        BY <4>1, StepsByActor, WhatTheyLeaveAlone
    <3> QED
      BY <1>2, <3>1, <3>2
  <2>3. WillSee(m)
    BY <1>1, <1>2, <1>4, <2>1, <2>2 DEF NoneOverlooked, Waits
  <2>4. Writes => WillSee(m)'
    BY <2>3, WhatTheyLeaveAlone DEF WillSee, PersonWill, IntakeWill, JobWill, TurnWill, Asking, WillAdd
  <2>5. StaffStep => WillSee(m)'
    BY <2>1 DEF StaffStep, StaffWrites, StaffTakes, SwitchOff, WillSee, PersonWill
  <2> QED
    BY <1>1, <1>2, <1>4, <2>3, <2>4, <2>5, StepsByActor, IntakeSees, QueueStepSees, TurnSees
<1> QED
  BY <1>3, <1>4

-----------------------------------------------------------------------------
(* A thread begins with nobody waiting.                                    *)
LEMMA InitIInv == Init => IInv
<1> SUFFICES ASSUME Init
             PROVE  IInv
  OBVIOUS
<1>1. /\ MaxLog \in Nat /\ MaxTakes \in Nat /\ Attempts \in Nat /\ MaxFaults \in Nat
  BY BoundAssumption
<1>2. /\ log = <<>> /\ log \in Seq(Message) /\ Len(log) = 0 /\ DOMAIN log = {}
      /\ chain = <<>> /\ chain \in Seq(JobIds) /\ DOMAIN chain = {}
  BY EmptySeq DEF Init
<1>3. Written = {} /\ Stored = {}
  BY <1>2 DEF Written, Stored
<1>4. TypeOK
  <2>1. {needsStaff, paused, staff, barred, over, crowded} \subseteq BOOLEAN
    BY DEF Init
  <2>2. job \in [JobIds -> ReplyJob]
    BY <1>1 DEF Init, NoJob, ReplyJob
  <2>3. intake = AtRest /\ intake \in Taking
    BY <1>1 DEF Init, AtRest, Taking, JobIds
  <2>4. turn = NoTurn /\ turn \in Turning /\ turn.started = 0 /\ turn.asked = {}
    BY <1>1 DEF Init, NoTurn, Turning, JobIds
  <2>5. /\ takenAt \in 0 .. MaxLog /\ takes \in 0 .. MaxTakes
        /\ told \in [1 .. MaxLog -> Nat] /\ faults \in 0 .. MaxFaults
    BY <1>1 DEF Init
  <2> QED
    BY <1>1, <1>2, <1>3, <2>1, <2>2, <2>3, <2>4, <2>5 DEF TypeOK
<1>5. ToldOnce
  BY DEF Init, ToldOnce
<1>6. turn.step = "idle" /\ ~ turn.sent
  BY DEF Init, NoTurn
<1> QED
  BY <1>3, <1>4, <1>5, <1>6 DEF IInv, PassedInTime, SentInTurn, NoneOverlooked, Init

(* Every step keeps the invariant.                                         *)
LEMMA NextIInv == IInv /\ [Next]_vars => IInv'
<1> SUFFICES ASSUME IInv, [Next]_vars
             PROVE  IInv'
  OBVIOUS
<1>1. CASE Next
  BY <1>1, TypesStay, ToldOnceStays, PassedInTimeStays, SentInTurnStays, NoneOverlookedStays DEF IInv
<1>2. CASE UNCHANGED vars
  <2>1. UNCHANGED <<log, needsStaff, paused, job, chain, intake, turn, staff,
                    takenAt, takes, told, barred, over, crowded, faults>>
    BY <1>2 DEF vars, ghosts
  <2>2. /\ Written' = Written /\ Stored' = Stored
        /\ \A m : Answered(m)' = Answered(m) /\ Asking(m)' = Asking(m)
    BY <2>1 DEF Written, Stored, Answered, Asking
  <2>3. TypeOK'
    BY <2>1, <2>2 DEF IInv, TypeOK
  <2>4. ToldOnce'
    BY <2>1, <2>2 DEF IInv, ToldOnce, MayBeTold
  <2>5. PassedInTime' /\ SentInTurn' /\ ~ over'
    BY <2>1 DEF IInv, PassedInTime, SentInTurn
  <2>6. \A m : WillSee(m)' = WillSee(m) /\ Waits(m)' = Waits(m)
    BY <2>1, <2>2 DEF WillSee, Waits, PersonWill, IntakeWill, JobWill, TurnWill, WillAdd
  <2>7. NoneOverlooked'
    BY <2>1, <2>2, <2>6 DEF IInv, NoneOverlooked
  <2> QED
    BY <2>3, <2>4, <2>5, <2>7 DEF IInv
<1> QED
  BY <1>1, <1>2

(* The invariant from which all that follows is read off.                  *)
THEOREM Invariance == Spec => []IInv
BY InitIInv, NextIInv, PTL DEF Spec

(* A job has one place in the chain of turns and is running while it has   *)
(* it; only the head of the chain has a turn (FacebookReplyProcessor).     *)
THEOREM TypeCorrect == Spec => []TypeOK
<1>1. IInv => TypeOK
  BY DEF IInv
<1> QED
  BY <1>1, Invariance, PTL

(* No message is in the question of two answers that Meta took, but once   *)
(* more for every fault (reply, which asks with all that is unanswered).   *)
THEOREM AnsweredOnceHolds == Spec => []AnsweredOnce
<1>1. IInv => AnsweredOnce
  <2> SUFFICES ASSUME IInv, NEW m \in Written
               PROVE  told[m] <= 1 + faults
    BY DEF AnsweredOnce
  <2>1. /\ log \in Seq(Message) /\ Len(log) \in Nat /\ Len(log) <= MaxLog /\ MaxLog \in Nat
        /\ DOMAIN log = 1 .. Len(log)
    BY BoundAssumption, LenProperties DEF IInv, TypeOK
  <2>2. m \in 1 .. MaxLog
    BY <2>1 DEF Written
  <2>3. told[m] \in Nat /\ faults \in Nat
    BY <2>2, BoundAssumption DEF IInv, TypeOK
  <2>4. told[m] + (IF MayBeTold(m) THEN 1 ELSE 0) <= 1 + faults
    BY <2>2 DEF IInv, ToldOnce
  <2> QED
    BY <2>3, <2>4
<1> QED
  BY <1>1, Invariance, PTL

(* While a person has the thread no answer is sent that had not passed its *)
(* check by then (the re-check of the pause before deliver).               *)
THEOREM QuietWhileTakenHolds == Spec => []QuietWhileTaken
<1>1. IInv => QuietWhileTaken
  BY DEF IInv, QuietWhileTaken
<1> QED
  BY <1>1, Invariance, PTL

(* When all is quiet and nobody is called, a message that was in nobody's  *)
(* question lies behind an answer (askAgainIfMoreArrived, queueReply).     *)
THEOREM OverlookedBehindAnAnswerHolds == Spec => []OverlookedBehindAnAnswer
<1>1. IInv => OverlookedBehindAnAnswer
  <2> SUFFICES ASSUME IInv, AllQuiet, ~ needsStaff, ~ crowded, faults = 0, NEW m \in Overlooked,
                      ~ Answered(m)
               PROVE  FALSE
    BY DEF OverlookedBehindAnAnswer, Answered
  <2>1. m \in Stored /\ Waits(m)
    BY DEF Overlooked, Waits
  <2>2. WillSee(m)
    BY <2>1 DEF IInv, NoneOverlooked
  <2>3. ~ PersonWill /\ ~ IntakeWill
    BY DEF AllQuiet, PersonWill, IntakeWill, AtRest
  <2>4. turn = NoTurn /\ chain = <<>>
    <3>1. turn = NoTurn /\ \A j \in JobIds : job[j].at = "none"
      BY DEF AllQuiet
    <3>2. /\ chain \in Seq(JobIds) /\ \A k \in DOMAIN chain : job[chain[k]].at = "active"
      BY DEF IInv, TypeOK
    <3>3. DOMAIN chain = 1 .. Len(chain) /\ Len(chain) \in Nat
          /\ \A k \in DOMAIN chain : chain[k] \in JobIds
      BY <3>2, LenProperties
    <3>4. Len(chain) = 0
      <4>1. SUFFICES ASSUME 1 \in DOMAIN chain
                     PROVE  FALSE
        BY <3>3
      <4>2. job[chain[1]].at = "active" /\ job[chain[1]].at = "none"
        BY <3>1, <3>2, <3>3, <4>1
      <4> QED
        BY <4>2
    <3> QED
      BY <3>1, <3>2, <3>4, EmptySeq
  <2>5. ~ JobWill
    BY <2>4, EmptySeq DEF JobWill, AllQuiet
  <2>6. ~ TurnWill(m)
    BY <2>4 DEF TurnWill, Asking, NoTurn
  <2> QED
    BY <2>2, <2>3, <2>5, <2>6 DEF WillSee
<1> QED
  BY <1>1, Invariance, PTL
=============================================================================
