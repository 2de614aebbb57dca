------------------------------ MODULE TypeProofs ------------------------------
(***************************************************************************)
(* Type correctness: every step of every process leaves every variable in  *)
(* its type, for every number of rows, runs, jobs and messages.  First     *)
(* what the operators of Store, and those of each process on a lead or a   *)
(* thread, return: rows of the right type.                                 *)
(***************************************************************************)
EXTENDS Conversation, TLAPS

\* The bounds are natural numbers.
LEMMA Bounds ==
  /\ MaxAttempts \in Nat /\ StaleAfter \in Nat /\ RetryAfter \in Nat
  /\ StepDelay \in Nat /\ Steps \in Nat /\ BackOff \in Nat
  /\ WindowLength \in Nat /\ MaxBubbles \in Nat /\ MaxSaid \in Nat
  /\ MaxMoves \in Nat /\ MaxCrashes \in Nat
BY StoreAssumption

\* The ORM's write-back of a lead is a lead.
LEMMA FlushLead ==
  ASSUME NEW db \in LeadType, NEW seen \in LeadType, NEW new \in LeadType
  PROVE  Flush(db, seen, new) \in LeadType
BY DEF Flush, LeadType

\* The ORM's write-back of a thread is a thread.
LEMMA FlushThreadRow ==
  ASSUME NEW db \in ThreadType, NEW seen \in ThreadType, NEW new \in ThreadType
  PROVE  Flush(db, seen, new) \in ThreadType
BY DEF Flush, ThreadType

\* A queue of which some rows were retired is a queue.
LEMMA RetireType ==
  ASSUME NEW box \in [Rows -> RowType], NEW which, NEW status \in Status
  PROVE  Retire(box, which, status) \in [Rows -> RowType]
BY DEF Retire, RowType

\* So is one that was swept.
LEMMA SweepStaleType ==
  ASSUME NEW box \in [Rows -> RowType]
  PROVE  SweepStale(box) \in [Rows -> RowType]
BY RetireType DEF SweepStale, Status

LEMMA SweepUndeliverableType ==
  ASSUME NEW box \in [Rows -> RowType]
  PROVE  SweepUndeliverable(box) \in [Rows -> RowType]
BY RetireType DEF SweepUndeliverable, Status

\* So is one to which lines were added.
LEMMA ComposeType ==
  ASSUME NEW box \in [Rows -> RowType], NEW new, NEW src \in Source,
         NEW wait \in Nat
  PROVE  Compose(box, new, src, wait) \in [Rows -> RowType]
<1>1. FreeRow \in RowType
  BY Bounds DEF RowType, FreeRow, Status, Source
<1>2. "pending" \in Status
  BY DEF Status
<1>3. [FreeRow EXCEPT !.status = "pending", !.source = src, !.wait = wait]
        \in RowType
  BY <1>1, <1>2 DEF RowType
<1>4. QED
  BY <1>3 DEF Compose

\* So is one in which a run settled its row.
LEMMA SettleType ==
  ASSUME NEW box \in [Rows -> RowType], NEW r \in Rows, NEW status \in Status
  PROVE  Settle(box, r, status) \in [Rows -> RowType]
BY DEF Settle, RowType

\* A delay that has partly passed is a delay.
LEMMA LeftType ==
  ASSUME NEW delay \in Nat, NEW e \in Nat
  PROVE  Left(delay, e) \in Nat
BY DEF Left

\* A parked lead is a lead.
LEMMA ParkDormantType ==
  ASSUME NEW l \in LeadType, NEW respectHumanLed
  PROVE  ParkDormant(l, respectHumanLed) \in LeadType
BY DEF ParkDormant, LeadType, Stage

\* A lead moved to a stage is a lead.
LEMMA ApplyStageType ==
  ASSUME NEW l \in LeadType, NEW target \in Stage
  PROVE  ApplyStage(l, target) \in LeadType
BY DEF ApplyStage, LeadType, Stage, BotSilent

\* A thread with the next nudge planned is a thread.
LEMMA PlannedThreadType ==
  ASSUME NEW th \in ThreadType, NEW l \in LeadType, NEW source
  PROVE  PlannedThread(th, l, source) \in ThreadType
<1> DEFINE steps == IF source = "followup" THEN th.steps + 1 ELSE th.steps
           armed == th.timer # Never /\ th.timer > StepDelay
           timer == IF armed THEN th.timer ELSE StepDelay
<1>1. steps \in Nat /\ timer \in Nat \cup {Never}
  BY Bounds DEF ThreadType
<1>2. ASSUME NEW s \in Nat, NEW t \in Nat \cup {Never}
      PROVE  /\ [th EXCEPT !.steps = s, !.timer = t] \in ThreadType
             /\ [th EXCEPT !.timer = t] \in ThreadType
  BY DEF ThreadType
<1>3. Never \in Nat \cup {Never}
  OBVIOUS
<1>4. /\ [th EXCEPT !.steps = steps, !.timer = timer] \in ThreadType
      /\ [th EXCEPT !.steps = steps, !.timer = Never] \in ThreadType
      /\ [th EXCEPT !.timer = Never] \in ThreadType
  BY <1>1, <1>2, <1>3
<1>5. QED
  BY <1>4 DEF PlannedThread

\* A run's write-back of its thread is a thread.
LEMMA FlushThreadType ==
  ASSUME thread \in ThreadType, NEW seen \in ThreadType,
         NEW new \in ThreadType, NEW e \in Nat
  PROVE  FlushThread(seen, new, e) \in ThreadType
<1>1. Flush(thread, seen, new) \in ThreadType
  BY FlushThreadRow
<1>2. ASSUME NEW th \in ThreadType, NEW t \in Nat \cup {Never}
      PROVE  [th EXCEPT !.timer = t] \in ThreadType
  BY DEF ThreadType
<1>3. new.timer # Never => Left(new.timer, e) \in Nat
  BY LeftType DEF ThreadType
<1>4. QED
  BY <1>1, <1>2, <1>3 DEF FlushThread, ThreadType

\* A lead after a turn of the bot is a lead.
LEMMA DecidedType ==
  ASSUME NEW l \in LeadType, NEW outcome, NEW nonTarget \in BOOLEAN, NEW soft
  PROVE  Decided(l, outcome, nonTarget, soft) \in LeadType
<1> DEFINE t == [l EXCEPT !.nonTarget = nonTarget]
<1>1. t \in LeadType
  BY DEF LeadType
<1>2. StageFor(t, outcome, soft) \in Stage
  BY <1>1 DEF StageFor, StageForAnyone, LeadType, Stage, HumanLed
<1>3. ASSUME NEW m \in LeadType, NEW s \in Stage
      PROVE  /\ [m EXCEPT !.agent = FALSE] \in LeadType
             /\ [m EXCEPT !.stage = s] \in LeadType
             /\ [m EXCEPT !.stage = s, !.agent = FALSE] \in LeadType
  BY DEF LeadType
<1>4. ParkDormant(t, FALSE) \in LeadType
  BY <1>1, ParkDormantType
<1>5. QED
  BY <1>1, <1>2, <1>3, <1>4 DEF Decided

\* A thread after a turn of the bot is a thread.
LEMMA ThreadsAfterType ==
  ASSUME NEW l, NEW th \in ThreadType, NEW outcome, NEW nonTarget, NEW soft
  PROVE  ThreadsAfter(l, th, outcome, nonTarget, soft) \subseteq ThreadType
<1>1. LastStep \in Nat /\ StepDelay + 1 \in Nat /\ th.steps \in Nat
  BY Bounds DEF LastStep, ThreadType
<1>2. ASSUME NEW m \in ThreadType, NEW s \in Nat, NEW t \in Nat \cup {Never}
      PROVE  /\ [m EXCEPT !.steps = s] \in ThreadType
             /\ [m EXCEPT !.timer = t] \in ThreadType
  BY DEF ThreadType
<1> DEFINE s == IF th.steps < LastStep THEN LastStep ELSE th.steps
           last == [th EXCEPT !.steps = s]
<1>3. last \in ThreadType
  BY <1>1, <1>2
<1>4. [last EXCEPT !.timer = StepDelay + 1] \in ThreadType
  <2> HIDE DEF last
  <2> QED BY <1>1, <1>2, <1>3
<1>5. [th EXCEPT !.timer = Never] \in ThreadType
  BY <1>2
<1>6. Snoozed(th) \subseteq ThreadType
  BY <1>3, <1>4 DEF Snoozed
<1>7. QED
  BY <1>5, <1>6 DEF ThreadsAfter
------------------------------------------------------------------------------
\* The initial state is typed.
LEMMA InitType == Init => TypeOK
<1> SUFFICES ASSUME Init PROVE TypeOK
  OBVIOUS
<1>1. NewLead \in LeadType
  BY DEF NewLead, LeadType, Stage
<1>2. NewThread \in ThreadType
  BY Bounds DEF NewThread, ThreadType
<1>3. FreeRow \in RowType
  BY Bounds DEF RowType, FreeRow, Status, Source
<1>4. IdleTick \in TickType
  BY <1>1, <1>2, Bounds DEF IdleTick, TickType
<1>5. IdleJob \in JobType /\ IdleNudge \in NudgeType
  BY <1>1, <1>2 DEF IdleJob, JobType, IdleNudge, NudgeType
<1>6. [job |-> NoOne, after |-> 0]
        \in [job : ReplyJobs \cup NudgeJobs \cup {NoOne}, after : 0..MaxSaid]
  BY Bounds
<1>7. said \in 0..MaxSaid /\ heard \in 0..said
      /\ moves \in 0..MaxMoves /\ crashes \in 0..MaxCrashes
  BY Bounds DEF Init
<1>8. /\ channel \in [active : BOOLEAN, replies : BOOLEAN, sending : BOOLEAN]
      /\ outbox \in [Rows -> RowType]
      /\ tick \in [Ticks -> TickType]
      /\ job \in [ReplyJobs -> JobType]
      /\ nudge \in [NudgeJobs -> NudgeType]
  BY <1>3, <1>4, <1>5 DEF Init
<1>9. /\ wire \in [Rows -> Nat] /\ stray \in [Rows -> Nat]
      /\ again \in [Rows -> Nat]
      /\ origin \in [Rows -> [job : ReplyJobs \cup NudgeJobs \cup {NoOne},
                              after : 0..MaxSaid]]
  BY <1>6 DEF Init
<1>10. QED
  BY <1>1, <1>2, <1>7, <1>8, <1>9 DEF Init, TypeOK

\* What the steps of a run put into tick.
LEMMA TickMoves ==
  ASSUME TypeOK, NEW k \in Ticks
  PROVE  /\ [tick EXCEPT ![k] = IdleTick] \in [Ticks -> TickType]
         /\ \A pc \in {"listed", "claimed"} :
              [tick EXCEPT ![k].pc = pc] \in [Ticks -> TickType]
         /\ \A a \in {"ok", "soft", "hard"} :
              [tick EXCEPT ![k].pc = "answered", ![k].answer = a]
                \in [Ticks -> TickType]
<1>1. NewLead \in LeadType
  BY DEF NewLead, LeadType, Stage
<1>2. NewThread \in ThreadType
  BY Bounds DEF NewThread, ThreadType
<1>3. IdleTick \in TickType
  BY <1>1, <1>2, Bounds DEF IdleTick, TickType
<1>4. tick \in [Ticks -> TickType]
  BY DEF TypeOK
<1>5. QED
  BY <1>3, <1>4 DEF TickType

\* A run that has read a line knows which.
RunHasRow == \A k \in Ticks : Holds(k) => tick[k].row \in Rows

LEMMA SendStepType ==
  ASSUME TypeOK, RunHasRow, NEW k \in Ticks, SendStep(k)
  PROVE  TypeOK'
<1>i. [tick EXCEPT ![k] = IdleTick] \in [Ticks -> TickType]
  BY TickMoves
<1>m. /\ [tick EXCEPT ![k].pc = "listed"] \in [Ticks -> TickType]
      /\ [tick EXCEPT ![k].pc = "claimed"] \in [Ticks -> TickType]
  BY TickMoves
<1>a. \A a \in {"ok", "soft", "hard"} :
        [tick EXCEPT ![k].pc = "answered", ![k].answer = a]
          \in [Ticks -> TickType]
  BY TickMoves
<1> USE DEF TypeOK, RunHasRow, Holds, tickVars, jobVars, nudgeVars, envVars,
            ghostVars, copyVars
<1>t. tick[k] \in TickType
  OBVIOUS
<1>s. SweepStale(outbox) \in [Rows -> RowType]
  BY SweepStaleType
<1>d. tick' = [tick EXCEPT ![k] = IdleTick] => tick' \in [Ticks -> TickType]
  BY <1>i
<1>1. CASE ListThreads(k)
  <2>1. SweepUndeliverable(SweepStale(outbox)) \in [Rows -> RowType]
    BY <1>s, SweepUndeliverableType
  <2>2. outbox' \in [Rows -> RowType]
    BY <1>1, <2>1 DEF ListThreads
  <2>3. tick' \in [Ticks -> TickType]
    <3>1. tick' = tick \/ tick' = [tick EXCEPT ![k].pc = "listed"]
      BY <1>1 DEF ListThreads, Go
    <3>2. QED
      BY <3>1, <1>m
  <2>4. QED
    BY <1>1, <2>2, <2>3 DEF ListThreads
<1>2. CASE TurnsBack(k)
  BY <1>2, <1>d DEF TurnsBack, Done
<1>3. CASE HoldsBack(k)
  BY <1>3, <1>d, <1>s DEF HoldsBack, Done
<1>4. ASSUME NEW r \in Rows, Drops(k, r) PROVE TypeOK'
  <2>1. /\ Retire(SweepStale(outbox), {r}, "skipped") \in [Rows -> RowType]
        /\ Retire(SweepStale(outbox), {r}, "canceled") \in [Rows -> RowType]
    BY <1>s, RetireType DEF Status
  <2>2. outbox' \in [Rows -> RowType]
    BY <1>4, <2>1 DEF Drops
  <2>3. lead' \in LeadType
    <3>1. ParkDormant(lead, TRUE) \in LeadType
      BY ParkDormantType
    <3>2. QED
      BY <1>4, <3>1 DEF Drops
  <2>4. thread' \in ThreadType
    BY <1>4 DEF Drops, ThreadType
  <2>5. QED
    BY <1>4, <2>2, <2>3, <2>4, <1>d DEF Drops, Done
<1>5. ASSUME NEW r \in Rows, Picks(k, r) PROVE TypeOK'
  <2>1. [pc |-> "picked", row |-> r, answer |-> "none", said |-> said,
         lead |-> lead, thread |-> thread] \in TickType
    BY DEF TickType
  <2>2. QED
    BY <1>5, <1>s, <2>1 DEF Picks
<1>6. CASE CrmHolds(k)
  <2>1. outbox' \in [Rows -> RowType]
    BY <1>6, RetireType DEF CrmHolds, Status
  <2>2. StoodDown(tick[k].lead) \in LeadType
    BY <1>t DEF TickType, LeadType, Stage, StoodDown
  <2>3. lead' \in LeadType
    BY <1>6, <1>t, <2>2, FlushLead DEF CrmHolds, TickType
  <2>4. QED
    BY <1>6, <2>1, <2>3, <1>d DEF CrmHolds, Done
<1>7. CASE Claims(k)
  <2>1. outbox' \in [Rows -> RowType]
    BY <1>7, SettleType DEF Claims, Status
  <2>2. QED
    BY <1>7, <2>1, <1>m DEF Claims, Go
<1>8. CASE Transmits(k)
  <2>1. wire' \in [Rows -> Nat]
    BY <1>8 DEF Transmits
  <2>2. tick' \in [Ticks -> TickType]
    <3>1. PICK a \in {"ok", "soft", "hard"} :
            tick' = [tick EXCEPT ![k].pc = "answered", ![k].answer = a]
      BY <1>8 DEF Transmits
    <3>2. QED
      BY <3>1, <1>a
  <2>3. riders' \in SUBSET Ticks
    BY <1>8 DEF Transmits
  <2>4. QED
    BY <1>8, <2>1, <2>2, <2>3 DEF Transmits
<1>9. CASE FinishSent(k)
  <2> DEFINE t   == tick[k]
             row == outbox[t.row]
             out == [PlannedThread(t.thread, t.lead, row.source)
                       EXCEPT !.lastOut = t.said]
  <2>1. t.row \in Rows /\ t.lead \in LeadType /\ t.thread \in ThreadType
        /\ t.said \in 0..MaxSaid
    BY <1>9, <1>t DEF FinishSent, TickType
  <2>2. outbox' \in [Rows -> RowType]
    BY <1>9, <2>1, SettleType DEF FinishSent, Status
  <2>3. out \in ThreadType
    <3>1. PlannedThread(t.thread, t.lead, row.source) \in ThreadType
      BY <2>1, PlannedThreadType
    <3>2. QED
      BY <2>1, <3>1 DEF ThreadType
  <2>a. row.age \in Nat
    BY <2>1 DEF RowType
  <2>4. thread' \in ThreadType
    <3>1. FlushThread(t.thread, out, row.age) \in ThreadType
      BY <2>1, <2>3, <2>a, FlushThreadType
    <3>2. QED
      BY <1>9, <3>1 DEF FinishSent
  <2>5. lead' \in LeadType
    <3>1. Flush(lead, t.lead, ParkDormant(t.lead, FALSE)) \in LeadType
      BY <2>1, ParkDormantType, FlushLead
    <3>2. QED
      BY <1>9, <3>1 DEF FinishSent
  <2>6. QED
    BY <1>9, <2>2, <2>4, <2>5, <1>d DEF FinishSent, Done
<1>10. CASE FinishSoft(k)
  <2>1. tick[k].row \in Rows
    BY <1>10 DEF FinishSoft
  <2>2. Settle(outbox, tick[k].row, "pending") \in [Rows -> RowType]
    BY <2>1, SettleType DEF Status
  <2>3. /\ outbox[tick[k].row].attempts + 1 \in 0..MaxAttempts
        /\ Left(RetryAfter, outbox[tick[k].row].age) \in Nat
    BY <1>10, <2>1, LeftType, Bounds DEF FinishSoft, Retries, RowType
  <2> DEFINE r == tick[k].row
             n == outbox[r].attempts + 1
             w == Left(RetryAfter, outbox[r].age)
  <2>a. ASSUME NEW box \in [Rows -> RowType], NEW x \in 0..MaxAttempts,
               NEW y \in Nat
        PROVE  [box EXCEPT ![r].attempts = x, ![r].wait = y]
                 \in [Rows -> RowType]
    BY <2>1 DEF RowType
  <2>b. outbox' = [Settle(outbox, r, "pending") EXCEPT
                     ![r].attempts = n, ![r].wait = w]
    BY <1>10 DEF FinishSoft
  <2>4. outbox' \in [Rows -> RowType]
    <3> HIDE DEF n, w
    <3> QED BY <2>2, <2>3, <2>a, <2>b DEF n, w
  <2>5. QED
    BY <1>10, <2>4, <1>d DEF FinishSoft, Done
<1>11. CASE FinishFailed(k)
  <2> DEFINE t == tick[k]
             down == [t.thread EXCEPT !.timer = Never]
  <2>1. t.row \in Rows /\ t.lead \in LeadType /\ t.thread \in ThreadType
    BY <1>11, <1>t DEF FinishFailed, TickType
  <2>2. outbox' \in [Rows -> RowType]
    BY <1>11, <2>1, SettleType DEF FinishFailed, Status
  <2>3. down \in ThreadType
    BY <2>1 DEF ThreadType
  <2>4. thread' \in ThreadType
    <3>1. FlushThread(t.thread, down, 0) \in ThreadType
      BY <2>1, <2>3, FlushThreadType
    <3>2. QED
      BY <1>11, <3>1 DEF FinishFailed
  <2>5. lead' \in LeadType
    <3>1. Flush(lead, t.lead, ParkDormant(t.lead, TRUE)) \in LeadType
      BY <2>1, ParkDormantType, FlushLead
    <3>2. QED
      BY <1>11, <3>1 DEF FinishFailed
  <2>6. QED
    BY <1>11, <2>2, <2>4, <2>5, <1>d DEF FinishFailed, Done
<1>12. QED
  BY SendStep(k), <1>1, <1>2, <1>3, <1>4, <1>5, <1>6, <1>7, <1>8, <1>9, <1>10,
     <1>11 DEF SendStep
------------------------------------------------------------------------------
LEMMA ReplyStepType ==
  ASSUME TypeOK, NEW j \in ReplyJobs, ReplyStep(j)
  PROVE  TypeOK'
<1> USE DEF TypeOK, tickVars, jobVars, nudgeVars, envVars, ghostVars, copyVars
<1>t. job[j] \in JobType /\ job \in [ReplyJobs -> JobType]
  OBVIOUS
<1>i. IdleJob \in JobType
  BY Bounds DEF IdleJob, JobType, NewThread, ThreadType
<1>d. EndJob(j) => job' \in [ReplyJobs -> JobType]
  BY <1>t, <1>i DEF EndJob
<1>k. FreeKey(j) => jobKey' \in ReplyJobs \cup {NoOne}
  BY DEF FreeKey
<1>l. FreeLock(j) => lock' \in Ticks \cup ReplyJobs \cup {NoOne}
  BY DEF FreeLock
<1>1. CASE StartReply(j)
  <2>1. [pc |-> "deciding", thread |-> thread] \in JobType
    BY DEF JobType
  <2>2. job' \in [ReplyJobs -> JobType]
    BY <1>1, <1>d, <1>t, <2>1 DEF StartReply
  <2>3. QED
    BY <1>1, <2>2, <1>k DEF StartReply
<1>2. CASE DecideNothing(j)
  BY <1>2, <1>d, <1>k, <1>l DEF DecideNothing
<1>3. CASE Decides(j)
  <2>1. job' \in [ReplyJobs -> JobType]
    BY <1>3, <1>t DEF Decides, JobType
  <2>2. QED
    BY <1>3, <2>1, <1>l DEF Decides
<1>4. CASE DropDuplicate(j)
  BY <1>4, <1>d, <1>k, <1>l DEF DropDuplicate
<1>5. CASE QueueReply(j)
  <2>1. PICK new \in Bubbles, outcome \in Outcomes, nonTarget \in BOOLEAN,
             soft \in BOOLEAN :
          /\ outbox' = Compose(outbox, new, "agent", 0)
          /\ lead' = Decided(lead, outcome, nonTarget, soft)
          /\ \E th \in ThreadsAfter(lead, job[j].thread, outcome, nonTarget, soft) :
               thread' = Flush(thread, job[j].thread, th)
          /\ origin' = [r \in Rows |->
               IF r \in new THEN [job |-> j, after |-> job[j].thread.lastIn]
               ELSE origin[r]]
    BY <1>5 DEF QueueReply
  <2>2. outbox' \in [Rows -> RowType]
    BY <2>1, ComposeType DEF Source
  <2>3. lead' \in LeadType
    BY <2>1, DecidedType
  <2>4. job[j].thread \in ThreadType
    BY <1>t DEF JobType
  <2>5. thread' \in ThreadType
    BY <2>1, <2>4, ThreadsAfterType, FlushThreadRow
  <2>6. origin' \in [Rows -> [job : ReplyJobs \cup NudgeJobs \cup {NoOne},
                             after : 0..MaxSaid]]
    <3>1. job[j].thread.lastIn \in 0..MaxSaid
      BY <2>4 DEF ThreadType
    <3>2. QED
      BY <2>1, <3>1
  <2>7. QED
    BY <1>5, <2>2, <2>3, <2>5, <2>6, <1>d, <1>k, <1>l DEF QueueReply
<1>6. QED
  BY ReplyStep(j), <1>1, <1>2, <1>3, <1>4, <1>5 DEF ReplyStep
------------------------------------------------------------------------------
LEMMA NudgeStepType ==
  ASSUME TypeOK, NEW n \in NudgeJobs, NudgeStep(n)
  PROVE  TypeOK'
<1> USE DEF TypeOK, tickVars, jobVars, nudgeVars, envVars, ghostVars, copyVars
<1>t. nudge[n] \in NudgeType /\ nudge \in [NudgeJobs -> NudgeType]
  OBVIOUS
<1>s. nudge[n].lead \in LeadType /\ nudge[n].thread \in ThreadType
  BY <1>t DEF NudgeType
<1>i. IdleNudge \in NudgeType
  BY Bounds DEF IdleNudge, NudgeType, NewLead, LeadType, Stage, NewThread,
                ThreadType
<1>d. EndNudge(n) => /\ nudge' \in [NudgeJobs -> NudgeType]
                     /\ nudgeKey' \in NudgeJobs \cup {NoOne}
  BY <1>t, <1>i DEF EndNudge, FreeNudgeKey
<1>m. ASSUME NEW th \in ThreadType, NEW t \in Nat \cup {Never}, NEW s \in Nat
      PROVE  /\ [th EXCEPT !.timer = t] \in ThreadType
             /\ [th EXCEPT !.steps = s, !.timer = t] \in ThreadType
  BY DEF ThreadType
<1>1. CASE StartNudge(n)
  <2>1. [pc |-> "writing", lead |-> lead, thread |-> thread] \in NudgeType
    BY DEF NudgeType
  <2>2. QED
    BY <1>1, <1>t, <2>1 DEF StartNudge
<1>2. CASE NoNudge(n)
  <2>1. nudge[n].thread.timer \in Nat \cup {Never}
    BY <1>s DEF ThreadType
  <2>2. PICK timer \in {nudge[n].thread.timer, Never, BackOff} :
          thread' = Flush(thread, nudge[n].thread,
                          [nudge[n].thread EXCEPT !.timer = timer])
    BY <1>2 DEF NoNudge
  <2>3. [nudge[n].thread EXCEPT !.timer = timer] \in ThreadType
    BY <2>1, <1>s, <1>m, Bounds
  <2>4. thread' \in ThreadType
    BY <2>2, <2>3, <1>s, FlushThreadRow
  <2>5. QED
    BY <1>2, <2>4, <1>d DEF NoNudge
<1>3. CASE BurnsStep(n)
  <2>1. nudge[n].thread.steps + 1 \in Nat
    BY <1>s DEF ThreadType
  <2>2. BurntThread(nudge[n].thread) \in ThreadType
    BY <2>1, <1>s, <1>m, Bounds DEF BurntThread
  <2>3. BurntLead(nudge[n].lead, nudge[n].thread) \in LeadType
    BY <1>s, ParkDormantType DEF BurntLead
  <2>4. thread' \in ThreadType /\ lead' \in LeadType
    BY <1>3, <2>2, <2>3, <1>s, FlushThreadRow, FlushLead DEF BurnsStep
  <2>5. QED
    BY <1>3, <2>4, <1>d DEF BurnsStep
<1>4. CASE ChecksSilence(n)
  <2>1. [nudge EXCEPT ![n].pc = "checked"] \in [NudgeJobs -> NudgeType]
    BY <1>t DEF NudgeType
  <2>2. QED
    BY <1>4, <2>1, <1>d DEF ChecksSilence
<1>5. CASE QueueNudge(n)
  <2>1. PICK new \in Bubbles :
          /\ outbox' = Compose(outbox, new, "followup", 0)
          /\ origin' = [r \in Rows |->
               IF r \in new
               THEN [job |-> n, after |-> nudge[n].thread.lastIn]
               ELSE origin[r]]
    BY <1>5 DEF QueueNudge
  <2>2. outbox' \in [Rows -> RowType]
    BY <2>1, ComposeType DEF Source
  <2>3. nudge[n].thread.lastIn \in 0..MaxSaid
    BY <1>s DEF ThreadType
  <2>4. origin' \in [Rows -> [job : ReplyJobs \cup NudgeJobs \cup {NoOne},
                             after : 0..MaxSaid]]
    BY <2>1, <2>3
  <2>5. [nudge[n].thread EXCEPT !.timer = Never] \in ThreadType
    BY <1>s, <1>m
  <2>6. thread' \in ThreadType
    BY <1>5, <2>5, <1>s, FlushThreadRow DEF QueueNudge
  <2>7. QED
    BY <1>5, <2>2, <2>4, <2>6, <1>d DEF QueueNudge
<1>6. QED
  BY NudgeStep(n), <1>1, <1>2, <1>3, <1>4, <1>5 DEF NudgeStep
------------------------------------------------------------------------------
LEMMA DispatchType ==
  ASSUME TypeOK, Dispatch
  PROVE  TypeOK'
<1> USE DEF TypeOK, tickVars, jobVars, nudgeVars, envVars, ghostVars, copyVars
<1>1. CASE FindAwaiting
  BY <1>1 DEF FindAwaiting
<1>2. CASE EnqueueReplyJob
  <2>1. job' \in [ReplyJobs -> JobType] /\ jobKey' \in ReplyJobs \cup {NoOne}
    BY <1>2 DEF EnqueueReplyJob, JobType
  <2>2. QED
    BY <1>2, <2>1 DEF EnqueueReplyJob
<1>3. CASE HarvestDue
  BY <1>3 DEF HarvestDue
<1>4. CASE EnqueueNudgeJob
  <2>1. /\ nudge' \in [NudgeJobs -> NudgeType]
        /\ nudgeKey' \in NudgeJobs \cup {NoOne}
    <3>1. CASE UNCHANGED <<nudge, nudgeKey>>
      BY <3>1
    <3>2. ASSUME NEW n \in NudgeJobs, nudgeKey' = n,
                 nudge' = [nudge EXCEPT ![n].pc = "queued"]
          PROVE  /\ nudge' \in [NudgeJobs -> NudgeType]
                 /\ nudgeKey' \in NudgeJobs \cup {NoOne}
      BY <3>2 DEF NudgeType
    <3>3. QED
      BY <1>4, <3>1, <3>2 DEF EnqueueNudgeJob
  <2>2. QED
    BY <1>4, <2>1 DEF EnqueueNudgeJob
<1>5. QED
  BY Dispatch, <1>1, <1>2, <1>3, <1>4 DEF Dispatch

LEMMA PlatformType ==
  ASSUME TypeOK, Platform
  PROVE  TypeOK'
<1> USE DEF TypeOK, tickVars, jobVars, nudgeVars, envVars, ghostVars, copyVars
<1>1. CASE LeadWrites
  BY <1>1, Bounds DEF LeadWrites
<1>2. CASE StoreMessage
  <2>1. heard + 1 \in 0..MaxSaid /\ heard' \in 0..said'
    BY <1>2, Bounds DEF StoreMessage
  <2>2. thread' \in ThreadType
    BY <1>2, <2>1, Bounds DEF StoreMessage, ResetCycle, ThreadType
  <2>3. outbox' \in [Rows -> RowType]
    BY <1>2, RetireType DEF StoreMessage, Status
  <2>4. lead' \in LeadType
    BY <1>2 DEF StoreMessage, Revived, LeadType, Stage
  <2>5. QED
    BY <1>2, <2>1, <2>2, <2>3, <2>4 DEF StoreMessage
<1>3. CASE StoreAutoReply
  BY <1>3, Bounds DEF StoreAutoReply, ThreadType
<1>4. CASE StoreOutgoing
  <2>1. PICK at \in 1..said :
          thread' = [thread EXCEPT !.lastOut =
                       IF at > thread.lastOut THEN at ELSE thread.lastOut]
    BY <1>4 DEF StoreOutgoing
  <2>2. thread' \in ThreadType
    BY <2>1, Bounds DEF ThreadType
  <2>3. moves' \in 0..MaxMoves
    BY <1>4, Bounds DEF StoreOutgoing
  <2>4. QED
    BY <1>4, <2>2, <2>3 DEF StoreOutgoing
<1>5. QED
  BY Platform, <1>1, <1>2, <1>3, <1>4 DEF Platform

LEMMA DeskStepType ==
  ASSUME TypeOK, DeskStep
  PROVE  TypeOK'
<1> USE DEF TypeOK, tickVars, jobVars, nudgeVars, envVars, ghostVars, copyVars
<1>m. ASSUME NEW op, Does(op) PROVE moves' \in 0..MaxMoves
  BY <1>m, Bounds DEF Does
<1>r. PastTheGate \in SUBSET Ticks
  BY DEF PastTheGate
<1>l. ASSUME NEW s \in Stage, NEW a \in BOOLEAN, NEW b \in BOOLEAN
      PROVE  /\ [lead EXCEPT !.stage = s, !.agent = a] \in LeadType
             /\ [lead EXCEPT !.stage = s, !.agent = a, !.offManual = b]
                  \in LeadType
  BY DEF LeadType
<1>1. CASE SendsLine
  <2>1. PICK r \in FreeRows, source \in {"manager", "agent"} :
          /\ outbox' = Compose(outbox, {r}, source, 0)
          /\ origin' = [origin EXCEPT ![r].after = heard]
    BY <1>1 DEF SendsLine
  <2>2. outbox' \in [Rows -> RowType]
    BY <2>1, ComposeType DEF Source
  <2>3. heard \in 0..MaxSaid
    BY Bounds
  <2>4. origin' \in [Rows -> [job : ReplyJobs \cup NudgeJobs \cup {NoOne},
                             after : 0..MaxSaid]]
    BY <2>1, <2>3
  <2>5. QED
    BY <1>1, <1>m, <2>2, <2>4 DEF SendsLine
<1>2. CASE BotOff
  <2>1. outbox' \in [Rows -> RowType]
    BY <1>2, RetireType DEF BotOff, Status
  <2>2. lead' \in LeadType
    BY <1>2 DEF BotOff, LeadType
  <2>3. QED
    BY <1>2, <1>m, <1>r, <2>1, <2>2 DEF BotOff
<1>3. CASE BotOn
  <2>1. moves' \in 0..MaxMoves
    BY <1>3, <1>m DEF BotOn
  <2>2. lead' \in LeadType
    BY <1>3 DEF BotOn, LeadType
  <2>3. QED
    BY <1>3, <2>1, <2>2 DEF BotOn
<1>4. CASE Blocks
  <2>1. moves' \in 0..MaxMoves
    BY <1>4, <1>m DEF Blocks
  <2>2. lead' \in LeadType
    BY <1>4 DEF Blocks, LeadType
  <2>3. QED
    BY <1>4, <2>1, <2>2, <1>r DEF Blocks
<1>5. CASE Unblocks
  <2>1. moves' \in 0..MaxMoves
    BY <1>5, <1>m DEF Unblocks
  <2>2. lead' \in LeadType
    BY <1>5 DEF Unblocks, LeadType
  <2>3. QED
    BY <1>5, <2>1, <2>2 DEF Unblocks
<1>6. CASE SetsStage
  <2>1. moves' \in 0..MaxMoves
    BY <1>6, <1>m DEF SetsStage
  <2>2. lead' \in LeadType
    BY <1>6 DEF SetsStage, LeadType
  <2>3. QED
    BY <1>6, <2>1, <2>2 DEF SetsStage
<1>7. CASE DropsLine
  <2>1. outbox' \in [Rows -> RowType]
    BY <1>7, RetireType DEF DropsLine, Status
  <2>2. QED
    BY <1>7, <1>m, <2>1 DEF DropsLine
<1>8. CASE RetriesLine
  <2>1. outbox' \in [Rows -> RowType]
    <3>1. PICK r \in Rows :
            outbox' = [outbox EXCEPT ![r].status = "pending", ![r].wait = 0]
      BY <1>8 DEF RetriesLine
    <3>2. outbox[r] \in RowType /\ "pending" \in Status
      BY DEF Status
    <3>a. [outbox[r] EXCEPT !.status = "pending", !.wait = 0] \in RowType
      BY <3>2 DEF RowType
    <3>3. QED
      BY <3>1, <3>a
  <2>2. QED
    BY <1>8, <1>m, <2>1 DEF RetriesLine
<1>9. CASE MovesLead
  <2>1. lead' \in LeadType
    <3>1. CASE \E s \in Stage : lead' = ApplyStage(lead, s)
      BY <3>1, ApplyStageType
    <3>2. CASE lead' = [lead EXCEPT !.stage = "handed_off", !.agent = FALSE]
      BY <3>2, <1>l DEF Stage
    <3>3. QED
      BY <1>9, <3>1, <3>2 DEF MovesLead
  <2>2. QED
    BY <1>9, <1>m, <2>1 DEF MovesLead
<1>10. CASE CallFailed
  <2>1. outbox' \in [Rows -> RowType]
    <3>1. \A new : Compose(outbox, new, "call_failed", 0) \in [Rows -> RowType]
      BY ComposeType DEF Source
    <3>2. QED
      BY <1>10, <3>1 DEF CallFailed
  <2>2. lead' \in LeadType
    <3>1. lead.stage \in Stage /\ "active" \in Stage
      BY DEF LeadType, Stage
    <3>2. QED
      BY <1>10, <1>l, <3>1 DEF CallFailed
  <2>3. QED
    BY <1>10, <1>m, <2>1, <2>2 DEF CallFailed
<1>11. CASE Switches
  <2>1. channel' \in [active : BOOLEAN, replies : BOOLEAN, sending : BOOLEAN]
    BY <1>11 DEF Switches
  <2>2. QED
    BY <1>11, <1>m, <1>r, <2>1 DEF Switches
<1>12. QED
  BY DeskStep, <1>1, <1>2, <1>3, <1>4, <1>5, <1>6, <1>7, <1>8, <1>9, <1>10,
     <1>11 DEF DeskStep

LEMMA CrashType ==
  ASSUME TypeOK, Crash
  PROVE  TypeOK'
<1> USE DEF TypeOK, tickVars, jobVars, nudgeVars, envVars, ghostVars, copyVars
<1>1. ASSUME NEW k \in Ticks, TickDies(k) PROVE TypeOK'
  <2>1. tick' \in [Ticks -> TickType]
    BY <1>1, TickMoves DEF TickDies, Done
  <2>2. QED
    BY <1>1, <2>1, Bounds DEF TickDies
<1>2. ASSUME NEW j \in ReplyJobs, ReplyDies(j) PROVE TypeOK'
  <2>1. IdleJob \in JobType
    BY Bounds DEF IdleJob, JobType, NewThread, ThreadType
  <2>2. job' \in [ReplyJobs -> JobType]
    BY <1>2, <2>1 DEF ReplyDies, EndJob
  <2>3. QED
    BY <1>2, <2>2, Bounds DEF ReplyDies, FreeKey, FreeLock
<1>3. ASSUME NEW n \in NudgeJobs, NudgeDies(n) PROVE TypeOK'
  <2>1. IdleNudge \in NudgeType
    BY Bounds DEF IdleNudge, NudgeType, NewLead, LeadType, Stage, NewThread,
                  ThreadType
  <2>2. /\ nudge' \in [NudgeJobs -> NudgeType]
        /\ nudgeKey' \in NudgeJobs \cup {NoOne}
    BY <1>3, <2>1 DEF NudgeDies, EndNudge, FreeNudgeKey
  <2>3. QED
    BY <1>3, <2>2, Bounds DEF NudgeDies
<1>4. QED
  BY Crash, <1>1, <1>2, <1>3 DEF Crash

LEMMA TimeType ==
  ASSUME TypeOK, TimePasses
  PROVE  TypeOK'
<1> USE DEF TypeOK, tickVars, jobVars, nudgeVars, envVars, ghostVars, copyVars
<1> DEFINE later(row) ==
       [row EXCEPT
          !.wait = Left(row.wait, 1),
          !.age  = IF row.status = "sending" /\ row.age <= StaleAfter
                   THEN row.age + 1 ELSE row.age]
<1>1. ASSUME NEW row \in RowType PROVE later(row) \in RowType
  <2> DEFINE age == IF row.status = "sending" /\ row.age <= StaleAfter
                    THEN row.age + 1 ELSE row.age
  <2>a. row.wait \in Nat /\ row.age \in Nat
    BY DEF RowType
  <2>b. Left(row.wait, 1) \in Nat
    BY <2>a, LeftType
  <2>1. Left(row.wait, 1) \in Nat /\ age \in Nat
    BY <2>a, <2>b
  <2>2. ASSUME NEW w \in Nat, NEW a \in Nat
        PROVE  [row EXCEPT !.wait = w, !.age = a] \in RowType
    BY DEF RowType
  <2>3. [row EXCEPT !.wait = Left(row.wait, 1), !.age = age] \in RowType
    <3> HIDE DEF age
    <3> QED BY <2>1, <2>2
  <2>4. QED
    BY <2>3
<1>2. outbox' = [r \in Rows |-> later(outbox[r])]
  BY DEF TimePasses
<1>3. outbox' \in [Rows -> RowType]
  <2> HIDE DEF later
  <2> QED BY <1>1, <1>2
<1>4. thread' \in ThreadType
  <2>1. \A t \in Nat : Left(t, 1) \in Nat
    BY LeftType
  <2>2. QED
    BY <2>1 DEF TimePasses, ThreadType
<1>5. QED
  BY <1>3, <1>4 DEF TimePasses
------------------------------------------------------------------------------
\* A run that has read a line keeps it until it is done with it.
LEMMA RunKeepsRow ==
  ASSUME TypeOK, RunHasRow, [Next]_vars
  PROVE  RunHasRow'
<1> USE DEF RunHasRow, Holds
<1>1. tick \in [Ticks -> TickType]
  BY DEF TypeOK
<1>2. ASSUME NEW k \in Ticks, SendStep(k) PROVE RunHasRow'
  <2>1. \/ tick' = tick
        \/ tick' = [tick EXCEPT ![k] = IdleTick]
        \/ tick' = [tick EXCEPT ![k].pc = "listed"]
        \/ tick[k].pc = "picked" /\ tick' = [tick EXCEPT ![k].pc = "claimed"]
        \/ /\ tick[k].pc = "claimed"
           /\ \E a : tick' = [tick EXCEPT ![k].pc = "answered", ![k].answer = a]
        \/ \E r \in Rows :
             tick' = [tick EXCEPT ![k] = [pc |-> "picked", row |-> r,
                                          answer |-> "none", said |-> said,
                                          lead |-> lead, thread |-> thread]]
    BY <1>2 DEF SendStep, ListThreads, TurnsBack, HoldsBack, Drops, Picks,
       CrmHolds, Claims, Transmits, FinishSent, FinishSoft, FinishFailed, Go,
       Done
  <2>2. QED
    BY <1>1, <2>1 DEF IdleTick, TickType
<1>3. ASSUME NEW k \in Ticks, TickDies(k) PROVE RunHasRow'
  BY <1>1, <1>3 DEF TickDies, Done, IdleTick, TickType
<1>4. ASSUME tick' = tick PROVE RunHasRow'
  BY <1>4
<1>5. QED
  BY <1>2, <1>3, <1>4 DEF Next, vars, ReplyStep, StartReply, DecideNothing,
     Decides, DropDuplicate, QueueReply, NudgeStep, StartNudge, NoNudge,
     BurnsStep, ChecksSilence, QueueNudge, Dispatch, FindAwaiting,
     EnqueueReplyJob, HarvestDue, EnqueueNudgeJob, Platform, LeadWrites,
     StoreMessage, StoreAutoReply, StoreOutgoing, DeskStep, SendsLine, BotOff,
     BotOn, Blocks, Unblocks, SetsStage, DropsLine, RetriesLine, MovesLead,
     CallFailed, Switches, Crash, ReplyDies, NudgeDies, TimePasses, tickVars

\* Every variable has its type in every reachable state.
THEOREM TypeCorrect == Spec => []TypeOK
<1>1. Init => TypeOK /\ RunHasRow
  BY InitType DEF Init, RunHasRow, Holds, IdleTick
<1>2. TypeOK /\ RunHasRow /\ [Next]_vars => TypeOK' /\ RunHasRow'
  <2> SUFFICES ASSUME TypeOK, RunHasRow, [Next]_vars
               PROVE  TypeOK' /\ RunHasRow'
    OBVIOUS
  <2>1. ASSUME UNCHANGED vars PROVE TypeOK'
    BY <2>1 DEF TypeOK, vars
  <2>2. TypeOK'
    BY <2>1, SendStepType, ReplyStepType, NudgeStepType, DispatchType,
       PlatformType, DeskStepType, CrashType, TimeType DEF Next
  <2>3. QED
    BY <2>2, RunKeepsRow
<1>3. QED
  BY <1>1, <1>2, PTL DEF Spec
==============================================================================
