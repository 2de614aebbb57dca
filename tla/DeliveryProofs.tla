---------------------------- MODULE DeliveryProofs ----------------------------
(***************************************************************************)
(* No line is confirmed twice, and none reaches the lead more often than    *)
(* somebody decided to send it, whatever the number of lines, of runs of   *)
(* the sender, of jobs and of crashes, and whatever an error hides.        *)
(***************************************************************************)
EXTENDS TypeProofs

\* How a row may change without its run: it is queued, retired, given up or
\* retried by hand.
Requeued(old, new) ==
  \/ new = old
  \/ old \in {"free", "failed"} /\ new = "pending"
  \/ old \in {"pending", "failed"} /\ new = "skipped"
  \/ old \in {"pending", "sending"} /\ new = "canceled"

\* A step that takes no line into a run's hands.
Calm ==
  /\ \A r \in Rows : Requeued(outbox[r].status, outbox'[r].status)
  /\ \A k \in Ticks : Holds(k)' => tick'[k] = tick[k]
  /\ \A k \in Ticks : tick'[k].pc = "picked" /\ lock = k => lock' = k

\* One that delivers none besides, and asks for a line that it queues anew.
Quiet ==
  /\ Calm
  /\ wire' = wire /\ stray' = stray
  /\ \A r \in Rows :
       /\ outbox[r].status # "free" => Asked(r) <= Asked(r)'
       /\ outbox[r].status = "failed" /\ outbox'[r].status = "pending"
            => Asked(r) + 1 <= Asked(r)'

\* Retiring, sweeping and queueing lines are such changes.
LEMMA SweepRequeues1 ==
  ASSUME outbox \in [Rows -> RowType], NEW r \in Rows
  PROVE  Requeued(outbox[r].status, SweepStale(outbox)[r].status)
BY DEF SweepStale, Stale, Retire, Requeued, RowType

LEMMA SweepsRequeue ==
  ASSUME outbox \in [Rows -> RowType], NEW r \in Rows
  PROVE  Requeued(outbox[r].status,
                  SweepUndeliverable(SweepStale(outbox))[r].status)
BY DEF SweepUndeliverable, Undeliverable, SweepStale, Stale, Retire, Requeued,
       RowType

------------------------------------------------------------------------------
\* Lines are queued in free rows only.
LEMMA ComposeRequeues ==
  ASSUME outbox \in [Rows -> RowType], NEW new \in SUBSET FreeRows, NEW src,
         NEW wait, NEW r \in Rows
  PROVE  Requeued(outbox[r].status, Compose(outbox, new, src, wait)[r].status)
BY DEF Compose, FreeRow, FreeRows, Requeued, RowType

LEMMA BubblesFree == \A new \in Bubbles : new \in SUBSET FreeRows
BY DEF Bubbles

\* Nobody but the desk requeues a failed line.
LEMMA FailedStays ==
  ASSUME TypeOK, Next, ~\E k \in Ticks : SendStep(k), NEW r \in Rows,
         outbox[r].status = "failed", outbox'[r].status = "pending"
  PROVE  RetriesLine
<1>t. outbox \in [Rows -> RowType]
  BY DEF TypeOK
<1>c. ASSUME NEW new \in SUBSET FreeRows, NEW src, NEW wait,
             outbox' = Compose(outbox, new, src, wait)
      PROVE  FALSE
  BY <1>c, <1>t DEF Compose, FreeRows, RowType
<1>s. outbox' # outbox
  OBVIOUS
<1>1. ASSUME NEW j \in ReplyJobs, ReplyStep(j) PROVE FALSE
  <2>1. QueueReply(j)
    BY <1>1, <1>s DEF ReplyStep, StartReply, DecideNothing, Decides, DropDuplicate
  <2>2. QED
    BY <2>1, <1>c, <1>s, BubblesFree DEF QueueReply
<1>2. ASSUME NEW n \in NudgeJobs, NudgeStep(n) PROVE FALSE
  <2>1. QueueNudge(n)
    BY <1>2, <1>s DEF NudgeStep, StartNudge, NoNudge, BurnsStep, ChecksSilence
  <2>2. QED
    BY <2>1, <1>c, <1>s, BubblesFree DEF QueueNudge
<1>3. ~Dispatch
  BY <1>s DEF Dispatch, FindAwaiting, EnqueueReplyJob, HarvestDue, EnqueueNudgeJob
<1>4. ~Platform
  BY <1>s, <1>t DEF Platform, LeadWrites, StoreMessage, StoreAutoReply, StoreOutgoing,
                    QueuedNudges, Retire, RowType
<1>5. ~Crash
  BY <1>s DEF Crash, TickDies, ReplyDies, NudgeDies
<1>6. ~TimePasses
  BY <1>t DEF TimePasses, RowType
<1>7. CASE DeskStep
  <2>1. ~SendsLine
    BY <1>c DEF SendsLine
  <2>2. ~BotOff /\ ~DropsLine
    BY <1>t DEF BotOff, DropsLine, QueuedByBot, Retire, RowType
  <2>3. ~CallFailed
    BY <1>c, <1>s, BubblesFree DEF CallFailed
  <2>4. QED
    BY <1>7, <1>s, <2>1, <2>2, <2>3
       DEF DeskStep, BotOn, Blocks, Unblocks, SetsStage, MovesLead, Switches
<1>8. QED
  BY <1>1, <1>2, <1>3, <1>4, <1>5, <1>6, <1>7 DEF Next

\* Retiring and sweeping lines leaves their attempts alone.
LEMMA RetireAsks ==
  ASSUME NEW box \in [Rows -> RowType], NEW which, NEW s, NEW r \in Rows
  PROVE  Retire(box, which, s)[r].attempts = box[r].attempts
BY DEF Retire, RowType

LEMMA SweepAsks ==
  ASSUME NEW box \in [Rows -> RowType], NEW r \in Rows
  PROVE  /\ SweepStale(box)[r].attempts = box[r].attempts
         /\ SweepUndeliverable(SweepStale(box))[r].attempts = box[r].attempts
BY RetireAsks, SweepStaleType DEF SweepStale, SweepUndeliverable

\* A line keeps its count of attempts.
AttemptsStay ==
  \A r \in Rows : outbox[r].status # "free" =>
    outbox'[r].attempts = outbox[r].attempts

\* Nobody but a run of the sender counts an attempt or a copy, and nobody but
\* the desk a retry.
LEMMA OthersCount ==
  ASSUME TypeOK, Next, ~\E k \in Ticks : SendStep(k)
  PROVE  /\ wire' = wire /\ stray' = stray
         /\ AttemptsStay
         /\ again' = again \/ RetriesLine
<1>t. outbox \in [Rows -> RowType]
  BY DEF TypeOK
<1>c. ASSUME NEW new \in SUBSET FreeRows, NEW src, NEW wait,
             outbox' = Compose(outbox, new, src, wait)
      PROVE  AttemptsStay
  BY <1>c DEF Compose, FreeRows, AttemptsStay
<1>s. ASSUME outbox' = outbox PROVE AttemptsStay
  BY <1>s DEF AttemptsStay
<1>r. ASSUME NEW which, NEW st, outbox' = Retire(outbox, which, st) PROVE AttemptsStay
  BY <1>r, <1>t, RetireAsks DEF AttemptsStay
<1>1. ASSUME NEW j \in ReplyJobs, ReplyStep(j)
      PROVE  wire' = wire /\ stray' = stray /\ AttemptsStay /\ again' = again
  <2>1. wire' = wire /\ stray' = stray /\ again' = again
    BY <1>1 DEF ReplyStep, StartReply, DecideNothing, Decides, DropDuplicate,
                QueueReply, ghostVars, copyVars
  <2>2. AttemptsStay
    BY <1>1, <1>c, <1>s, BubblesFree
       DEF ReplyStep, StartReply, DecideNothing, Decides, DropDuplicate, QueueReply
  <2>3. QED
    BY <2>1, <2>2
<1>2. ASSUME NEW n \in NudgeJobs, NudgeStep(n)
      PROVE  wire' = wire /\ stray' = stray /\ AttemptsStay /\ again' = again
  <2>1. wire' = wire /\ stray' = stray /\ again' = again
    BY <1>2 DEF NudgeStep, StartNudge, NoNudge, BurnsStep, ChecksSilence,
                QueueNudge, ghostVars, copyVars
  <2>2. AttemptsStay
    BY <1>2, <1>c, <1>s, BubblesFree
       DEF NudgeStep, StartNudge, NoNudge, BurnsStep, ChecksSilence, QueueNudge
  <2>3. QED
    BY <2>1, <2>2
<1>3. CASE Dispatch
  BY <1>3, <1>s DEF Dispatch, FindAwaiting, EnqueueReplyJob, HarvestDue,
                    EnqueueNudgeJob, ghostVars, copyVars
<1>4. CASE Platform
  BY <1>4, <1>s, <1>r DEF Platform, LeadWrites, StoreMessage, StoreAutoReply,
                          StoreOutgoing, ghostVars, copyVars
<1>5. CASE DeskStep
  <2>1. wire' = wire /\ stray' = stray /\ (again' = again \/ RetriesLine)
    BY <1>5 DEF DeskStep, SendsLine, BotOff, BotOn, Blocks, Unblocks, SetsStage,
       DropsLine, RetriesLine, MovesLead, CallFailed, Switches, ghostVars, copyVars
  <2>2. ASSUME SendsLine PROVE AttemptsStay
    BY <2>2, <1>c DEF SendsLine
  <2>3. ASSUME BotOff \/ DropsLine PROVE AttemptsStay
    BY <2>3, <1>r DEF BotOff, DropsLine
  <2>4. ASSUME RetriesLine PROVE AttemptsStay
    BY <2>4, <1>t DEF RetriesLine, RowType, AttemptsStay
  <2>5. ASSUME CallFailed PROVE AttemptsStay
    BY <2>5, <1>c, <1>s, BubblesFree DEF CallFailed
  <2>6. ASSUME outbox' = outbox PROVE AttemptsStay
    BY <2>6, <1>s
  <2>7. AttemptsStay
    BY <1>5, <2>2, <2>3, <2>4, <2>5, <2>6
       DEF DeskStep, BotOn, Blocks, Unblocks, SetsStage, MovesLead, Switches
  <2>8. QED
    BY <2>1, <2>7
<1>6. CASE Crash
  BY <1>6, <1>s DEF Crash, TickDies, ReplyDies, NudgeDies, ghostVars, copyVars
<1>7. CASE TimePasses
  BY <1>7, <1>t DEF TimePasses, RowType, ghostVars, copyVars, AttemptsStay
<1>8. QED
  BY <1>1, <1>2, <1>3, <1>4, <1>5, <1>6, <1>7 DEF Next

\* So what others do to a line asks for it no less, and to requeue a failed
\* one is to ask once more.
LEMMA OthersAsk ==
  ASSUME TypeOK, Next, ~\E k \in Ticks : SendStep(k), NEW r \in Rows
  PROVE  /\ outbox[r].status # "free" => Asked(r) <= Asked(r)'
         /\ outbox[r].status = "failed" /\ outbox'[r].status = "pending"
              => Asked(r) + 1 <= Asked(r)'
<1>t. /\ outbox \in [Rows -> RowType] /\ again \in [Rows -> Nat]
      /\ outbox[r].attempts \in Nat
  BY Bounds DEF TypeOK, RowType
<1>1. CASE RetriesLine
  <2>1. PICK q \in Rows :
          /\ outbox' = [outbox EXCEPT ![q].status = "pending", ![q].wait = 0]
          /\ again' = [again EXCEPT ![q] = again[q] + 1]
    BY <1>1 DEF RetriesLine
  <2>2. outbox'[r].attempts = outbox[r].attempts
    BY <2>1, <1>t DEF RowType
  <2>3. CASE r = q
    BY <2>1, <2>2, <2>3, <1>t DEF Asked
  <2>4. CASE r # q
    BY <2>1, <2>2, <2>4, <1>t DEF Asked
  <2>5. QED
    BY <2>3, <2>4
<1>2. CASE ~RetriesLine
  BY <1>2, <1>t, OthersCount, FailedStays DEF Asked, AttemptsStay
<1>3. QED
  BY <1>1, <1>2

\* Nobody but a run of the sender takes a line in hand.
LEMMA OthersCalm ==
  ASSUME TypeOK, Next, ~\E k \in Ticks : SendStep(k)
  PROVE  Calm
<1> USE DEF Calm, Holds
<1>t. /\ tick \in [Ticks -> TickType] /\ outbox \in [Rows -> RowType]
  BY DEF TypeOK
<1>n. Ticks \cap ReplyJobs = {}
  BY StoreAssumption
<1>1. ASSUME NEW j \in ReplyJobs, ReplyStep(j) PROVE Calm
  <2>1. tick' = tick
    BY <1>1 DEF ReplyStep, StartReply, DecideNothing, Decides, DropDuplicate,
                QueueReply, tickVars
  <2>2. \A k \in Ticks : tick'[k].pc = "picked" /\ lock = k => lock' = k
    BY <1>1, <1>n, StoreAssumption
       DEF ReplyStep, StartReply, DecideNothing, Decides, DropDuplicate,
           QueueReply, FreeLock
  <2>3. \A r \in Rows : Requeued(outbox[r].status, outbox'[r].status)
    <3>1. CASE QueueReply(j)
      BY <3>1, <1>t, ComposeRequeues, BubblesFree DEF QueueReply
    <3>2. CASE outbox' = outbox
      BY <3>2 DEF Requeued
    <3>3. QED
      BY <1>1, <3>1, <3>2 DEF ReplyStep, StartReply, DecideNothing, Decides,
                              DropDuplicate
  <2>4. QED
    BY <2>1, <2>2, <2>3
<1>2. ASSUME NEW n \in NudgeJobs, NudgeStep(n) PROVE Calm
  <2>1. tick' = tick /\ lock' = lock
    BY <1>2 DEF NudgeStep, StartNudge, NoNudge, BurnsStep, ChecksSilence,
                QueueNudge, tickVars
  <2>2. \A r \in Rows : Requeued(outbox[r].status, outbox'[r].status)
    <3>1. CASE QueueNudge(n)
      BY <3>1, <1>t, ComposeRequeues, BubblesFree DEF QueueNudge
    <3>2. CASE outbox' = outbox
      BY <3>2 DEF Requeued
    <3>3. QED
      BY <1>2, <3>1, <3>2 DEF NudgeStep, StartNudge, NoNudge, BurnsStep,
                              ChecksSilence
  <2>3. QED
    BY <2>1, <2>2
<1>3. CASE Dispatch
  BY <1>3 DEF Dispatch, FindAwaiting, EnqueueReplyJob, HarvestDue,
              EnqueueNudgeJob, Requeued, tickVars
<1>4. CASE Platform
  <2>1. tick' = tick /\ lock' = lock
    BY <1>4 DEF Platform, LeadWrites, StoreMessage, StoreAutoReply,
                StoreOutgoing, tickVars
  <2>2. \A r \in Rows : Requeued(outbox[r].status, outbox'[r].status)
    BY <1>4, <1>t DEF Platform, LeadWrites, StoreMessage, StoreAutoReply,
       StoreOutgoing, QueuedNudges, Retire, Requeued, RowType
  <2>3. QED
    BY <2>1, <2>2
<1>5. CASE DeskStep
  <2>1. tick' = tick /\ lock' = lock
    BY <1>5 DEF DeskStep, SendsLine, BotOff, BotOn, Blocks, Unblocks, SetsStage,
       DropsLine, RetriesLine, MovesLead, CallFailed, Switches, tickVars
  <2>2. ASSUME NEW r \in Rows
        PROVE  Requeued(outbox[r].status, outbox'[r].status)
    <3>1. CASE SendsLine
      BY <3>1, <1>t, ComposeRequeues DEF SendsLine
    <3>2. CASE BotOff
      BY <3>2, <1>t DEF BotOff, QueuedByBot, Retire, Requeued, RowType
    <3>3. CASE DropsLine
      BY <3>3, <1>t DEF DropsLine, Retire, Requeued, RowType
    <3>4. CASE RetriesLine
      BY <3>4, <1>t DEF RetriesLine, Retryable, Requeued, RowType
    <3>5. CASE CallFailed
      BY <3>5, <1>t, ComposeRequeues, BubblesFree DEF CallFailed, Requeued
    <3>6. CASE outbox' = outbox
      BY <3>6 DEF Requeued
    <3>7. QED
      BY <1>5, <3>1, <3>2, <3>3, <3>4, <3>5, <3>6
         DEF DeskStep, BotOn, Blocks, Unblocks, SetsStage, MovesLead, Switches
  <2>3. QED
    BY <2>1, <2>2
<1>6. CASE Crash
  <2>1. ASSUME NEW k \in Ticks, TickDies(k) PROVE Calm
    BY <2>1, <1>t DEF TickDies, Done, IdleTick, Requeued
  <2>2. ASSUME NEW j \in ReplyJobs, ReplyDies(j) PROVE Calm
    BY <2>2, <1>n DEF ReplyDies, FreeLock, Requeued, tickVars
  <2>3. ASSUME NEW n \in NudgeJobs, NudgeDies(n) PROVE Calm
    BY <2>3 DEF NudgeDies, Requeued, tickVars
  <2>4. QED
    BY <1>6, <2>1, <2>2, <2>3 DEF Crash
<1>7. CASE TimePasses
  BY <1>7, <1>t DEF TimePasses, Requeued, RowType, tickVars
<1>8. QED
  BY <1>1, <1>2, <1>3, <1>4, <1>5, <1>6, <1>7 DEF Next

\* So whatever they do is quiet.
LEMMA OthersQuiet ==
  ASSUME TypeOK, Next, ~\E k \in Ticks : SendStep(k)
  PROVE  Quiet
BY OthersCalm, OthersCount, OthersAsk DEF Quiet

------------------------------------------------------------------------------
(* The runs are apart, and how a line comes to leave.                      *)
RunsApart ==
  /\ PickedUnderLock /\ RowOfRun /\ OneOwner /\ AnswerWhenAnswered
  /\ \A r \in Rows : outbox[r].status = "free" => Copies(r) = 0

\* A line that will be sent if nothing stops it: queued, or in the hands of a
\* run that has not called the connector or was told to try later.
OnItsWay(r) ==
  \/ outbox[r].status = "pending"
  \/ \E k \in Ticks : /\ Holds(k) /\ tick[k].row = r
                      /\ tick[k].answer \in {"none", "soft"}

\* A run was told that the line was blocked for now, and will requeue it.
ToldLater(r) ==
  \E k \in Ticks : Holds(k) /\ tick[k].row = r /\ tick[k].answer = "soft"

\* A line reaches the lead, one copy at a time, only while it is on its way,
\* and no longer is then, unless the connector took the delivery for a soft
\* block; one that has reached the lead is put on its way again by the button.
ByHand ==
  \A r \in Rows :
    /\ Copies(r)' # Copies(r) =>
         /\ Copies(r)' = Copies(r) + 1 /\ OnItsWay(r)
         /\ ~OnItsWay(r)' \/ ToldLater(r)'
    /\ Copies(r) # 0 /\ ~OnItsWay(r) /\ OnItsWay(r)' => RetriesLine

\* A quiet step leaves the runs apart.
LEMMA QuietApart ==
  ASSUME TypeOK, RunsApart, Quiet
  PROVE  RunsApart'
<1> USE DEF RunsApart, Quiet, Calm, Holds
<1>1. PickedUnderLock'
  BY DEF PickedUnderLock
<1>2. RowOfRun'
  BY DEF RowOfRun, Requeued
<1>3. OneOwner' /\ AnswerWhenAnswered'
  BY DEF OneOwner, AnswerWhenAnswered
<1>4. \A r \in Rows : outbox'[r].status = "free" => Copies(r)' = 0
  BY DEF Requeued, Copies
<1>5. QED
  BY <1>1, <1>2, <1>3, <1>4

\* A quiet step puts nothing on its way but a queued line and a retried one.
LEMMA QuietByHand ==
  ASSUME TypeOK, RunsApart, Quiet,
         \A r \in Rows : outbox[r].status = "failed" /\ outbox'[r].status = "pending"
                           => RetriesLine
  PROVE  ByHand
<1> SUFFICES ASSUME NEW r \in Rows, Copies(r) # 0, ~OnItsWay(r), OnItsWay(r)'
             PROVE  RetriesLine
  BY DEF ByHand, Quiet, Copies
<1>1. outbox'[r].status = "pending"
  BY DEF OnItsWay, Quiet, Calm, Holds
<1>2. outbox[r].status = "failed"
  BY <1>1 DEF OnItsWay, Quiet, Calm, Requeued, RunsApart
<1>3. QED
  BY <1>1, <1>2

\* A step of a run retries no failed line.
LEMMA SendLeavesFailed ==
  ASSUME TypeOK, RunsApart, NEW k \in Ticks, SendStep(k), NEW r \in Rows,
         outbox[r].status = "failed"
  PROVE  outbox'[r].status # "pending"
<1> USE DEF Holds
<1>t. /\ tick \in [Ticks -> TickType] /\ outbox \in [Rows -> RowType]
  BY DEF TypeOK
<1>h. Holds(k) => tick[k].row \in Rows /\ tick[k].row # r
  BY DEF RunsApart, RowOfRun
<1>1. CASE ListThreads(k)
  BY <1>1, <1>t DEF ListThreads, SweepUndeliverable, SweepStale, Retire, Undeliverable,
                    Stale, RowType
<1>2. CASE TurnsBack(k) \/ Transmits(k)
  BY <1>2 DEF TurnsBack, Transmits
<1>3. CASE HoldsBack(k)
  BY <1>3, <1>t DEF HoldsBack, SweepStale, Retire, Stale, RowType
<1>4. ASSUME NEW q \in Rows, Drops(k, q) PROVE outbox'[r].status # "pending"
  BY <1>4, <1>t DEF Drops, SweepStale, Retire, Stale, RowType
<1>5. ASSUME NEW q \in Rows, Picks(k, q) PROVE outbox'[r].status # "pending"
  BY <1>5, <1>t DEF Picks, SweepStale, Retire, Stale, RowType
<1>6. CASE CrmHolds(k)
  BY <1>6, <1>h, <1>t DEF CrmHolds, Retire, RowType
<1>7. CASE Claims(k)
  BY <1>7, <1>h, <1>t DEF Claims, Settle, RowType
<1>8. CASE FinishSent(k)
  BY <1>8, <1>h, <1>t DEF FinishSent, Settle, RowType
<1>9. CASE FinishSoft(k)
  BY <1>9, <1>h, <1>t DEF FinishSoft, Settle, RowType
<1>10. CASE FinishFailed(k)
  BY <1>10, <1>h, <1>t DEF FinishFailed, Settle, RowType
<1>11. QED
  BY <1>1, <1>2, <1>3, <1>4, <1>5, <1>6, <1>7, <1>8, <1>9, <1>10 DEF SendStep

\* The steps of a run that are not quiet: it takes a line, gives it up, claims
\* it, sends it, and settles it.
LEMMA QuietOrHandles ==
  ASSUME TypeOK, RunsApart, NEW k \in Ticks, SendStep(k)
  PROVE  \/ Quiet
         \/ \E r \in Rows : Picks(k, r)
         \/ CrmHolds(k) \/ Claims(k) \/ Transmits(k)
         \/ FinishSent(k) \/ FinishSoft(k) \/ FinishFailed(k)
<1> USE DEF Holds
<1>t. /\ tick \in [Ticks -> TickType] /\ outbox \in [Rows -> RowType]
  BY DEF TypeOK
<1>d. Done(k) => /\ \A l \in Ticks : l # k => tick'[l] = tick[l]
                 /\ tick'[k].pc = "idle"
  BY <1>t DEF Done, IdleTick
<1>q. ASSUME Calm, UNCHANGED ghostVars,
             \A r \in Rows : outbox'[r].attempts = outbox[r].attempts
      PROVE  Quiet
  <2>1. \A r \in Rows : Asked(r)' = Asked(r) /\ Asked(r) \in Nat
    BY <1>q, <1>t, Bounds DEF Asked, RowType, TypeOK, ghostVars, copyVars
  <2>2. QED
    BY <1>q, <2>1, SendLeavesFailed DEF Quiet, ghostVars, copyVars
<1>1. CASE ListThreads(k)
  <2>1. /\ UNCHANGED ghostVars /\ lock' = lock
        /\ outbox' = SweepUndeliverable(SweepStale(outbox))
        /\ tick[k].pc = "idle"
        /\ tick' = tick \/ tick' = [tick EXCEPT ![k].pc = "listed"]
    BY <1>1 DEF ListThreads, Go
  <2>2. \A l \in Ticks : Holds(l)' => tick'[l] = tick[l]
    BY <2>1, <1>t DEF TickType
  <2>3. QED
    BY <2>1, <2>2, <1>t, <1>q, SweepsRequeue, SweepAsks DEF Calm
<1>2. CASE TurnsBack(k)
  BY <1>2, <1>d, <1>q DEF TurnsBack, Calm, Requeued
<1>3. CASE HoldsBack(k)
  BY <1>3, <1>d, <1>q, <1>t, SweepRequeues1, SweepAsks DEF HoldsBack, Calm
<1>4. ASSUME NEW r \in Rows, Drops(k, r) PROVE Quiet
  <2>1. \E s \in {"skipped", "canceled"} :
          outbox' = Retire(SweepStale(outbox), {r}, s)
    BY <1>4 DEF Drops
  <2>2. SweepStale(outbox)[r].status = "pending" /\ outbox[r].status = "pending"
    BY <1>4, <1>t DEF Drops, Considers, Oldest, SweepStale, Retire, RowType
  <2>3. \A q \in Rows : Requeued(outbox[q].status, outbox'[q].status)
    <3>1. \A q \in Rows : q # r => outbox'[q] = SweepStale(outbox)[q]
      BY <2>1 DEF Retire
    <3>2. SweepStale(outbox) \in [Rows -> RowType]
      BY <1>t, SweepStaleType
    <3>3. outbox'[r].status \in {"skipped", "canceled"}
      BY <2>1, <3>2 DEF Retire, RowType
    <3>4. QED
      BY <3>1, <3>3, <2>2, <1>t, SweepRequeues1 DEF Requeued
  <2>4. QED
    <3>1. Calm /\ UNCHANGED ghostVars
      BY <1>4, <2>3, <1>d DEF Drops, Calm
    <3>2. \A q \in Rows : outbox'[q].attempts = outbox[q].attempts
      BY <2>1, <1>t, SweepStaleType, SweepAsks, RetireAsks
    <3>3. QED
      BY <3>1, <3>2, <1>q
<1>5. QED
  BY <1>1, <1>2, <1>3, <1>4 DEF SendStep

\* The steps of a run that are not quiet keep the runs apart, and send what is
\* on its way only.
LEMMA SendApart ==
  ASSUME TypeOK, RunsApart, NEW k \in Ticks, SendStep(k)
  PROVE  RunsApart' /\ ByHand
<1> USE DEF Holds
<1>t. /\ tick \in [Ticks -> TickType] /\ outbox \in [Rows -> RowType]
      /\ wire \in [Rows -> Nat] /\ stray \in [Rows -> Nat]
  BY DEF TypeOK
<1>n. \A l \in Ticks : l # NoOne
  BY StoreAssumption
<1>d. Done(k) => /\ \A l \in Ticks : l # k => tick'[l] = tick[l]
                 /\ tick'[k].pc = "idle"
  BY <1>t DEF Done, IdleTick
<1>f. \A r \in Rows : outbox[r].status = "failed" => outbox'[r].status # "pending"
  BY SendLeavesFailed
<1>q. Quiet => RunsApart' /\ ByHand
  BY <1>f, QuietApart, QuietByHand
<1>1. CASE Quiet
  BY <1>1, <1>q
<1>2. ASSUME NEW r \in Rows, Picks(k, r) PROVE RunsApart' /\ ByHand
  <2> DEFINE box == SweepStale(outbox)
  <2>1. /\ lock = NoOne /\ lock' = k /\ wire' = wire /\ stray' = stray /\ outbox' = box
        /\ tick'[k].pc = "picked" /\ tick'[k].row = r
        /\ tick'[k].answer = "none"
        /\ \A l \in Ticks : l # k => tick'[l] = tick[l]
    BY <1>2, <1>t DEF Picks, Considers, ghostVars, copyVars
  <2>2. box[r].status = "pending" /\ outbox[r].status = "pending"
    BY <1>2, <1>t DEF Picks, Considers, Oldest, SweepStale, Retire, RowType
  <2>3. \A q \in Rows : Requeued(outbox[q].status, box[q].status)
    BY <1>t, SweepRequeues1
  <2>4. \A l \in Ticks : Holds(l) => tick[l].pc # "picked" /\ tick[l].row # r
    BY <2>1, <2>2, <1>n DEF RunsApart, PickedUnderLock, RowOfRun
  <2> HIDE DEF box
  <2>5. PickedUnderLock' /\ OneOwner' /\ AnswerWhenAnswered'
    BY <2>1, <2>4 DEF RunsApart, PickedUnderLock, OneOwner, AnswerWhenAnswered
  <2>6. RowOfRun'
    BY <2>1, <2>2, <2>3, <2>4 DEF RunsApart, RowOfRun, Requeued
  <2>7. \A q \in Rows : outbox'[q].status = "free" => Copies(q)' = 0
    BY <2>1, <2>3 DEF RunsApart, Requeued, Copies
  <2>8. ASSUME NEW q \in Rows, Copies(q) # 0, OnItsWay(q)' PROVE OnItsWay(q)
    <3>1. CASE q = r
      BY <3>1, <2>2 DEF OnItsWay
    <3>2. CASE q # r
      BY <3>2, <2>1, <2>3, <2>8, <1>f DEF OnItsWay, Requeued, RunsApart
    <3>3. QED
      BY <3>1, <3>2
  <2>9. ByHand
    BY <2>1, <2>8 DEF ByHand, Copies
  <2>10. QED
    BY <2>5, <2>6, <2>7, <2>9 DEF RunsApart
<1>3. ASSUME CrmHolds(k) \/ Claims(k) PROVE RunsApart' /\ ByHand
  <2> DEFINE r == tick[k].row
  <2>1. tick[k].pc = "picked" /\ wire' = wire /\ stray' = stray /\ lock' = NoOne
    BY <1>3 DEF CrmHolds, Claims, ghostVars, copyVars
  <2>2. /\ \A l \in Ticks : l # k => tick'[l] = tick[l]
        /\ \/ tick'[k].pc = "idle"
           \/ /\ tick'[k].pc = "claimed" /\ tick'[k].row = r
              /\ tick'[k].answer = tick[k].answer /\ outbox'[r].status = "sending"
    <3>1. CASE CrmHolds(k)
      BY <3>1, <1>d DEF CrmHolds
    <3>2. CASE Claims(k)
      BY <3>2, <2>1, <1>t DEF Claims, Go, TickType, Settle, RowType, RunsApart, RowOfRun
    <3>3. QED
      BY <1>3, <3>1, <3>2
  <2>3. /\ r \in Rows /\ tick[k].answer = "none"
        /\ \A l \in Ticks : l # k =>
             tick[l].pc # "picked" /\ (Holds(l) => tick[l].row # r)
    BY <2>1 DEF RunsApart, PickedUnderLock, RowOfRun, OneOwner, AnswerWhenAnswered
  <2>4. /\ outbox'[r].status \in {"skipped", "sending"}
        /\ \A q \in Rows : q # r => outbox'[q] = outbox[q]
    <3>1. CASE CrmHolds(k)
      BY <3>1, <2>3, <1>t DEF CrmHolds, Retire, RowType
    <3>2. CASE Claims(k)
      BY <3>2, <2>3, <1>t DEF Claims, Settle, RowType
    <3>3. QED
      BY <1>3, <3>1, <3>2
  <2>5. PickedUnderLock' /\ OneOwner' /\ AnswerWhenAnswered'
    BY <2>1, <2>2, <2>3 DEF RunsApart, PickedUnderLock, OneOwner, AnswerWhenAnswered
  <2>6. RowOfRun'
    BY <2>2, <2>3, <2>4 DEF RunsApart, RowOfRun
  <2>7. \A q \in Rows : outbox'[q].status = "free" => Copies(q)' = 0
    BY <2>1, <2>4 DEF RunsApart, Copies
  <2>8. ASSUME NEW q \in Rows, OnItsWay(q)' PROVE OnItsWay(q)
    <3>1. CASE q = r
      BY <3>1, <2>1, <2>3 DEF OnItsWay
    <3>2. CASE q # r
      BY <3>2, <2>2, <2>4, <2>8 DEF OnItsWay
    <3>3. QED
      BY <3>1, <3>2
  <2>9. ByHand
    BY <2>1, <2>8 DEF ByHand, Copies
  <2>10. QED
    BY <2>5, <2>6, <2>7, <2>9 DEF RunsApart
<1>4. CASE Transmits(k)
  <2>r. PICK r \in Rows : r = tick[k].row
    BY <1>4 DEF Transmits, RunsApart, RowOfRun
  <2>1. /\ tick[k].pc = "claimed" /\ outbox' = outbox /\ lock' = lock
        /\ tick[k].row = r /\ tick[k].answer = "none"
    BY <1>4, <2>r DEF Transmits, RunsApart, AnswerWhenAnswered
  <2>2. PICK a \in {"ok", "soft", "hard"} :
          /\ tick' = [tick EXCEPT ![k].pc = "answered", ![k].answer = a]
          /\ \/ wire' = wire /\ stray' = stray
             \/ wire' = [wire EXCEPT ![r] = wire[r] + 1] /\ stray' = stray
             \/ stray' = [stray EXCEPT ![r] = stray[r] + 1] /\ wire' = wire
    BY <1>4, <2>r DEF Transmits
  <2>3. /\ \A l \in Ticks : l # k => tick'[l] = tick[l]
        /\ tick'[k].pc = "answered" /\ tick'[k].row = r /\ tick'[k].answer = a
    BY <2>1, <2>2, <1>t DEF TickType
  <2>4. /\ \A q \in Rows : q # r => Copies(q)' = Copies(q)
        /\ Copies(r)' # Copies(r) => Copies(r)' = Copies(r) + 1
    BY <2>1, <2>2, <1>t DEF Copies
  <2>5. /\ outbox[r].status \in {"sending", "canceled"}
        /\ \A l \in Ticks : l # k => (Holds(l) => tick[l].row # r)
    BY <2>1 DEF RunsApart, RowOfRun, OneOwner
  <2>6. PickedUnderLock' /\ OneOwner' /\ AnswerWhenAnswered'
    BY <2>1, <2>3, <2>5 DEF RunsApart, PickedUnderLock, OneOwner, AnswerWhenAnswered
  <2>7. RowOfRun'
    BY <2>1, <2>3, <2>5 DEF RunsApart, RowOfRun
  <2>8. \A q \in Rows : outbox'[q].status = "free" => Copies(q)' = 0
    BY <2>1, <2>4, <2>5 DEF RunsApart
  <2>9. ASSUME NEW q \in Rows, OnItsWay(q)' PROVE OnItsWay(q)
    <3>1. CASE q = r
      BY <3>1, <2>1 DEF OnItsWay
    <3>2. CASE q # r
      BY <3>2, <2>1, <2>3, <2>9 DEF OnItsWay
    <3>3. QED
      BY <3>1, <3>2
  <2>10. OnItsWay(r) /\ (~OnItsWay(r)' \/ ToldLater(r)')
    <3>1. CASE a = "soft"
      BY <3>1, <2>1, <2>3 DEF OnItsWay, ToldLater
    <3>2. CASE a # "soft"
      BY <3>2, <2>1, <2>3, <2>5 DEF OnItsWay
    <3>3. QED
      BY <3>1, <3>2
  <2>11. ByHand
    <3> SUFFICES ASSUME NEW q \in Rows
                 PROVE  /\ Copies(q)' # Copies(q) =>
                             /\ Copies(q)' = Copies(q) + 1 /\ OnItsWay(q)
                             /\ ~OnItsWay(q)' \/ ToldLater(q)'
                        /\ ~(~OnItsWay(q) /\ OnItsWay(q)')
      BY DEF ByHand
    <3>1. CASE q = r
      BY <3>1, <2>4, <2>9, <2>10
    <3>2. CASE q # r
      BY <3>2, <2>4, <2>9
    <3>3. QED
      BY <3>1, <3>2
  <2>12. QED
    BY <2>6, <2>7, <2>8, <2>11 DEF RunsApart
<1>5. ASSUME FinishSent(k) \/ FinishSoft(k) \/ FinishFailed(k)
      PROVE  RunsApart' /\ ByHand
  <2> DEFINE r == tick[k].row
  <2>1. /\ tick[k].pc = "answered" /\ wire' = wire /\ stray' = stray /\ lock' = lock /\ Done(k)
    BY <1>5 DEF FinishSent, FinishSoft, FinishFailed, ghostVars, copyVars
  <2>2. /\ \A l \in Ticks : l # k => tick'[l] = tick[l]
        /\ tick'[k].pc = "idle"
    BY <2>1, <1>d
  <2>3. /\ r \in Rows
        /\ \A l \in Ticks : l # k => (Holds(l) => tick[l].row # r)
    BY <2>1 DEF RunsApart, RowOfRun, OneOwner
  <2>4. /\ \A q \in Rows : q # r => outbox'[q] = outbox[q]
        /\ outbox'[r].status \in {"sent", "queued", "pending", "failed"}
        /\ outbox'[r].status = "pending" => tick[k].answer = "soft"
    <3>1. CASE FinishSent(k)
      BY <3>1, <2>3, <1>t DEF FinishSent, Settle, RowType
    <3>2. CASE FinishSoft(k)
      BY <3>2, <2>3, <1>t DEF FinishSoft, Settle, Retries, RowType
    <3>3. CASE FinishFailed(k)
      BY <3>3, <2>3, <1>t DEF FinishFailed, Settle, RowType
    <3>4. QED
      BY <1>5, <3>1, <3>2, <3>3
  <2>5. PickedUnderLock' /\ OneOwner' /\ AnswerWhenAnswered'
    BY <2>1, <2>2 DEF RunsApart, PickedUnderLock, OneOwner, AnswerWhenAnswered
  <2>6. RowOfRun'
    BY <2>2, <2>3, <2>4 DEF RunsApart, RowOfRun
  <2>7. \A q \in Rows : outbox'[q].status = "free" => Copies(q)' = 0
    BY <2>1, <2>4 DEF RunsApart, Copies
  <2>8. ASSUME NEW q \in Rows, OnItsWay(q)' PROVE OnItsWay(q)
    <3>1. CASE q = r
      BY <3>1, <2>1, <2>2, <2>3, <2>4, <2>8 DEF OnItsWay
    <3>2. CASE q # r
      BY <3>2, <2>2, <2>4, <2>8 DEF OnItsWay
    <3>3. QED
      BY <3>1, <3>2
  <2>9. ByHand
    BY <2>1, <2>8 DEF ByHand, Copies
  <2>10. QED
    BY <2>5, <2>6, <2>7, <2>9 DEF RunsApart
<1>6. QED
  BY <1>1, <1>2, <1>3, <1>4, <1>5, QuietOrHandles

\* Every step keeps the runs apart and resends nothing but by hand.
LEMMA NextApart ==
  ASSUME TypeOK, RunsApart, [Next]_vars
  PROVE  RunsApart' /\ [ByHand]_vars
<1>1. ASSUME NEW k \in Ticks, SendStep(k) PROVE RunsApart' /\ ByHand
  BY <1>1, SendApart
<1>2. CASE Next /\ ~\E k \in Ticks : SendStep(k)
  BY <1>2, OthersQuiet, QuietApart, QuietByHand, FailedStays
<1>3. CASE UNCHANGED vars
  BY <1>3 DEF vars, copyVars, RunsApart, PickedUnderLock, RowOfRun, OneOwner,
     AnswerWhenAnswered, Holds, Copies
<1>4. QED
  BY <1>1, <1>2, <1>3

\* The runs begin idle.
LEMMA InitApart == Init => RunsApart
BY DEF Init, RunsApart, PickedUnderLock, RowOfRun, OneOwner, AnswerWhenAnswered,
       Holds, IdleTick, FreeRow, Copies

\* Two runs of the sender are never at one row, although the claim's commit
\* frees the lock before the connector is called (outbox.py:188-200), whatever
\* an error of the connector means.
THEOREM NoSharedRow == Spec => []OneOwner
<1>1. RunsApart => OneOwner
  BY DEF RunsApart
<1>2. TypeOK /\ RunsApart /\ [Next]_vars => RunsApart'
  BY NextApart
<1>3. QED
  BY <1>1, <1>2, InitApart, TypeCorrect, PTL DEF Spec

\* Whatever the connector's errors hide (outbox.py:221-255), a line that has
\* reached the lead is sent again only because the connector took the delivery
\* for a soft block, or because somebody pressed the button (_routes_chat.py,
\* pending_retry): no sweep, crash or overlap does it.
THEOREM ResentByHandOnly == Spec => [][ByHand]_vars
<1>1. TypeOK /\ RunsApart /\ [Next]_vars => RunsApart' /\ [ByHand]_vars
  BY NextApart
<1>2. QED
  BY <1>1, InitApart, TypeCorrect, PTL DEF Spec
------------------------------------------------------------------------------
(* What the rows say of it.                                                *)
Truthful == RunTellsTruth /\ StatusTellsTruth /\ AtMostOnce

\* The two halves of the invariant.
LEMMA ApartAndTruthful ==
  ASSUME TypeOK
  PROVE  DeliveryInv <=> RunsApart /\ Truthful
BY TypeOK DEF TypeOK, DeliveryInv, RunsApart, Truthful, StatusTellsTruth, Copies

\* What is asked for is counted.
LEMMA AskedType ==
  ASSUME TypeOK, NEW r \in Rows
  PROVE  /\ Asked(r) \in Nat /\ wire[r] \in Nat /\ stray[r] \in Nat
         /\ outbox[r].attempts \in Nat
BY Bounds DEF TypeOK, RowType, Asked

\* The status of a row is true of what has left, if it has not been asked for
\* less often, or is in a run's hands.
RowTrue(r) ==
  /\ outbox[r].status \in {"free", "pending", "failed", "skipped"} => wire[r] = 0
  /\ outbox[r].status \in {"sent", "queued"} => wire[r] = 1
  /\ outbox[r].status = "pending" => stray[r] <= Asked(r)
  /\ outbox[r].status = "free" => stray[r] = 0
  /\ wire[r] <= 1 /\ Copies(r) <= 1 + Asked(r)

LEMMA RowsTrue == StatusTellsTruth /\ AtMostOnce <=> \A r \in Rows : RowTrue(r)
BY DEF StatusTellsTruth, AtMostOnce, RowTrue

\* A quiet step leaves the statuses true.
LEMMA QuietKeeps ==
  ASSUME TypeOK, TypeOK', RunsApart, Truthful, Quiet
  PROVE  Truthful'
<1> USE DEF Truthful, Quiet, Calm, Holds
<1>a. \A r \in Rows : /\ Asked(r) \in Nat /\ wire[r] \in Nat /\ stray[r] \in Nat
                       /\ Asked(r)' \in Nat
  BY AskedType DEF TypeOK, RowType, Asked
<1>1. RunTellsTruth'
  <2> SUFFICES ASSUME NEW k \in Ticks, NEW r \in Rows, Holds(k)', tick'[k].row = r
               PROVE  /\ wire'[r] = IF tick'[k].answer = "ok" THEN 1 ELSE 0
                      /\ tick'[k].answer = "none" => stray'[r] <= Asked(r)'
    BY DEF RunTellsTruth
  <2>1. tick'[k] = tick[k] /\ outbox[r].status # "free"
    BY DEF RunsApart, RowOfRun
  <2>2. Asked(r) <= Asked(r)'
    BY <2>1
  <2>3. QED
    BY <2>1, <2>2, <1>a DEF RunTellsTruth
<1>2. ASSUME NEW r \in Rows PROVE RowTrue(r)'
  <2>1. RowTrue(r)
    BY RowsTrue
  <2>2. Requeued(outbox[r].status, outbox'[r].status)
    OBVIOUS
  <2>3. Copies(r)' = Copies(r) /\ wire'[r] = wire[r] /\ stray'[r] = stray[r]
    BY DEF Copies
  <2>4. CASE outbox[r].status = "free"
    BY <2>1, <2>2, <2>3, <2>4, <1>a DEF RowTrue, Requeued, Copies
  <2>5. CASE outbox[r].status # "free"
    BY <2>1, <2>2, <2>3, <2>5, <1>a DEF RowTrue, Requeued, Copies
  <2>6. QED
    BY <2>4, <2>5
<1>3. StatusTellsTruth' /\ AtMostOnce'
  BY <1>2 DEF StatusTellsTruth, AtMostOnce, RowTrue
<1>4. QED
  BY <1>1, <1>3

\* So do the other steps of a run: it takes a line, gives it up, claims it,
\* sends it, and settles it.
LEMMA SendKeeps ==
  ASSUME TypeOK, TypeOK', RunsApart, RunsApart', Truthful, NEW k \in Ticks,
         SendStep(k)
  PROVE  Truthful'
<1> USE DEF Holds
<1>t. /\ tick \in [Ticks -> TickType] /\ outbox \in [Rows -> RowType]
      /\ wire \in [Rows -> Nat] /\ stray \in [Rows -> Nat]
  BY DEF TypeOK
<1>a. \A r \in Rows : /\ Asked(r) \in Nat /\ wire[r] \in Nat /\ stray[r] \in Nat
                       /\ outbox[r].attempts \in Nat /\ again[r] \in Nat
  BY AskedType DEF TypeOK
<1>d. Done(k) => /\ \A l \in Ticks : l # k => tick'[l] = tick[l]
                 /\ tick'[k].pc = "idle"
  BY <1>t DEF Done, IdleTick
<1>o. ASSUME Holds(k)
      PROVE  /\ tick[k].row \in Rows
             /\ outbox[tick[k].row].status \notin {"sent", "queued", "free", "failed"}
             /\ wire[tick[k].row] = IF tick[k].answer = "ok" THEN 1 ELSE 0
             /\ tick[k].answer = "none" => stray[tick[k].row] <= Asked(tick[k].row)
             /\ tick[k].pc \in {"picked", "claimed"} => tick[k].answer = "none"
             /\ \A l \in Ticks : l # k => (Holds(l) => tick[l].row # tick[k].row)
  BY <1>o DEF RunsApart, RowOfRun, OneOwner, AnswerWhenAnswered, Truthful, RunTellsTruth
\* What the other runs were told stays, as long as their rows do.
<1>r. ASSUME NEW r \in Rows, Holds(k)' => tick'[k].row = r,
             \A l \in Ticks : l # k => tick'[l] = tick[l],
             \A q \in Rows : Asked(q)' = Asked(q) \/ q = r,
             \A q \in Rows : (wire'[q] = wire[q] /\ stray'[q] = stray[q]) \/ q = r,
             \A l \in Ticks : l # k => (Holds(l) => tick[l].row # r),
             Holds(k)' =>
               /\ wire'[r] = IF tick'[k].answer = "ok" THEN 1 ELSE 0
               /\ tick'[k].answer = "none" => stray'[r] <= Asked(r)'
      PROVE  RunTellsTruth'
  <2> SUFFICES ASSUME NEW l \in Ticks, NEW q \in Rows, Holds(l)', tick'[l].row = q
               PROVE  /\ wire'[q] = IF tick'[l].answer = "ok" THEN 1 ELSE 0
                      /\ tick'[l].answer = "none" => stray'[q] <= Asked(q)'
    BY DEF RunTellsTruth
  <2>1. CASE l = k
    <3>1. q = r
      BY <2>1, <1>r
    <3>2. QED
      BY <2>1, <3>1, <1>r
  <2>2. CASE l # k
    <3>1. tick'[l] = tick[l] /\ Holds(l) /\ q # r
      BY <2>2, <1>r
    <3>2. wire'[q] = wire[q] /\ stray'[q] = stray[q] /\ Asked(q)' = Asked(q)
      BY <3>1, <1>r
    <3>3. QED
      BY <3>1, <3>2 DEF Truthful, RunTellsTruth
  <2>3. QED
    BY <2>1, <2>2
<1>s. ASSUME \A q \in Rows : RowTrue(q)' PROVE StatusTellsTruth' /\ AtMostOnce'
  BY <1>s DEF StatusTellsTruth, AtMostOnce, RowTrue
<1>z. \A q \in Rows : RowTrue(q)
  BY RowsTrue DEF Truthful
<1>1. CASE Quiet
  BY <1>1, QuietKeeps
<1>2. ASSUME NEW r \in Rows, Picks(k, r) PROVE Truthful'
  <2> DEFINE box == SweepStale(outbox)
  <2>1. /\ wire' = wire /\ stray' = stray /\ again' = again /\ outbox' = box
        /\ tick'[k].row = r /\ tick'[k].answer = "none"
        /\ \A l \in Ticks : l # k => tick'[l] = tick[l]
    BY <1>2, <1>t DEF Picks, Considers, ghostVars, copyVars
  <2>2. outbox[r].status = "pending"
    BY <1>2, <1>t DEF Picks, Considers, Oldest, SweepStale, Retire, RowType
  <2>3. \A q \in Rows : /\ Requeued(outbox[q].status, box[q].status)
                         /\ box[q].attempts = outbox[q].attempts
    BY <1>t, SweepRequeues1, SweepAsks
  <2>4. wire[r] = 0 /\ stray[r] <= Asked(r)
    BY <2>2, <1>z DEF RowTrue
  <2> HIDE DEF box
  <2>5. \A q \in Rows : Asked(q)' = Asked(q)
    BY <2>1, <2>3 DEF Asked
  <2>o. \A l \in Ticks : l # k => (Holds(l) => tick[l].row # r)
    BY <1>2, <2>2, StoreAssumption DEF Picks, Considers, RunsApart, PickedUnderLock,
                                     RowOfRun
  <2>6. RunTellsTruth'
    BY <2>1, <2>4, <2>5, <2>o, <1>r
  <2>7. ASSUME NEW q \in Rows PROVE RowTrue(q)'
    <3>1. RowTrue(q) /\ Copies(q)' = Copies(q)
      BY <2>1, <1>z DEF Copies
    <3>2. outbox[q].status = "failed" => outbox'[q].status # "pending"
      BY SendLeavesFailed
    <3>3. QED
      BY <2>1, <2>3, <2>5, <3>1, <3>2, <1>a DEF RowTrue, Requeued
  <2>8. QED
    BY <2>6, <2>7, <1>s DEF Truthful
<1>3. ASSUME CrmHolds(k) \/ Claims(k) PROVE Truthful'
  <2>r. PICK r \in Rows : r = tick[k].row
    BY <1>3, <1>o DEF CrmHolds, Claims
  <2>1. /\ tick[k].pc = "picked" /\ wire' = wire /\ stray' = stray
        /\ again' = again
    BY <1>3 DEF CrmHolds, Claims, ghostVars, copyVars
  <2>2. wire[r] = 0 /\ stray[r] <= Asked(r)
    BY <2>1, <2>r, <1>o
  <2>3. /\ outbox'[r].status \in {"skipped", "sending"}
        /\ outbox'[r].attempts = outbox[r].attempts
        /\ \A q \in Rows : q # r => outbox'[q] = outbox[q]
    <3>1. CASE CrmHolds(k)
      BY <3>1, <2>r, <1>t DEF CrmHolds, Retire, RowType
    <3>2. CASE Claims(k)
      BY <3>2, <2>r, <1>t DEF Claims, Settle, RowType
    <3>3. QED
      BY <1>3, <3>1, <3>2
  <2>4. /\ \A l \in Ticks : l # k => tick'[l] = tick[l]
        /\ Holds(k)' => tick'[k].row = r /\ tick'[k].answer = tick[k].answer
    <3>1. CASE CrmHolds(k)
      BY <3>1, <1>d DEF CrmHolds
    <3>2. CASE Claims(k)
      BY <3>2, <2>r, <1>t DEF Claims, Go, TickType
    <3>3. QED
      BY <1>3, <3>1, <3>2
  <2>5. \A q \in Rows : Asked(q)' = Asked(q)
    BY <2>1, <2>3 DEF Asked
  <2>o. /\ \A l \in Ticks : l # k => (Holds(l) => tick[l].row # r)
        /\ tick[k].answer = "none"
    BY <2>1, <2>r, <1>o
  <2>6. RunTellsTruth'
    BY <2>1, <2>2, <2>4, <2>5, <2>o, <1>r
  <2>7. ASSUME NEW q \in Rows PROVE RowTrue(q)'
    <3>1. RowTrue(q) /\ Copies(q)' = Copies(q)
      BY <2>1, <1>z DEF Copies
    <3>2. CASE q = r
      BY <2>1, <2>2, <2>3, <2>5, <3>1, <3>2, <1>a DEF RowTrue
    <3>3. CASE q # r
      BY <2>1, <2>3, <2>5, <3>1, <3>3 DEF RowTrue
    <3>4. QED
      BY <3>2, <3>3
  <2>8. QED
    BY <2>6, <2>7, <1>s DEF Truthful
<1>4. CASE Transmits(k)
  <2>r. PICK r \in Rows : r = tick[k].row
    BY <1>4, <1>o DEF Transmits
  <2>1. /\ tick[k].pc = "claimed" /\ outbox' = outbox /\ again' = again
        /\ wire[r] = 0 /\ stray[r] <= Asked(r)
    BY <1>4, <2>r, <1>o DEF Transmits
  <2>2. PICK a \in {"ok", "soft", "hard"} :
          /\ tick' = [tick EXCEPT ![k].pc = "answered", ![k].answer = a]
          /\ \/ a # "ok" /\ wire' = wire /\ stray' = stray
             \/ a = "ok" /\ wire' = [wire EXCEPT ![r] = wire[r] + 1] /\ stray' = stray
             \/ a # "ok" /\ stray' = [stray EXCEPT ![r] = stray[r] + 1] /\ wire' = wire
    BY <1>4, <2>r DEF Transmits
  <2>3. /\ \A l \in Ticks : l # k => tick'[l] = tick[l]
        /\ tick'[k].row = r /\ tick'[k].answer = a /\ a # "none"
    BY <2>2, <2>r, <1>t DEF TickType
  <2>4. /\ wire'[r] = IF a = "ok" THEN 1 ELSE 0
        /\ \A q \in Rows : q # r => wire'[q] = wire[q] /\ stray'[q] = stray[q]
        /\ wire'[r] + stray'[r] <= 1 + stray[r]
    BY <2>1, <2>2, <1>t
  <2>5. outbox[r].status \in {"sending", "canceled"}
    BY <2>1, <2>r DEF RunsApart, RowOfRun
  <2>6. \A q \in Rows : Asked(q)' = Asked(q)
    BY <2>1 DEF Asked
  <2>o. \A l \in Ticks : l # k => (Holds(l) => tick[l].row # r)
    BY <2>1, <2>r, <1>o
  <2>7. RunTellsTruth'
    BY <2>3, <2>4, <2>6, <2>o, <1>r
  <2>8. ASSUME NEW q \in Rows PROVE RowTrue(q)'
    <3>1. CASE q = r
      <4>1. stray'[r] \in Nat /\ wire'[r] \in Nat
        BY DEF TypeOK
      <4>2. wire'[r] <= 1 /\ Copies(r)' <= 1 + Asked(r)'
        BY <2>1, <2>4, <2>6, <4>1, <1>a DEF Copies
      <4>3. QED
        BY <3>1, <4>2, <2>1, <2>5 DEF RowTrue
    <3>2. CASE q # r
      BY <3>2, <2>1, <2>4, <2>6, <1>z DEF RowTrue, Copies
    <3>3. QED
      BY <3>1, <3>2
  <2>9. QED
    BY <2>7, <2>8, <1>s DEF Truthful
<1>5. ASSUME FinishSent(k) \/ FinishSoft(k) \/ FinishFailed(k)
      PROVE  Truthful'
  <2>1. /\ tick[k].pc = "answered" /\ wire' = wire /\ stray' = stray
        /\ again' = again /\ Done(k)
    BY <1>5 DEF FinishSent, FinishSoft, FinishFailed, ghostVars, copyVars
  <2>r. PICK r \in Rows : r = tick[k].row
    BY <2>1, <1>o
  <2>2. wire[r] = IF tick[k].answer = "ok" THEN 1 ELSE 0
    BY <2>1, <2>r, <1>o
  <2>3. /\ \A q \in Rows : q # r => outbox'[q] = outbox[q]
        /\ outbox'[r].status \in IF tick[k].answer = "ok"
                                 THEN {"sent", "queued"}
                                 ELSE {"pending", "failed"}
        /\ outbox'[r].attempts \in {outbox[r].attempts, outbox[r].attempts + 1}
        /\ outbox'[r].status = "pending" =>
             outbox'[r].attempts = outbox[r].attempts + 1
    <3>1. CASE FinishSent(k)
      BY <3>1, <2>r, <1>t DEF FinishSent, Settle, RowType
    <3>2. CASE FinishSoft(k)
      BY <3>2, <2>r, <1>t DEF FinishSoft, Settle, Retries, RowType
    <3>3. CASE FinishFailed(k)
      BY <3>3, <2>r, <1>t DEF FinishFailed, Settle, RowType
    <3>4. QED
      BY <1>5, <3>1, <3>2, <3>3
  <2>4. /\ \A q \in Rows : q # r => Asked(q)' = Asked(q)
        /\ Asked(r)' \in {Asked(r), Asked(r) + 1}
        /\ outbox'[r].status = "pending" => Asked(r)' = Asked(r) + 1
    BY <2>1, <2>3, <1>a DEF Asked
  <2>5. RunTellsTruth'
    <3>1. \A l \in Ticks : l # k => (Holds(l) => tick[l].row # r)
      BY <2>1, <2>r, <1>o
    <3>2. QED
      BY <2>1, <2>4, <3>1, <1>d, <1>r
  <2>6. ASSUME NEW q \in Rows PROVE RowTrue(q)'
    <3>1. RowTrue(q) /\ Copies(q)' = Copies(q)
      BY <2>1, <1>z DEF Copies
    <3>2. CASE q = r
      <4>1. stray[r] <= 1 + Asked(r)
        BY <3>1, <3>2, <1>a DEF RowTrue, Copies
      <4>2. QED
        BY <2>1, <2>2, <2>3, <2>4, <3>1, <3>2, <4>1, <1>a DEF RowTrue, Copies
    <3>3. CASE q # r
      BY <2>1, <2>3, <2>4, <3>1, <3>3 DEF RowTrue
    <3>4. QED
      BY <3>2, <3>3
  <2>7. QED
    BY <2>5, <2>6, <1>s DEF Truthful
<1>6. QED
  BY <1>1, <1>2, <1>3, <1>4, <1>5, QuietOrHandles

\* Every step keeps the invariant.
LEMMA NextKeeps ==
  ASSUME TypeOK, TypeOK', DeliveryInv, [Next]_vars
  PROVE  DeliveryInv'
<1>a. RunsApart /\ Truthful /\ RunsApart'
  BY ApartAndTruthful, NextApart
<1>1. Truthful'
  <2>1. ASSUME NEW k \in Ticks, SendStep(k) PROVE Truthful'
    BY <2>1, <1>a, SendKeeps
  <2>2. CASE Next /\ ~\E k \in Ticks : SendStep(k)
    BY <2>2, <1>a, OthersQuiet, QuietKeeps
  <2>3. CASE UNCHANGED vars
    BY <2>3, <1>a DEF vars, copyVars, Truthful, RunTellsTruth, StatusTellsTruth,
                      AtMostOnce, Holds, Asked, Copies
  <2>4. QED
    BY <2>1, <2>2, <2>3
<1>2. (RunsApart /\ Truthful => DeliveryInv)'
  BY DEF DeliveryInv, RunsApart, Truthful
<1>3. QED
  BY <1>a, <1>1, <1>2

\* The delivery invariant holds in every reachable state, whatever the errors of
\* the connector hide.
THEOREM DeliverySafe == Spec => []DeliveryInv
<1>1. Init => DeliveryInv
  <2> SUFFICES ASSUME Init PROVE DeliveryInv
    OBVIOUS
  <2>1. RunsApart
    BY InitApart
  <2>2. Truthful
    BY DEF Init, Truthful, RunTellsTruth, StatusTellsTruth, AtMostOnce, Holds,
           IdleTick, FreeRow, Asked, Copies
  <2>3. QED
    BY <2>1, <2>2 DEF DeliveryInv, RunsApart, Truthful
<1>2. TypeOK /\ TypeOK' /\ DeliveryInv /\ [Next]_vars => DeliveryInv'
  BY NextKeeps
<1>3. QED
  BY <1>1, <1>2, TypeCorrect, PTL DEF Spec

\* In particular no line is confirmed twice, and none reaches the lead more often
\* than it was asked for: once, and once more for each retry that followed an
\* error (outbox.py:190-196 and 221-231, _routes_chat.py, pending_retry).
THEOREM NoDuplicate == Spec => []AtMostOnce
<1>1. DeliveryInv => AtMostOnce
  BY DEF DeliveryInv
<1>2. QED
  BY <1>1, DeliverySafe, PTL

\* And the panel shows of a line what the connector said of it: none that waits,
\* failed or was skipped was ever confirmed, and one shown as sent was.
THEOREM NoFalseStatus == Spec => []StatusTellsTruth
<1>1. DeliveryInv => StatusTellsTruth
  BY DEF DeliveryInv
<1>2. QED
  BY <1>1, DeliverySafe, PTL

------------------------------------------------------------------------------
(* The outbox keeps the promise of the Courier.  A step of the system moves*)
(* the lines of any number of rows, but all of them the same way: it posts *)
(* them, drops them, delivers one, lets one astray, or posts a failed one  *)
(* anew.                                                                   *)
Active(r) == outbox[r].status \in {"pending", "sending"} \/ InHand(r)

\* What the line of a row is, in a state in which no row left twice.
LEMMA LineIs ==
  ASSUME TypeOK, DeliveryInv, NEW r \in Rows
  PROVE  /\ outbox[r].status = "free" => LineOf(r) = "none"
         /\ outbox[r].status # "free" /\ wire[r] = 1 => LineOf(r) = "delivered"
         /\ outbox[r].status # "free" /\ wire[r] = 0 /\ Active(r)
              => LineOf(r) = "open"
         /\ outbox[r].status # "free" /\ wire[r] = 0 /\ ~Active(r)
              => LineOf(r) = "dropped"
         /\ outbox[r].status = "free" => wire[r] = 0
         /\ wire[r] \in {0, 1}
<1>1. wire[r] \in Nat /\ wire[r] <= 1
  BY DEF TypeOK, DeliveryInv, AtMostOnce
<1>2. wire[r] \in {0, 1}
  BY <1>1
<1>3. outbox[r].status = "free" => wire[r] = 0
  BY DEF DeliveryInv, StatusTellsTruth
<1>4. QED
  BY <1>2, <1>3 DEF LineOf, Active

\* And in the state that a step leads to.
LEMMA LineBecomes ==
  ASSUME TypeOK', DeliveryInv', NEW r \in Rows
  PROVE  /\ outbox'[r].status = "free" => LineOf(r)' = "none"
         /\ outbox'[r].status # "free" /\ wire'[r] = 1
              => LineOf(r)' = "delivered"
         /\ outbox'[r].status # "free" /\ wire'[r] = 0 /\ Active(r)'
              => LineOf(r)' = "open"
         /\ outbox'[r].status # "free" /\ wire'[r] = 0 /\ ~Active(r)'
              => LineOf(r)' = "dropped"
<1>1. wire'[r] \in Nat /\ wire'[r] <= 1
  BY DEF TypeOK, DeliveryInv, AtMostOnce
<1>2. wire'[r] \in {0, 1}
  BY <1>1
<1>3. outbox'[r].status = "free" => wire'[r] = 0
  BY DEF DeliveryInv, StatusTellsTruth
<1>4. QED
  BY <1>2, <1>3 DEF LineOf, Active

\* Lines that go the same way go together.
LEMMA GoTogether ==
  ASSUME NEW from, NEW to, stray' = stray,
         \A r \in Rows : \/ LineOf(r)' = LineOf(r)
                         \/ LineOf(r) = from /\ LineOf(r)' = to
  PROVE  \E which \in SUBSET Rows : Promise!Moves(which, from, to)
<1> DEFINE which == {r \in Rows : LineOf(r) = from /\ LineOf(r)' = to}
<1>1. \A r \in Rows : LineOf(r)' = IF r \in which THEN to ELSE LineOf(r)
  OBVIOUS
<1>2. \A r \in which : r \in Rows /\ LineOf(r) = from
  OBVIOUS
<1>3. which \in SUBSET Rows
  OBVIOUS
<1> HIDE DEF which
<1>4. Promise!Moves(which, from, to)
  BY <1>1, <1>2, <1>3 DEF Promise!Moves
<1>5. QED
  BY <1>3, <1>4

\* One line that goes its way while the others stay goes as a set of one.
LEMMA GoesAlone ==
  ASSUME NEW from, NEW to, stray' = stray,
         NEW q \in Rows, LineOf(q) = from, LineOf(q)' = to,
         \A r \in Rows : r # q => LineOf(r)' = LineOf(r)
  PROVE  Promise!Moves({q}, from, to)
<1>1. \A r \in Rows : LineOf(r)' = IF r \in {q} THEN to ELSE LineOf(r)
  OBVIOUS
<1>2. \A r \in {q} : r \in Rows /\ LineOf(r) = from
  OBVIOUS
<1>3. QED
  BY <1>1, <1>2 DEF Promise!Moves

\* A step that delivers nothing, queues nothing and takes up no line at which
\* nobody was: it drops lines, or changes none.
LEMMA OnlyDrops ==
  ASSUME TypeOK, TypeOK', DeliveryInv, DeliveryInv', wire' = wire /\ stray' = stray,
         \A r \in Rows :
           /\ outbox'[r].status = "free" <=> outbox[r].status = "free"
           /\ Active(r)' => Active(r)
  PROVE  Promise!Drop
<1>1. ASSUME NEW r \in Rows
      PROVE  \/ LineOf(r)' = LineOf(r)
             \/ LineOf(r) = "open" /\ LineOf(r)' = "dropped"
  <2>1. wire'[r] = wire[r] /\ wire[r] \in {0, 1}
    BY LineIs
  <2>2. CASE outbox[r].status = "free"
    <3>1. LineOf(r) = "none"
      BY <2>2, LineIs
    <3>2. LineOf(r)' = "none"
      BY <2>2, LineBecomes
    <3>3. QED
      BY <3>1, <3>2
  <2>3. CASE outbox[r].status # "free" /\ wire[r] = 1
    <3>1. LineOf(r) = "delivered"
      BY <2>3, LineIs
    <3>2. LineOf(r)' = "delivered"
      BY <2>1, <2>3, LineBecomes
    <3>3. QED
      BY <3>1, <3>2
  <2>4. CASE outbox[r].status # "free" /\ wire[r] = 0
    <3>1. LineOf(r) = IF Active(r) THEN "open" ELSE "dropped"
      BY <2>4, LineIs
    <3>2. LineOf(r)' = IF Active(r)' THEN "open" ELSE "dropped"
      BY <2>1, <2>4, LineBecomes
    <3>3. QED
      BY <3>1, <3>2
  <2>5. QED
    BY <2>1, <2>2, <2>3, <2>4
<1>2. QED
  BY <1>1, GoTogether DEF Promise!Drop

\* A step that queues free rows and does nothing else to the queue.
LEMMA OnlyPosts ==
  ASSUME TypeOK, TypeOK', DeliveryInv, DeliveryInv', wire' = wire /\ stray' = stray,
         tick' = tick,
         \A r \in Rows : \/ outbox'[r] = outbox[r]
                         \/ /\ outbox[r].status = "free"
                            /\ outbox'[r].status = "pending"
  PROVE  Promise!Post
<1>1. \A r \in Rows : InHand(r)' <=> InHand(r)
  BY DEF InHand, Holds
<1>2. ASSUME NEW r \in Rows
      PROVE  \/ LineOf(r)' = LineOf(r)
             \/ LineOf(r) = "none" /\ LineOf(r)' = "open"
  <2>1. CASE outbox'[r] = outbox[r]
    BY <2>1, <1>1 DEF LineOf
  <2>2. CASE outbox[r].status = "free" /\ outbox'[r].status = "pending"
    <3>1. LineOf(r) = "none" /\ wire'[r] = 0
      BY <2>2, LineIs
    <3>2. LineOf(r)' = "open"
      BY <2>2, <3>1 DEF LineOf
    <3>3. QED
      BY <3>1, <3>2
  <2>3. QED
    BY <2>1, <2>2
<1>3. QED
  BY <1>2, GoTogether DEF Promise!Post

\* A step of the run k that delivers nothing and queues nothing drops lines,
\* or changes none: what it has in hand afterwards, and what it leaves in the
\* queue, was active before.
LEMMA RunDrops ==
  ASSUME TypeOK, TypeOK', DeliveryInv, DeliveryInv', wire' = wire /\ stray' = stray,
         NEW k \in Ticks,
         \A l \in Ticks : l # k => tick'[l] = tick[l],
         Holds(k)' => Active(tick'[k].row),
         \A r \in Rows :
           /\ outbox'[r].status = "free" <=> outbox[r].status = "free"
           /\ outbox'[r].status \in {"pending", "sending"} => Active(r)
  PROVE  Promise!Next
<1>1. ASSUME NEW r \in Rows, InHand(r)' PROVE Active(r)
  <2>1. PICK l \in Ticks : Holds(l)' /\ tick'[l].row = r
    BY <1>1 DEF InHand
  <2>2. CASE l = k
    BY <2>1, <2>2
  <2>3. CASE l # k
    BY <2>1, <2>3 DEF Active, InHand, Holds
  <2>4. QED
    BY <2>2, <2>3
<1>2. \A r \in Rows : Active(r)' => Active(r)
  BY <1>1 DEF Active
<1>3. Promise!Drop
  BY <1>2, OnlyDrops
<1>4. QED
  BY <1>3 DEF Promise!Next

\* The sweeps queue no line.
LEMMA SweepFades ==
  ASSUME NEW box \in [Rows -> RowType], NEW r \in Rows
  PROVE  /\ SweepStale(box)[r].status = "free" <=> box[r].status = "free"
         /\ SweepStale(box)[r].status \in {"pending", "sending"}
              => SweepStale(box)[r] = box[r]
         /\ SweepUndeliverable(box)[r].status = "free"
              <=> box[r].status = "free"
         /\ SweepUndeliverable(box)[r].status \in {"pending", "sending"}
              => SweepUndeliverable(box)[r] = box[r]
BY DEF SweepStale, SweepUndeliverable, Stale, Undeliverable, Retire, RowType

\* Nor does retiring lines that were pending.
LEMMA RetireFades ==
  ASSUME NEW box \in [Rows -> RowType], NEW which,
         NEW s \in {"skipped", "canceled"},
         \A r \in Rows : r \in which => box[r].status # "free", NEW r \in Rows
  PROVE  /\ Retire(box, which, s)[r].status = "free" <=> box[r].status = "free"
         /\ Retire(box, which, s)[r].status \in {"pending", "sending"}
              => Retire(box, which, s)[r] = box[r]
BY DEF Retire, RowType

\* Every step of a run of the sender is a step of the Courier, or none.
LEMMA RunKeepsPromise ==
  ASSUME TypeOK, TypeOK', DeliveryInv, DeliveryInv',
         NEW k \in Ticks, SendStep(k)
  PROVE  Promise!Next
<1>t. /\ tick \in [Ticks -> TickType] /\ outbox \in [Rows -> RowType]
      /\ wire \in [Rows -> Nat]
  BY DEF TypeOK
<1>b. SweepStale(outbox) \in [Rows -> RowType]
  BY <1>t, SweepStaleType
<1>d. Done(k) => /\ \A l \in Ticks : l # k => tick'[l] = tick[l]
                 /\ ~Holds(k)'
  BY <1>t DEF Done, IdleTick, Holds
<1>h. Holds(k) => /\ tick[k].row \in Rows /\ Active(tick[k].row)
                  /\ outbox[tick[k].row].status # "free"
  BY DEF Active, InHand, DeliveryInv, RowOfRun
<1>1. CASE ListThreads(k)
  <2> DEFINE box == SweepStale(outbox)
  <2>1. /\ wire' = wire /\ stray' = stray /\ outbox' = SweepUndeliverable(box)
        /\ tick' = tick \/ tick' = [tick EXCEPT ![k].pc = "listed"]
        /\ tick[k].pc = "idle"
    BY <1>1 DEF ListThreads, Go, ghostVars, copyVars
  <2>2. /\ \A l \in Ticks : l # k => tick'[l] = tick[l]
        /\ ~Holds(k)'
    BY <2>1, <1>t DEF Holds, TickType
  <2>3. ASSUME NEW r \in Rows
        PROVE  /\ outbox'[r].status = "free" <=> outbox[r].status = "free"
               /\ outbox'[r].status \in {"pending", "sending"} => Active(r)
    <3>1. /\ box[r].status = "free" <=> outbox[r].status = "free"
          /\ box[r].status \in {"pending", "sending"} => box[r] = outbox[r]
      BY <1>t, SweepFades
    <3>2. /\ outbox'[r].status = "free" <=> box[r].status = "free"
          /\ outbox'[r].status \in {"pending", "sending"}
               => outbox'[r] = box[r]
      BY <2>1, <1>b, SweepFades
    <3>3. QED
      BY <3>1, <3>2 DEF Active
  <2>4. QED
    BY <2>1, <2>2, <2>3, RunDrops
<1>2. CASE TurnsBack(k)
  <2>1. wire' = wire /\ stray' = stray /\ outbox' = outbox /\ Done(k)
    BY <1>2 DEF TurnsBack, ghostVars, copyVars
  <2>2. QED
    BY <2>1, <1>d, RunDrops DEF Active
<1>3. CASE HoldsBack(k)
  <2>1. wire' = wire /\ stray' = stray /\ outbox' = SweepStale(outbox) /\ Done(k)
    BY <1>3 DEF HoldsBack, ghostVars, copyVars
  <2>2. ASSUME NEW r \in Rows
        PROVE  /\ outbox'[r].status = "free" <=> outbox[r].status = "free"
               /\ outbox'[r].status \in {"pending", "sending"} => Active(r)
    BY <2>1, <1>t, SweepFades DEF Active
  <2>3. QED
    BY <2>1, <2>2, <1>d, RunDrops
<1>4. ASSUME NEW q \in Rows, Drops(k, q) PROVE Promise!Next
  <2> DEFINE box == SweepStale(outbox)
  <2>1. wire' = wire /\ stray' = stray /\ Done(k)
    BY <1>4 DEF Drops, ghostVars, copyVars
  <2>2. PICK s \in {"skipped", "canceled"} : outbox' = Retire(box, {q}, s)
    BY <1>4 DEF Drops
  <2>3. box[q].status = "pending"
    BY <1>4 DEF Drops, Considers, Oldest
  <2> HIDE DEF box
  <2>4. ASSUME NEW r \in Rows
        PROVE  /\ outbox'[r].status = "free" <=> outbox[r].status = "free"
               /\ outbox'[r].status \in {"pending", "sending"} => Active(r)
    <3>1. /\ box[r].status = "free" <=> outbox[r].status = "free"
          /\ box[r].status \in {"pending", "sending"} => box[r] = outbox[r]
      BY <1>t, SweepFades DEF box
    <3>2. \A p \in Rows : p \in {q} => box[p].status # "free"
      BY <2>3
    <3>3. box \in [Rows -> RowType]
      BY <1>b DEF box
    <3>4. /\ outbox'[r].status = "free" <=> box[r].status = "free"
          /\ outbox'[r].status \in {"pending", "sending"}
               => outbox'[r] = box[r]
      BY <2>2, <3>2, <3>3, RetireFades
    <3>5. QED
      BY <3>1, <3>4 DEF Active
  <2>5. QED
    BY <2>1, <2>4, <1>d, RunDrops
<1>5. ASSUME NEW q \in Rows, Picks(k, q) PROVE Promise!Next
  <2>1. /\ wire' = wire /\ stray' = stray /\ outbox' = SweepStale(outbox)
        /\ SweepStale(outbox)[q].status = "pending"
        /\ \A l \in Ticks : l # k => tick'[l] = tick[l]
        /\ tick'[k].row = q
    BY <1>5, <1>t DEF Picks, Considers, Oldest, ghostVars, copyVars
  <2>2. ASSUME NEW r \in Rows
        PROVE  /\ outbox'[r].status = "free" <=> outbox[r].status = "free"
               /\ outbox'[r].status \in {"pending", "sending"} => Active(r)
    BY <2>1, <1>t, SweepFades DEF Active
  <2>3. Active(q)
    BY <2>1, <2>2
  <2>4. QED
    BY <2>1, <2>2, <2>3, RunDrops
<1>6. CASE CrmHolds(k)
  <2>1. /\ wire' = wire /\ stray' = stray /\ Done(k) /\ Holds(k)
        /\ outbox' = Retire(outbox, {tick[k].row}, "skipped")
    BY <1>6 DEF CrmHolds, Holds, ghostVars, copyVars
  <2>2. ASSUME NEW r \in Rows
        PROVE  /\ outbox'[r].status = "free" <=> outbox[r].status = "free"
               /\ outbox'[r].status \in {"pending", "sending"} => Active(r)
    <3>1. \A p \in Rows : p \in {tick[k].row} => outbox[p].status # "free"
      BY <2>1, <1>h
    <3>2. QED
      BY <2>1, <3>1, <1>t, RetireFades DEF Active
  <2>3. QED
    BY <2>1, <2>2, <1>d, RunDrops
<1>7. CASE Claims(k)
  <2>1. /\ wire' = wire /\ stray' = stray /\ Holds(k)
        /\ outbox' = Settle(outbox, tick[k].row, "sending")
        /\ tick' = [tick EXCEPT ![k].pc = "claimed"]
    BY <1>7 DEF Claims, Go, Holds, ghostVars, copyVars
  <2>2. /\ \A l \in Ticks : l # k => tick'[l] = tick[l]
        /\ tick'[k].row = tick[k].row
    BY <2>1, <1>t DEF TickType
  <2>3. /\ \A r \in Rows : r # tick[k].row => outbox'[r] = outbox[r]
        /\ outbox'[tick[k].row].status = "sending"
    BY <2>1, <1>h, <1>t DEF Settle, RowType
  <2>4. ASSUME NEW r \in Rows
        PROVE  /\ outbox'[r].status = "free" <=> outbox[r].status = "free"
               /\ outbox'[r].status \in {"pending", "sending"} => Active(r)
    BY <2>1, <2>3, <1>h DEF Active
  <2>5. QED
    BY <2>1, <2>2, <2>4, <1>h, RunDrops
<1>8. CASE Transmits(k)
  <2>1. tick[k].pc = "claimed" /\ outbox' = outbox /\ Holds(k)
    BY <1>8 DEF Transmits, Holds
  <2>q. PICK q \in Rows : q = tick[k].row
    BY <2>1, <1>h
  <2>2. PICK a \in {"ok", "soft", "hard"} :
          /\ tick' = [tick EXCEPT ![k].pc = "answered", ![k].answer = a]
          /\ \/ wire' = wire /\ stray' = stray
             \/ wire' = [wire EXCEPT ![q] = wire[q] + 1] /\ stray' = stray
             \/ stray' = [stray EXCEPT ![q] = stray[q] + 1] /\ wire' = wire
    BY <1>8, <2>q DEF Transmits
  <2>3. /\ \A l \in Ticks : l # k => tick'[l] = tick[l]
        /\ tick'[k].pc = "answered" /\ tick'[k].row = q
    BY <2>2, <2>q, <1>t DEF TickType
  <2>i. \A r \in Rows : InHand(r)' <=> InHand(r)
    <3>1. \A l \in Ticks : /\ Holds(l)' <=> Holds(l)
                           /\ tick'[l].row = tick[l].row
      BY <2>1, <2>3, <2>q DEF Holds
    <3>2. QED
      BY <3>1 DEF InHand
  <2>o. Active(q) /\ outbox[q].status # "free" /\ wire[q] = 0 /\ LineOf(q) = "open"
    <3>1. Active(q) /\ outbox[q].status # "free" /\ wire[q] = 0
      BY <2>1, <2>q, <1>h DEF DeliveryInv, RunTellsTruth, AnswerWhenAnswered
    <3>2. QED
      BY <3>1, LineIs
  <2>4. CASE wire' = wire /\ stray' = stray
    BY <2>4, <2>1, <2>3, <2>q, <1>h, RunDrops DEF Active
  <2>5. CASE wire' = [wire EXCEPT ![q] = wire[q] + 1] /\ stray' = stray
    <3>1. wire'[q] = 1 /\ \A r \in Rows : r # q => wire'[r] = wire[r]
      <4>1. wire[q] + 1 = 1
        BY <2>o
      <4>2. QED
        BY <2>5, <4>1, <1>t
    <3>2. LineOf(q)' = "delivered"
      BY <2>o, <3>1, <2>1, LineBecomes
    <3>3. \A r \in Rows : r # q => LineOf(r)' = LineOf(r)
      BY <3>1, <2>i, <2>1 DEF LineOf
    <3>4. Promise!Moves({q}, "open", "delivered")
      BY <2>o, <2>5, <3>2, <3>3, GoesAlone
    <3>5. QED
      BY <3>4 DEF Promise!Next, Promise!Deliver
  <2>6. CASE stray' = [stray EXCEPT ![q] = stray[q] + 1] /\ wire' = wire
    <3>1. \A r \in Rows : LineOf(r)' = LineOf(r)
      BY <2>6, <2>i, <2>1 DEF LineOf
    <3>2. Promise!Astray
      BY <2>o, <2>6, <3>1 DEF Promise!Astray
    <3>3. QED
      BY <3>2 DEF Promise!Next
  <2>7. QED
    BY <2>2, <2>4, <2>5, <2>6
<1>9. ASSUME FinishSent(k) \/ FinishSoft(k) \/ FinishFailed(k)
      PROVE  Promise!Next
  <2>1. wire' = wire /\ stray' = stray /\ Done(k) /\ Holds(k)
    BY <1>9 DEF FinishSent, FinishSoft, FinishFailed, Holds, ghostVars, copyVars
  <2>2. /\ \A r \in Rows : r # tick[k].row => outbox'[r] = outbox[r]
        /\ outbox'[tick[k].row].status # "free"
    <3>1. CASE FinishSent(k)
      BY <3>1, <2>1, <1>h, <1>t DEF FinishSent, Settle, RowType
    <3>2. CASE FinishSoft(k)
      BY <3>2, <2>1, <1>h, <1>t DEF FinishSoft, Settle, RowType
    <3>3. CASE FinishFailed(k)
      BY <3>3, <2>1, <1>h, <1>t DEF FinishFailed, Settle, RowType
    <3>4. QED
      BY <1>9, <3>1, <3>2, <3>3
  <2>3. ASSUME NEW r \in Rows
        PROVE  /\ outbox'[r].status = "free" <=> outbox[r].status = "free"
               /\ outbox'[r].status \in {"pending", "sending"} => Active(r)
    BY <2>1, <2>2, <1>h DEF Active
  <2>4. QED
    BY <2>1, <2>3, <1>d, RunDrops
<1>10. QED
  BY SendStep(k), <1>1, <1>2, <1>3, <1>4, <1>5, <1>6, <1>7, <1>8, <1>9
     DEF SendStep

\* A step of another process that takes nothing in hand and queues nothing.
LEMMA OthersDrop ==
  ASSUME TypeOK, TypeOK', DeliveryInv, DeliveryInv', wire' = wire /\ stray' = stray,
         \A k \in Ticks : Holds(k)' => tick'[k] = tick[k],
         \A r \in Rows :
           /\ outbox'[r].status = "free" <=> outbox[r].status = "free"
           /\ outbox'[r].status \in {"pending", "sending"}
                => outbox[r].status \in {"pending", "sending"}
  PROVE  Promise!Next
<1>1. \A r \in Rows : InHand(r)' => InHand(r)
  BY DEF InHand, Holds
<1>2. \A r \in Rows : Active(r)' => Active(r)
  BY <1>1 DEF Active
<1>3. Promise!Drop
  BY <1>2, OnlyDrops
<1>4. QED
  BY <1>3 DEF Promise!Next

\* A step that queues an automated text or a line of the manager.
LEMMA ComposePosts ==
  ASSUME TypeOK, TypeOK', DeliveryInv, DeliveryInv', wire' = wire /\ stray' = stray,
         tick' = tick, NEW new \in SUBSET FreeRows, NEW src, NEW wait,
         outbox' = Compose(outbox, new, src, wait)
  PROVE  Promise!Next
<1>1. ASSUME NEW r \in Rows
      PROVE  \/ outbox'[r] = outbox[r]
             \/ outbox[r].status = "free" /\ outbox'[r].status = "pending"
  BY DEF Compose, FreeRow, FreeRows
<1>2. Promise!Post
  BY <1>1, OnlyPosts
<1>3. QED
  BY <1>2 DEF Promise!Next

\* The retry button posts a failed line anew: no run is at it, and it was never
\* confirmed (pending_retry, _routes_chat.py).
LEMMA RetryReposts ==
  ASSUME TypeOK, TypeOK', DeliveryInv, DeliveryInv', RetriesLine
  PROVE  Promise!Next
<1>1. PICK q \in Rows :
        /\ outbox[q].status = "failed"
        /\ outbox' = [outbox EXCEPT ![q].status = "pending", ![q].wait = 0]
  BY DEF RetriesLine, Retryable
<1>2. wire' = wire /\ stray' = stray /\ tick' = tick
  BY DEF RetriesLine, tickVars, ghostVars, copyVars
<1>3. /\ outbox'[q].status = "pending"
      /\ \A r \in Rows : r # q => outbox'[r] = outbox[r]
  BY <1>1 DEF TypeOK, RowType
<1>4. wire[q] = 0 /\ ~Active(q)
  BY <1>1 DEF DeliveryInv, StatusTellsTruth, RowOfRun, Active, InHand
<1>5. LineOf(q) = "dropped"
  BY <1>1, <1>4, LineIs
<1>6. LineOf(q)' = "open"
  BY <1>2, <1>3, <1>4 DEF LineOf
<1>7. \A r \in Rows : r # q => LineOf(r)' = LineOf(r)
  BY <1>2, <1>3 DEF LineOf, InHand, Holds
<1>8. Promise!Moves({q}, "dropped", "open")
  BY <1>2, <1>5, <1>6, <1>7, GoesAlone
<1>9. QED
  BY <1>8 DEF Promise!Next, Promise!Repost

\* Whoever else queues, retires or retries a line takes a step of the Courier,
\* or none.
LEMMA OthersKeepPromise ==
  ASSUME TypeOK, TypeOK', DeliveryInv, DeliveryInv', Next,
         ~\E k \in Ticks : SendStep(k)
  PROVE  Promise!Next
<1>t. /\ tick \in [Ticks -> TickType] /\ outbox \in [Rows -> RowType]
  BY DEF TypeOK
<1>q. Quiet
  BY OthersQuiet
<1>s. CASE outbox' = outbox
  BY <1>s, <1>q, OthersDrop DEF Quiet, Calm
<1>r. ASSUME NEW which, NEW s \in {"skipped", "canceled"},
             outbox' = Retire(outbox, which, s),
             \A r \in Rows : r \in which => outbox[r].status # "free"
      PROVE  Promise!Next
  <2>1. ASSUME NEW r \in Rows
        PROVE  /\ outbox'[r].status = "free" <=> outbox[r].status = "free"
               /\ outbox'[r].status \in {"pending", "sending"}
                    => outbox[r].status \in {"pending", "sending"}
    BY <1>r, <1>t, RetireFades
  <2>2. QED
    BY <2>1, <1>q, OthersDrop DEF Quiet, Calm
<1>1. ASSUME NEW j \in ReplyJobs, ReplyStep(j) PROVE Promise!Next
  <2>1. CASE QueueReply(j)
    <3>1. wire' = wire /\ stray' = stray /\ tick' = tick
      BY <2>1 DEF QueueReply, tickVars, copyVars
    <3>2. \E new \in Bubbles : outbox' = Compose(outbox, new, "agent", 0)
      BY <2>1 DEF QueueReply
    <3>3. QED
      BY <3>1, <3>2, ComposePosts, BubblesFree
  <2>2. CASE outbox' = outbox
    BY <2>2, <1>s
  <2>3. QED
    BY <1>1, <2>1, <2>2 DEF ReplyStep, StartReply, DecideNothing, Decides,
                            DropDuplicate
<1>2. ASSUME NEW n \in NudgeJobs, NudgeStep(n) PROVE Promise!Next
  <2>1. CASE QueueNudge(n)
    <3>1. wire' = wire /\ stray' = stray /\ tick' = tick
      BY <2>1 DEF QueueNudge, tickVars, copyVars
    <3>2. \E new \in Bubbles : outbox' = Compose(outbox, new, "followup", 0)
      BY <2>1 DEF QueueNudge
    <3>3. QED
      BY <3>1, <3>2, ComposePosts, BubblesFree
  <2>2. CASE outbox' = outbox
    BY <2>2, <1>s
  <2>3. QED
    BY <1>2, <2>1, <2>2 DEF NudgeStep, StartNudge, NoNudge, BurnsStep,
                            ChecksSilence
<1>3. CASE Dispatch
  BY <1>3, <1>s DEF Dispatch, FindAwaiting, EnqueueReplyJob, HarvestDue,
                    EnqueueNudgeJob
<1>4. CASE Platform
  <2>1. CASE StoreMessage
    <3>1. outbox' = Retire(outbox, QueuedNudges, "skipped")
      BY <2>1 DEF StoreMessage
    <3>2. QED
      BY <3>1, <1>r DEF QueuedNudges
  <2>2. CASE outbox' = outbox
    BY <2>2, <1>s
  <2>3. QED
    BY <1>4, <2>1, <2>2 DEF Platform, LeadWrites, StoreAutoReply, StoreOutgoing
<1>5. CASE DeskStep
  <2>1. CASE SendsLine
    <3>1. wire' = wire /\ stray' = stray /\ tick' = tick
      BY <2>1 DEF SendsLine, tickVars, copyVars
    <3>2. PICK q \in FreeRows, source \in {"manager", "agent"} :
            outbox' = Compose(outbox, {q}, source, 0)
      BY <2>1 DEF SendsLine
    <3>3. {q} \in SUBSET FreeRows
      OBVIOUS
    <3>4. QED
      BY <3>1, <3>2, <3>3, ComposePosts
  <2>2. CASE BotOff
    <3>1. outbox' = Retire(outbox, QueuedByBot, "canceled")
      BY <2>2 DEF BotOff
    <3>2. QED
      BY <3>1, <1>r DEF QueuedByBot
  <2>3. CASE DropsLine
    <3>1. PICK q \in Rows : /\ outbox[q].status \in {"pending", "failed"}
                            /\ outbox' = Retire(outbox, {q}, "skipped")
      BY <2>3 DEF DropsLine
    <3>2. QED
      BY <3>1, <1>r
  <2>4. CASE RetriesLine
    BY <2>4, RetryReposts
  <2>5. CASE CallFailed
    <3>1. wire' = wire /\ stray' = stray /\ tick' = tick
      BY <2>5 DEF CallFailed, tickVars, ghostVars, copyVars
    <3>2. CASE \E new \in Bubbles :
                 outbox' = Compose(outbox, new, "call_failed", 0)
      BY <3>1, <3>2, ComposePosts, BubblesFree
    <3>3. QED
      BY <2>5, <3>2, <1>s DEF CallFailed
  <2>6. CASE outbox' = outbox
    BY <2>6, <1>s
  <2>7. QED
    BY <1>5, <2>1, <2>2, <2>3, <2>4, <2>5, <2>6
       DEF DeskStep, BotOn, Blocks, Unblocks, SetsStage, MovesLead, Switches
<1>6. CASE Crash
  BY <1>6, <1>s DEF Crash, TickDies, ReplyDies, NudgeDies
<1>7. CASE TimePasses
  <2>1. \A r \in Rows : outbox'[r].status = outbox[r].status
    BY <1>7, <1>t DEF TimePasses, RowType
  <2>2. QED
    BY <2>1, <1>q, OthersDrop DEF Quiet, Calm
<1>8. QED
  BY <1>1, <1>2, <1>3, <1>4, <1>5, <1>6, <1>7 DEF Next

\* The conversation implements the Courier: whatever the number of lines, of
\* overlapping runs, of jobs and of crashes, a line is posted once, confirmed
\* at most once and for good, or dropped, only a dropped line is posted again,
\* and no copy of a line leaves, not even one that an error hides, while it is
\* not open (outbox.py, delivery.py, service_followup.py, _routes_chat.py).
THEOREM PromiseKept == Spec => CourierSpec
<1> DEFINE lines == [r \in Rows |-> LineOf(r)]
<1>1. Init => Promise!Init
  <2>1. Init => \A r \in Rows : LineOf(r) = "none"
    BY DEF Init, LineOf, FreeRow
  <2>2. Init => stray = [r \in Rows |-> 0]
    BY DEF Init
  <2>3. QED
    BY <2>1, <2>2 DEF Promise!Init
<1>2. /\ TypeOK /\ TypeOK' /\ DeliveryInv /\ DeliveryInv' /\ [Next]_vars
      => \/ Promise!Next
         \/ UNCHANGED <<lines, stray>>
  <2> SUFFICES ASSUME TypeOK, TypeOK', DeliveryInv, DeliveryInv', [Next]_vars
               PROVE  \/ Promise!Next
                      \/ UNCHANGED <<lines, stray>>
    OBVIOUS
  <2>1. ASSUME NEW k \in Ticks, SendStep(k) PROVE Promise!Next
    BY <2>1, RunKeepsPromise
  <2>2. CASE Next /\ ~\E k \in Ticks : SendStep(k)
    BY <2>2, OthersKeepPromise
  <2>3. CASE UNCHANGED vars
    BY <2>3 DEF vars, copyVars, LineOf, InHand, Holds
  <2>4. QED
    BY <2>1, <2>2, <2>3
<1>3. QED
  BY <1>1, <1>2, TypeCorrect, DeliverySafe, PTL DEF Spec, CourierSpec, Promise!Spec
===============================================================================
