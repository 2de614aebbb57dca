------------------------------ MODULE MuteProofs ------------------------------
(***************************************************************************)
(* A bot that a manager switched off stays off, and a lead that was        *)
(* silenced gets no automated line but those that had passed the last gate.*)
(* The danger is in the writes of sessions that read the lead before the   *)
(* switch was thrown: they may still silence the bot, but none of them can *)
(* turn it on, lift a mute or unblock a lead.                              *)
(***************************************************************************)
EXTENDS TypeProofs

\* What a session does to the lead it read: it touches neither the mute nor
\* the block nor, unless to switch it off, the bot, and moves the lead only
\* to a human or out of the funnel.
Hushes(seen, new) ==
  /\ new.offManual = seen.offManual /\ new.blocked = seen.blocked
  /\ new.agent = seen.agent \/ ~new.agent
  /\ new.stage = seen.stage \/ new.stage \in HumanLed \cup {"dormant"}

\* What everyone but the desk may do to the lead: a fresh message revives a
\* bot that was not switched off by hand, and the lead of a human is parked
\* or left to humans.
Respects(old, new) ==
  /\ new.offManual = old.offManual /\ new.blocked = old.blocked
  /\ new.agent => old.agent \/ ~old.offManual
  /\ old.stage \in HumanLed => new.stage \in HumanLed \cup {"dormant"}

\* A late write-back of a session that hushes respects the switches as they
\* are by now.
LEMMA FlushRespects ==
  ASSUME lead \in LeadType, NEW seen \in LeadType, NEW new \in LeadType,
         Hushes(seen, new)
  PROVE  Respects(lead, Flush(lead, seen, new))
BY DEF Flush, Respects, Hushes, LeadType

LEMMA HushRespects ==
  ASSUME NEW old \in LeadType, NEW new \in LeadType, Hushes(old, new)
  PROVE  Respects(old, new)
BY DEF Respects, Hushes, LeadType

\* Parking a lead hushes.
LEMMA ParkHushes ==
  ASSUME NEW l \in LeadType, NEW respectHumanLed
  PROVE  Hushes(l, ParkDormant(l, respectHumanLed))
BY DEF ParkDormant, Hushes, HumanLed, LeadType

\* A turn of a reply job, on the lead as it is: it may end the bot's part of
\* the conversation, but a lead in human hands keeps its stage or is closed.
LEMMA DecidedRespects ==
  ASSUME NEW l \in LeadType, NEW outcome, NEW nonTarget \in BOOLEAN, NEW soft
  PROVE  Respects(l, Decided(l, outcome, nonTarget, soft))
<1> DEFINE t == [l EXCEPT !.nonTarget = nonTarget]
           s == StageFor(t, outcome, soft)
<1>1. t \in LeadType /\ Respects(l, t) /\ t.stage = l.stage
  BY DEF LeadType, Respects
<1>2. Respects(l, [ParkDormant(t, FALSE) EXCEPT !.agent = FALSE])
  BY <1>1 DEF ParkDormant, Respects, LeadType
<1>3. t.stage \in HumanLed => s = t.stage
  BY DEF StageFor
<1>4. /\ Respects(l, [t EXCEPT !.stage = s, !.agent = FALSE])
      /\ Respects(l, [t EXCEPT !.stage = s])
  <2> HIDE DEF s
  <2> QED BY <1>1, <1>3 DEF Respects, LeadType
<1>5. QED
  BY <1>2, <1>4 DEF Decided

\* Nobody but the desk touches the switches, save a revival.
LEMMA OthersRespect ==
  ASSUME TypeOK, [Next]_vars, ~DeskStep
  PROVE  Respects(lead, lead')
<1>t. /\ lead \in LeadType /\ tick \in [Ticks -> TickType]
      /\ job \in [ReplyJobs -> JobType] /\ nudge \in [NudgeJobs -> NudgeType]
  BY DEF TypeOK
<1>u. Respects(lead, lead)
  BY <1>t DEF Respects, LeadType
<1>1. ASSUME NEW k \in Ticks, SendStep(k) PROVE Respects(lead, lead')
  <2>t. tick[k].lead \in LeadType
    BY <1>t DEF TickType
  <2>1. ASSUME NEW r \in Rows, Drops(k, r) PROVE Respects(lead, lead')
    <3>1. lead' = lead \/ lead' = ParkDormant(lead, TRUE)
      BY <2>1 DEF Drops
    <3>2. Respects(lead, ParkDormant(lead, TRUE))
      BY <1>t, ParkDormantType, ParkHushes, HushRespects
    <3>3. QED
      BY <1>u, <3>1, <3>2
  <2>2. CASE CrmHolds(k)
    <3>1. /\ StoodDown(tick[k].lead) \in LeadType
          /\ Hushes(tick[k].lead, StoodDown(tick[k].lead))
      BY <2>t DEF StoodDown, Hushes, HumanLed, LeadType, Stage
    <3>2. Respects(lead, Flush(lead, tick[k].lead, StoodDown(tick[k].lead)))
      BY <1>t, <2>t, <3>1, FlushRespects
    <3>3. QED
      BY <1>u, <2>2, <3>2 DEF CrmHolds
  <2>3. ASSUME NEW b \in BOOLEAN
        PROVE  Respects(lead, Flush(lead, tick[k].lead, ParkDormant(tick[k].lead, b)))
    BY <1>t, <2>t, ParkDormantType, ParkHushes, FlushRespects
  <2>4. CASE FinishSent(k)
    BY <1>u, <2>3, <2>4 DEF FinishSent
  <2>5. CASE FinishFailed(k)
    BY <1>u, <2>3, <2>5 DEF FinishFailed
  <2>6. CASE lead' = lead
    BY <1>u, <2>6
  <2>7. QED
    BY <1>1, <2>1, <2>2, <2>4, <2>5, <2>6
       DEF SendStep, ListThreads, TurnsBack, HoldsBack, Picks, Claims,
           Transmits, FinishSoft
<1>2. ASSUME NEW j \in ReplyJobs, ReplyStep(j) PROVE Respects(lead, lead')
  <2>1. CASE QueueReply(j)
    <3>1. PICK outcome \in Outcomes, nonTarget \in BOOLEAN, soft \in BOOLEAN :
            lead' = Decided(lead, outcome, nonTarget, soft)
      BY <2>1 DEF QueueReply
    <3>2. Respects(lead, lead')
      BY <1>t, <3>1, DecidedRespects
    <3>3. QED
      BY <3>2
  <2>2. CASE lead' = lead
    BY <1>u, <2>2
  <2>3. QED
    BY <1>2, <2>1, <2>2 DEF ReplyStep, StartReply, DecideNothing, Decides,
                            DropDuplicate
<1>3. ASSUME NEW n \in NudgeJobs, NudgeStep(n) PROVE Respects(lead, lead')
  <2>1. CASE BurnsStep(n)
    <3> DEFINE l  == nudge[n].lead
               th == nudge[n].thread
    <3>1. l \in LeadType
      BY <1>t DEF NudgeType
    <3>2. BurntLead(l, th) \in LeadType /\ Hushes(l, BurntLead(l, th))
      BY <3>1, ParkDormantType, ParkHushes DEF BurntLead, Hushes
    <3>3. Respects(lead, Flush(lead, l, BurntLead(l, th)))
      BY <1>t, <3>1, <3>2, FlushRespects
    <3>4. QED
      BY <2>1, <3>3 DEF BurnsStep
  <2>2. CASE lead' = lead
    BY <1>u, <2>2
  <2>3. QED
    BY <1>3, <2>1, <2>2 DEF NudgeStep, StartNudge, NoNudge, ChecksSilence,
                            QueueNudge
<1>4. CASE Dispatch
  BY <1>4, <1>u DEF Dispatch, FindAwaiting, EnqueueReplyJob, HarvestDue,
                    EnqueueNudgeJob
<1>5. CASE Platform
  <2>1. CASE StoreMessage
    <3>1. lead' = Revived(lead)
      BY <2>1 DEF StoreMessage
    <3>2. QED
      BY <1>t, <3>1 DEF Revived, Revivable, Respects, LeadType
  <2>2. QED
    BY <1>5, <1>u, <2>1 DEF Platform, LeadWrites, StoreAutoReply, StoreOutgoing
<1>6. CASE Crash
  BY <1>6, <1>u DEF Crash, TickDies, ReplyDies, NudgeDies
<1>7. CASE TimePasses \/ UNCHANGED vars
  BY <1>7, <1>u DEF TimePasses, vars
<1>8. QED
  BY <1>1, <1>2, <1>3, <1>4, <1>5, <1>6, <1>7 DEF Next

LEMMA MuteKept ==
  ASSUME TypeOK, MuteHolds, [Next]_vars
  PROVE  MuteHolds'
<1>t. lead \in LeadType
  BY DEF TypeOK
<1>u. lead' = lead => MuteHolds'
  BY DEF MuteHolds
<1>1. CASE DeskStep
  <2>1. CASE BotOff \/ BotOn \/ Blocks \/ Unblocks \/ SetsStage
    BY <1>t, <2>1 DEF BotOff, BotOn, Blocks, Unblocks, SetsStage, MuteHolds,
                      LeadType
  <2>2. CASE MovesLead
    <3>1. ASSUME NEW s \in Stage, lead' = ApplyStage(lead, s) PROVE MuteHolds'
      BY <1>t, <3>1 DEF ApplyStage, MuteHolds, LeadType
    <3>2. CASE lead' = [lead EXCEPT !.stage = "handed_off", !.agent = FALSE]
      BY <1>t, <3>2 DEF MuteHolds, LeadType
    <3>3. QED
      BY <2>2, <3>1, <3>2 DEF MovesLead
  <2>3. CASE CallFailed
    <3>1. ~lead'.offManual
      BY <1>t, <2>3 DEF CallFailed, LeadType
    <3>2. QED
      BY <3>1 DEF MuteHolds
  <2>4. CASE lead' = lead
    BY <1>u, <2>4
  <2>5. QED
    BY <1>1, <2>1, <2>2, <2>3, <2>4
       DEF DeskStep, SendsLine, DropsLine, RetriesLine, Switches
<1>2. CASE ~DeskStep
  BY <1>t, <1>2, OthersRespect DEF Respects, MuteHolds, LeadType
<1>3. QED
  BY <1>1, <1>2

\* A bot switched off by hand stays off, however many runs and jobs of the
\* conversation read the lead before it was (outbox.py:105-120, ingest.py:471).
\* The reactivation is not among them.
THEOREM MuteSafe == Spec => []MuteHolds
<1>1. Init => MuteHolds
  BY DEF Init, MuteHolds, NewLead
<1>2. TypeOK /\ MuteHolds /\ [Next]_vars => MuteHolds'
  BY MuteKept
<1>3. QED
  BY <1>1, <1>2, TypeCorrect, PTL DEF Spec

\* A lead in human hands stays there or is parked, whatever the conversation's
\* runs and jobs in flight write back: of these only the desk returns it to the
\* bot's own stages (delivery.py:416, outbox.py:252, service_followup.py).
THEOREM HumansKeepTheirLeads == Spec => HumanKeepsLead
<1>1. ASSUME TypeOK, [Next]_vars, lead.stage \in HumanLed, moves' = moves
      PROVE  lead'.stage \in HumanLed \cup {"dormant"}
  <2>1. ~DeskStep
    <3>1. moves \in Nat
      BY <1>1, Bounds DEF TypeOK
    <3>2. \A op : ~Does(op)
      BY <1>1, <3>1 DEF Does
    <3>3. QED
      BY <3>2 DEF DeskStep, SendsLine, BotOff, BotOn, Blocks, Unblocks,
                  SetsStage, DropsLine, RetriesLine, MovesLead, CallFailed,
                  Switches
  <2>2. QED
    BY <1>1, <2>1, OthersRespect DEF Respects
<1>2. TypeOK /\ [Next]_vars
      => [lead.stage \in HumanLed /\ moves' = moves
            => lead'.stage \in HumanLed \cup {"dormant"}]_vars
  BY <1>1
<1>3. QED
  BY <1>2, TypeCorrect, PTL DEF Spec, HumanKeepsLead
------------------------------------------------------------------------------
\* A row that a run has read is not free.
RunHasLine ==
  \A k \in Ticks : Holds(k) =>
    tick[k].row \in Rows /\ outbox[tick[k].row].status # "free"

\* A row is queued once, and its source is never changed.
Kept(old, new) ==
  old.status # "free" => new.status # "free" /\ new.source = old.source

LEMMA RetireKept ==
  ASSUME NEW box \in [Rows -> RowType], NEW which, NEW status \in Status \ {"free"},
         NEW r \in Rows
  PROVE  Kept(box[r], Retire(box, which, status)[r])
BY DEF Retire, Kept, RowType

LEMMA SettleKept ==
  ASSUME NEW box \in [Rows -> RowType], NEW q \in Rows,
         NEW status \in Status \ {"free"}, NEW r \in Rows
  PROVE  Kept(box[r], Settle(box, q, status)[r])
BY DEF Settle, Kept, RowType

LEMMA ComposeKept ==
  ASSUME outbox \in [Rows -> RowType], NEW new \in SUBSET FreeRows, NEW src,
         NEW wait, NEW r \in Rows
  PROVE  Kept(outbox[r], Compose(outbox, new, src, wait)[r])
BY DEF Compose, FreeRow, FreeRows, Kept, RowType

LEMMA SweepKept ==
  ASSUME outbox \in [Rows -> RowType], NEW r \in Rows
  PROVE  /\ Kept(outbox[r], SweepStale(outbox)[r])
         /\ Kept(outbox[r], SweepUndeliverable(SweepStale(outbox))[r])
BY DEF SweepStale, SweepUndeliverable, Retire, Kept, RowType

LEMMA SourceKept ==
  ASSUME TypeOK, RunHasLine, [Next]_vars, NEW r \in Rows
  PROVE  Kept(outbox[r], outbox'[r])
<1>t. outbox \in [Rows -> RowType] /\ tick \in [Ticks -> TickType]
  BY DEF TypeOK
<1>u. Kept(outbox[r], outbox[r])
  BY DEF Kept
<1>s. {"pending", "sending", "sent", "queued", "failed", "skipped", "canceled"}
        = Status \ {"free"}
  BY DEF Status
<1>w. SweepStale(outbox) \in [Rows -> RowType]
  BY <1>t, SweepStaleType
<1>1. ASSUME NEW k \in Ticks, SendStep(k) PROVE Kept(outbox[r], outbox'[r])
  <2>h. Holds(k) => tick[k].row \in Rows
    BY DEF RunHasLine
  <2>1. CASE ListThreads(k)
    BY <2>1, <1>t, SweepKept DEF ListThreads
  <2>2. CASE HoldsBack(k)
    BY <2>2, <1>t, SweepKept DEF HoldsBack
  <2>3. ASSUME NEW q \in Rows, Drops(k, q) PROVE Kept(outbox[r], outbox'[r])
    <3>1. PICK status \in {"skipped", "canceled"} :
            outbox' = Retire(SweepStale(outbox), {q}, status)
      BY <2>3 DEF Drops
    <3>2. Kept(SweepStale(outbox)[r], outbox'[r])
      BY <1>w, <1>s, <3>1, RetireKept
    <3>3. QED
      BY <1>t, <3>2, SweepKept DEF Kept
  <2>4. ASSUME NEW q \in Rows, Picks(k, q) PROVE Kept(outbox[r], outbox'[r])
    BY <2>4, <1>t, SweepKept DEF Picks
  <2>5. CASE CrmHolds(k)
    BY <2>5, <1>t, <1>s, RetireKept DEF CrmHolds
  <2>6. CASE Claims(k)
    BY <2>6, <2>h, <1>t, <1>s, SettleKept DEF Claims, Holds
  <2>7. CASE FinishSent(k)
    <3>1. PICK status \in {"sent", "queued"} :
            outbox' = Settle(outbox, tick[k].row, status)
      BY <2>7 DEF FinishSent
    <3>2. QED
      BY <2>7, <2>h, <1>t, <1>s, <3>1, SettleKept DEF FinishSent, Holds
  <2>8. CASE FinishSoft(k)
    BY <2>8, <2>h, <1>t DEF FinishSoft, Holds, Settle, Kept, RowType
  <2>9. CASE FinishFailed(k)
    BY <2>9, <2>h, <1>t, <1>s, SettleKept DEF FinishFailed, Holds
  <2>10. CASE outbox' = outbox
    BY <2>10, <1>u
  <2>11. QED
    BY <1>1, <2>1, <2>2, <2>3, <2>4, <2>5, <2>6, <2>7, <2>8, <2>9, <2>10
       DEF SendStep, TurnsBack, Transmits
<1>2. ASSUME NEW new \in SUBSET FreeRows, NEW src, NEW wait,
             outbox' = Compose(outbox, new, src, wait)
      PROVE  Kept(outbox[r], outbox'[r])
  BY <1>2, <1>t, ComposeKept
<1>b. \A new \in Bubbles : new \in SUBSET FreeRows
  BY DEF Bubbles
<1>3. ASSUME NEW j \in ReplyJobs, ReplyStep(j) PROVE Kept(outbox[r], outbox'[r])
  BY <1>3, <1>b, <1>2, <1>u DEF ReplyStep, StartReply, DecideNothing, Decides,
                               DropDuplicate, QueueReply
<1>4. ASSUME NEW n \in NudgeJobs, NudgeStep(n) PROVE Kept(outbox[r], outbox'[r])
  BY <1>4, <1>b, <1>2, <1>u DEF NudgeStep, StartNudge, NoNudge, BurnsStep,
                               ChecksSilence, QueueNudge
<1>5. CASE StoreMessage
  BY <1>5, <1>t, <1>s, RetireKept DEF StoreMessage
<1>6. CASE DeskStep
  <2>1. CASE SendsLine
    BY <2>1, <1>2 DEF SendsLine
  <2>2. CASE BotOff
    BY <2>2, <1>t, <1>s, RetireKept DEF BotOff
  <2>3. CASE DropsLine
    BY <2>3, <1>t, <1>s, RetireKept DEF DropsLine
  <2>4. CASE RetriesLine
    BY <2>4, <1>t DEF RetriesLine, Kept, RowType
  <2>5. CASE CallFailed
    BY <2>5, <1>b, <1>2, <1>u DEF CallFailed
  <2>6. CASE outbox' = outbox
    BY <2>6, <1>u
  <2>7. QED
    BY <1>6, <2>1, <2>2, <2>3, <2>4, <2>5, <2>6
       DEF DeskStep, BotOn, Blocks, Unblocks, SetsStage, MovesLead, Switches
<1>7. CASE TimePasses
  BY <1>7, <1>t DEF TimePasses, Kept, RowType
<1>8. CASE outbox' = outbox
  BY <1>8, <1>u
<1>9. QED
  BY <1>1, <1>3, <1>4, <1>5, <1>6, <1>7, <1>8
     DEF Next, vars, Dispatch, FindAwaiting, EnqueueReplyJob, HarvestDue,
         EnqueueNudgeJob, Platform, LeadWrites, StoreAutoReply, StoreOutgoing,
         Crash, TickDies, ReplyDies, NudgeDies

\* How a run of the sender moves on: it picks a line nothing forbids, goes
\* from the pick to the claim, or is not on its way to the connector.
OnItsWay(k) == tick[k].pc \in {"picked", "claimed"}
Silenced    == lead.offManual \/ lead.blocked \/ ~channel.replies

\* What a step of a run that picks no line does to the runs.
Advances(l) ==
  \/ tick' = tick /\ riders' = riders
  \/ Done(l) /\ riders \ {l} \subseteq riders'
  \/ tick[l].pc = "idle" /\ Go(l, "listed") /\ riders' = riders
  \/ tick[l].pc = "picked" /\ Go(l, "claimed") /\ riders' = riders
  \/ /\ tick[l].pc = "claimed"
     /\ \E a \in {"ok", "soft", "hard"} :
          tick' = [tick EXCEPT ![l].pc = "answered", ![l].answer = a]
     /\ riders' = riders \ {l}

LEMMA RunAdvances ==
  ASSUME NEW l \in Ticks, SendStep(l), ~\E r \in Rows : Picks(l, r)
  PROVE  Advances(l)
<1>1. CASE ListThreads(l)
  BY <1>1 DEF ListThreads, Advances
<1>2. CASE TurnsBack(l) \/ HoldsBack(l) \/ CrmHolds(l)
  BY <1>2 DEF TurnsBack, HoldsBack, CrmHolds, Advances
<1>3. CASE \E r \in Rows : Drops(l, r)
  BY <1>3 DEF Drops, Advances
<1>4. CASE Claims(l)
  BY <1>4 DEF Claims, Advances
<1>5. CASE Transmits(l)
  BY <1>5 DEF Transmits, Advances
<1>6. CASE FinishSent(l) \/ FinishSoft(l) \/ FinishFailed(l)
  BY <1>6 DEF FinishSent, FinishSoft, FinishFailed, Advances
<1>7. QED
  BY <1>1, <1>2, <1>3, <1>4, <1>5, <1>6 DEF SendStep

LEMMA RunMoves ==
  ASSUME TypeOK, [Next]_vars, NEW k \in Ticks, OnItsWay(k)'
  PROVE  \/ /\ OnItsWay(k) /\ tick'[k].row = tick[k].row
            /\ k \in riders => k \in riders'
         \/ /\ tick'[k].row \in Rows
            /\ outbox[tick'[k].row].status # "free"
            /\ Automated(outbox[tick'[k].row]) => ~Silenced
            /\ lead' = lead /\ channel' = channel
<1>t. tick \in [Ticks -> TickType] /\ outbox \in [Rows -> RowType]
  BY DEF TypeOK
<1>1. ASSUME NEW l \in Ticks, SendStep(l)
      PROVE  \/ /\ OnItsWay(k) /\ tick'[k].row = tick[k].row
                /\ k \in riders => k \in riders'
             \/ /\ tick'[k].row \in Rows
                /\ outbox[tick'[k].row].status # "free"
                /\ Automated(outbox[tick'[k].row]) => ~Silenced
                /\ lead' = lead /\ channel' = channel
  <2>1. ASSUME NEW r \in Rows, Picks(l, r), k = l
        PROVE  /\ tick'[k].row = r /\ outbox[r].status # "free"
               /\ Automated(outbox[r]) => ~Silenced
               /\ lead' = lead /\ channel' = channel
    <3>1. tick'[k].row = r /\ lead' = lead /\ channel' = channel
      BY <2>1, <1>t DEF Picks, envVars
    <3>2. outbox[r].status # "free"
      BY <2>1, <1>t DEF Picks, Considers, Oldest, SweepStale, Retire, RowType
    <3>3. QED
      BY <2>1, <3>1, <3>2 DEF Picks, BlockedLead, TakenOver, Muted, Silenced
  <2>2. ASSUME NEW r \in Rows, Picks(l, r), k # l
        PROVE  tick'[k] = tick[k] /\ riders' = riders
    BY <2>2, <1>t DEF Picks
  <2>3. ASSUME ~\E r \in Rows : Picks(l, r)
        PROVE  OnItsWay(k) /\ tick'[k].row = tick[k].row
               /\ (k \in riders => k \in riders')
    <3>1. Advances(l)
      BY <1>1, <2>3, RunAdvances
    <3>2. QED
      BY <1>t, <3>1 DEF Advances, Go, Done, IdleTick, OnItsWay, TickType
  <2>4. QED
    BY <2>1, <2>2, <2>3 DEF OnItsWay
<1>2. CASE DeskStep
  BY <1>2 DEF DeskStep, SendsLine, BotOff, BotOn, Blocks, Unblocks, SetsStage,
     DropsLine, RetriesLine, MovesLead, CallFailed, Switches, tickVars,
     PastTheGate, OnItsWay
<1>3. ASSUME NEW l \in Ticks, TickDies(l)
      PROVE  OnItsWay(k) /\ tick'[k].row = tick[k].row
             /\ (k \in riders => k \in riders')
  BY <1>3, <1>t DEF TickDies, Done, IdleTick, OnItsWay, TickType
<1>4. CASE tick' = tick /\ riders' = riders
  BY <1>4 DEF OnItsWay
<1>5. QED
  BY <1>1, <1>2, <1>3, <1>4
     DEF Next, vars, ReplyStep, StartReply, DecideNothing, Decides,
         DropDuplicate, QueueReply, NudgeStep, StartNudge, NoNudge, BurnsStep,
         ChecksSilence, QueueNudge, Dispatch, FindAwaiting, EnqueueReplyJob,
         HarvestDue, EnqueueNudgeJob, Platform, LeadWrites, StoreMessage,
         StoreAutoReply, StoreOutgoing, Crash, ReplyDies, NudgeDies, TimePasses,
         tickVars

\* A run that has its answer had the same line before.
LEMMA RunAnswers ==
  ASSUME TypeOK, [Next]_vars, NEW k \in Ticks, Holds(k)', ~OnItsWay(k)'
  PROVE  Holds(k) /\ tick'[k].row = tick[k].row
<1>t. tick \in [Ticks -> TickType]
  BY DEF TypeOK
<1>1. ASSUME NEW l \in Ticks, SendStep(l)
      PROVE  Holds(k) /\ tick'[k].row = tick[k].row
  <2>1. CASE \E r \in Rows : Picks(l, r)
    BY <2>1, <1>t DEF Picks, OnItsWay, Holds, TickType
  <2>2. CASE ~\E r \in Rows : Picks(l, r)
    <3>1. Advances(l)
      BY <1>1, <2>2, RunAdvances
    <3>2. QED
      BY <1>t, <3>1 DEF Advances, Go, Done, IdleTick, OnItsWay, Holds, TickType
  <2>3. QED
    BY <2>1, <2>2
<1>2. ASSUME NEW l \in Ticks, TickDies(l)
      PROVE  Holds(k) /\ tick'[k].row = tick[k].row
  BY <1>2, <1>t DEF TickDies, Done, IdleTick, OnItsWay, Holds, TickType
<1>3. CASE tick' = tick
  BY <1>3 DEF Holds
<1>4. QED
  BY <1>1, <1>2, <1>3
     DEF Next, vars, ReplyStep, StartReply, DecideNothing, Decides,
         DropDuplicate, QueueReply, NudgeStep, StartNudge, NoNudge, BurnsStep,
         ChecksSilence, QueueNudge, Dispatch, FindAwaiting, EnqueueReplyJob,
         HarvestDue, EnqueueNudgeJob, Platform, LeadWrites, StoreMessage,
         StoreAutoReply, StoreOutgoing, Crash, ReplyDies, NudgeDies, TimePasses,
         tickVars, DeskStep, SendsLine, BotOff, BotOn, Blocks, Unblocks,
         SetsStage, DropsLine, RetriesLine, MovesLead, CallFailed, Switches

\* A step that silences the bot names the runs past the gate; every other one
\* leaves it as silent as it was, or less.
LEMMA SilenceStarts ==
  ASSUME TypeOK, [Next]_vars, Silenced'
  PROVE  Silenced \/ (riders' = PastTheGate /\ tick' = tick)
<1>t. /\ lead \in LeadType
      /\ channel \in [active : BOOLEAN, replies : BOOLEAN, sending : BOOLEAN]
  BY DEF TypeOK
<1>1. CASE DeskStep
  <2>1. CASE BotOff \/ Blocks
    BY <2>1 DEF BotOff, Blocks
  <2>2. CASE Switches
    BY <2>2, <1>t DEF Switches, Silenced
  <2>3. CASE MovesLead
    BY <2>3, <1>t DEF MovesLead, ApplyStage, Silenced, LeadType
  <2>4. CASE BotOn \/ Unblocks \/ SetsStage \/ CallFailed
    BY <2>4, <1>t DEF BotOn, Unblocks, SetsStage, CallFailed, Silenced, LeadType
  <2>5. CASE lead' = lead /\ channel' = channel
    BY <2>5 DEF Silenced
  <2>6. QED
    BY <1>1, <2>1, <2>2, <2>3, <2>4, <2>5
       DEF DeskStep, SendsLine, DropsLine, RetriesLine
<1>2. CASE ~DeskStep
  <2>1. channel' = channel
    BY <1>2 DEF Next, vars, SendStep, ListThreads, TurnsBack, HoldsBack, Drops,
       Picks, CrmHolds, Claims, Transmits, FinishSent, FinishSoft, FinishFailed,
       ReplyStep, StartReply, DecideNothing, Decides, DropDuplicate, QueueReply,
       NudgeStep, StartNudge, NoNudge, BurnsStep, ChecksSilence, QueueNudge,
       Dispatch, FindAwaiting, EnqueueReplyJob, HarvestDue, EnqueueNudgeJob,
       Platform, LeadWrites, StoreMessage, StoreAutoReply, StoreOutgoing, Crash,
       TickDies, ReplyDies, NudgeDies, TimePasses, envVars
  <2>2. QED
    BY <1>2, <2>1, OthersRespect DEF Respects, Silenced
<1>3. QED
  BY <1>1, <1>2

LEMMA SilenceKept ==
  ASSUME TypeOK, RunHasLine, SilencedIsSilent, [Next]_vars
  PROVE  RunHasLine' /\ SilencedIsSilent'
<1>1. SilencedIsSilent'
  <2> SUFFICES ASSUME Silenced', NEW k \in Ticks, OnItsWay(k)',
                      Automated(outbox'[tick'[k].row])
               PROVE  k \in riders'
    BY DEF SilencedIsSilent, Silenced, OnItsWay
  <2>1. CASE riders' = PastTheGate /\ tick' = tick
    BY <2>1 DEF PastTheGate, OnItsWay
  <2>2. CASE Silenced
    <3>1. CASE /\ OnItsWay(k) /\ tick'[k].row = tick[k].row
               /\ k \in riders => k \in riders'
      <4>1. tick[k].row \in Rows /\ outbox[tick[k].row].status # "free"
        BY <3>1 DEF RunHasLine, Holds, OnItsWay
      <4>2. Automated(outbox[tick[k].row])
        BY <3>1, <4>1, SourceKept DEF Kept, Automated
      <4>3. QED
        BY <2>2, <3>1, <4>2 DEF SilencedIsSilent, Silenced, OnItsWay
    <3>2. CASE /\ tick'[k].row \in Rows
               /\ outbox[tick'[k].row].status # "free"
               /\ Automated(outbox[tick'[k].row]) => ~Silenced
      BY <2>2, <3>2, SourceKept DEF Kept, Automated
    <3>3. QED
      BY <3>1, <3>2, RunMoves
  <2>3. QED
    BY <2>1, <2>2, SilenceStarts
<1>2. RunHasLine'
  <2> SUFFICES ASSUME NEW k \in Ticks, Holds(k)'
               PROVE  /\ tick'[k].row \in Rows
                      /\ outbox'[tick'[k].row].status # "free"
    BY DEF RunHasLine
  <2>0. tick'[k].row \in Rows /\ outbox[tick'[k].row].status # "free"
    <3>1. CASE OnItsWay(k)'
      BY <3>1, RunMoves DEF RunHasLine, Holds, OnItsWay
    <3>2. CASE ~OnItsWay(k)'
      <4>1. Holds(k) /\ tick'[k].row = tick[k].row
        BY <3>2, RunAnswers
      <4>2. QED
        BY <4>1 DEF RunHasLine
    <3>3. QED
      BY <3>1, <3>2
  <2>1. QED
    BY <2>0, SourceKept DEF Kept
<1>3. QED
  BY <1>1, <1>2

\* While a manager has taken the lead, blocked it, or made the channel
\* read-only, no automated line goes to the connector but those that had
\* passed the last gate (outbox.py:95-120, 157).
THEOREM SilenceSafe == Spec => []SilencedIsSilent
<1>1. Init => RunHasLine /\ SilencedIsSilent
  BY DEF Init, RunHasLine, SilencedIsSilent, Holds, IdleTick, NewLead
<1>2. TypeOK /\ RunHasLine /\ SilencedIsSilent /\ [Next]_vars
        => RunHasLine' /\ SilencedIsSilent'
  BY SilenceKept
<1>3. QED
  BY <1>1, <1>2, TypeCorrect, PTL DEF Spec
===============================================================================
