----------------------------- MODULE Conversation -----------------------------
(***************************************************************************)
(* One conversation: the runs of the sender, the reply jobs, the nudge     *)
(* jobs, ingest and the desk, interleaved over the rows of Store.          *)
(***************************************************************************)
EXTENDS Egress, Replies, Followups, Ingest, Desk

Init ==
  /\ lead = NewLead
  /\ thread = NewThread
  /\ outbox = [r \in Rows |-> FreeRow]
  /\ channel = [active |-> TRUE, replies |-> TRUE, sending |-> TRUE]
  /\ lock = NoOne
  /\ tick = [k \in Ticks |-> IdleTick]
  /\ job = [j \in ReplyJobs |-> IdleJob]
  /\ jobKey = NoOne
  /\ dispatch = FALSE
  /\ nudge = [n \in NudgeJobs |-> IdleNudge]
  /\ nudgeKey = NoOne
  /\ harvest = FALSE
  /\ said = 0 /\ heard = 0 /\ moves = 0 /\ crashes = 0
  /\ wire = [r \in Rows |-> 0] /\ stray = wire /\ again = wire
  /\ origin = [r \in Rows |-> [job |-> NoOne, after |-> 0]]
  /\ riders = {}

Dispatch == FindAwaiting \/ EnqueueReplyJob \/ HarvestDue \/ EnqueueNudgeJob
Platform == LeadWrites \/ StoreMessage \/ StoreAutoReply \/ StoreOutgoing
Crash ==
  \/ \E k \in Ticks : TickDies(k)
  \/ \E j \in ReplyJobs : ReplyDies(j)
  \/ \E n \in NudgeJobs : NudgeDies(n)

Next ==
  \/ \E k \in Ticks : SendStep(k)
  \/ \E j \in ReplyJobs : ReplyStep(j)
  \/ \E n \in NudgeJobs : NudgeStep(n)
  \/ Dispatch \/ Platform \/ DeskStep \/ Crash \/ TimePasses

Spec == Init /\ [][Next]_vars
------------------------------------------------------------------------------
(* Fairness.  Time passes, the cron starts a run of the sender every ten   *)
(* seconds, and a run, once started, goes on until it returns or dies.  A  *)
(* cap or quiet hours may hold a due line back again and again, but not    *)
(* for ever: the caps are per hour and per day.                            *)
Sends(k) == \E r \in Rows : Drops(k, r) \/ Picks(k, r)
SenderRuns ==
  \A k \in Ticks : WF_vars(SendStep(k)) /\ SF_vars(Sends(k))

\* Poll and webhook store what the lead has written.
IngestRuns == WF_vars(StoreMessage)

\* The dispatchers run every minute and their jobs run.  A job may come to
\* nothing, over budget or with the broker down, but not every time.
RepliesRun ==
  /\ WF_vars(FindAwaiting) /\ WF_vars(EnqueueReplyJob)
  /\ \A j \in ReplyJobs :
       /\ WF_vars(ReplyStep(j))
       /\ SF_vars(job[j].pc = "queued" /\ StartReply(j) /\ lock' = j)
       /\ SF_vars(Decides(j))
NudgesRun ==
  /\ WF_vars(HarvestDue) /\ WF_vars(EnqueueNudgeJob)
  /\ \A n \in NudgeJobs :
       WF_vars(NudgeStep(n)) /\ SF_vars(ChecksSilence(n))

FairSpec ==
  Spec /\ WF_vars(TimePasses) /\ SenderRuns /\ IngestRuns /\ RepliesRun
       /\ NudgesRun
------------------------------------------------------------------------------
\* Every variable has its type.
TypeOK ==
  /\ lead \in LeadType
  /\ thread \in ThreadType
  /\ outbox \in [Rows -> RowType]
  /\ channel \in [active : BOOLEAN, replies : BOOLEAN, sending : BOOLEAN]
  /\ lock \in Ticks \cup ReplyJobs \cup {NoOne}
  /\ tick \in [Ticks -> TickType]
  /\ job \in [ReplyJobs -> JobType]
  /\ jobKey \in ReplyJobs \cup {NoOne}
  /\ dispatch \in BOOLEAN
  /\ nudge \in [NudgeJobs -> NudgeType]
  /\ nudgeKey \in NudgeJobs \cup {NoOne}
  /\ harvest \in BOOLEAN
  /\ said \in 0..MaxSaid /\ heard \in 0..said
  /\ moves \in 0..MaxMoves /\ crashes \in 0..MaxCrashes
  /\ wire \in [Rows -> Nat] /\ stray \in [Rows -> Nat]
  /\ again \in [Rows -> Nat]
  /\ origin \in [Rows -> [job : ReplyJobs \cup NudgeJobs \cup {NoOne},
                          after : 0..MaxSaid]]
  /\ riders \in SUBSET Ticks
------------------------------------------------------------------------------
(* The inductive invariant of delivery.                                    *)
Holds(k) == tick[k].pc \in {"picked", "claimed", "answered"}

\* A run between its read and its claim holds the lock.
PickedUnderLock == \A k \in Ticks : tick[k].pc = "picked" => lock = k

\* What the row of a run can look like while the run is at it: retired under
\* it before the claim, swept as stale after it, and nothing else.
RowOfRun ==
  \A k \in Ticks : Holds(k) =>
    /\ tick[k].row \in Rows
    /\ outbox[tick[k].row].status \in
         IF tick[k].pc = "picked" THEN {"pending", "skipped", "canceled"}
         ELSE {"sending", "canceled"}

\* Two runs are never at the same row, although the lock is gone as soon as
\* the claim commits (outbox.py, send_next).
OneOwner ==
  \A k, l \in Ticks : Holds(k) /\ Holds(l) /\ tick[k].row = tick[l].row => k = l

\* How often somebody has decided to send a line once more: the sender after
\* a soft block, the desk after a failure.
Asked(r)  == outbox[r].attempts + again[r]
Copies(r) == wire[r] + stray[r]

\* Before the connector is called nothing has left but what was asked for.
RunTellsTruth ==
  \A k \in Ticks, r \in Rows : Holds(k) /\ tick[k].row = r =>
    /\ wire[r] = IF tick[k].answer = "ok" THEN 1 ELSE 0
    /\ tick[k].answer = "none" => stray[r] <= Asked(r)
AnswerWhenAnswered ==
  \A k \in Ticks : tick[k].pc \in {"picked", "claimed"} => tick[k].answer = "none"

\* The panel shows of a line what the connector said of it: one that went out
\* was confirmed, one that waits, failed or was skipped never was; and a line
\* that waits is with the lead only if an error hid it, a retry for each copy.
StatusTellsTruth ==
  \A r \in Rows :
    /\ outbox[r].status \in {"free", "pending", "failed", "skipped"} => wire[r] = 0
    /\ outbox[r].status \in {"sent", "queued"} => wire[r] = 1
    /\ outbox[r].status = "pending" => stray[r] <= Asked(r)
    /\ outbox[r].status = "free" => stray[r] = 0

\* However many runs overlap, die between the claim and the result, or are
\* swept (outbox.py:190, at-most-once), a line is confirmed once at most, and
\* reaches the lead once for the send and once for every retry after an error,
\* whatever the errors hide.
AtMostOnce == \A r \in Rows : wire[r] <= 1 /\ Copies(r) <= 1 + Asked(r)

DeliveryInv ==
  /\ PickedUnderLock /\ RowOfRun /\ OneOwner /\ RunTellsTruth
  /\ AnswerWhenAnswered /\ StatusTellsTruth /\ AtMostOnce
------------------------------------------------------------------------------
(* The outbox as a Courier.  A line in the hands of a run is open even when*)
(* the row was retired under it: the run may still deliver it.             *)
InHand(r) == \E k \in Ticks : Holds(k) /\ tick[k].row = r
LineOf(r) ==
  CASE outbox[r].status = "free" -> "none"
    [] outbox[r].status # "free" /\ wire[r] = 1 -> "delivered"
    [] outbox[r].status # "free" /\ wire[r] > 1 -> "delivered again"
    [] outbox[r].status # "free" /\ wire[r] = 0 /\
       (outbox[r].status \in {"pending", "sending"} \/ InHand(r)) -> "open"
    [] OTHER -> "dropped"

Promise == INSTANCE Courier WITH line <- [r \in Rows |-> LineOf(r)]

\* The sender, its sweeps, its crashes and everyone who queues or retires a
\* line together keep the promise of the Courier.
CourierSpec == Promise!Spec

\* Every queued line is delivered or dropped in the end: none waits for ever
\* behind a line that is retried, rescheduled or held back, and no claim
\* outlives the run that made it.
LinesSettle == Promise!Settles
------------------------------------------------------------------------------
(* Who owns the lead.                                                      *)
\* While a manager has taken the lead, or has blocked it, or the channel is
\* read-only, no automated line is on its way but the ones that had passed
\* the sender's last gate when the switch was thrown (outbox.py:95, 113, 157).
SilencedIsSilent ==
  lead.offManual \/ lead.blocked \/ ~channel.replies =>
    \A k \in Ticks :
      tick[k].pc \in {"picked", "claimed"} /\ Automated(outbox[tick[k].row])
        => k \in riders

\* A bot switched off by hand stays off: no message of the lead, no stale
\* write of a run, no turn of a reply job in flight turns it on.  Holds of the
\* processes of this module: the touch of a cold lead, which is not one of them
\* (reactivation.py:304), turns on whatever lead it gets an answer about.
MuteHolds == lead.offManual => ~lead.agent

\* Of the processes of this module nobody but the desk takes a lead back from
\* a human: a run or a job may park it, and the next message of a parked lead
\* revives the bot, but none returns it to the bot's own stages by itself.  The
\* touch of a cold lead does (reactivation.py:304): see OneVoice of People.
HumanKeepsLead ==
  [][lead.stage \in HumanLed /\ moves' = moves
       => lead'.stage \in HumanLed \cup {"dormant"}]_vars
------------------------------------------------------------------------------
(* What must happen.                                                       *)
\* A thread that awaits an answer does not await it for ever.
AwaitingEnds == Awaiting ~> ~Awaiting

\* The nudges of a lead who never answers come to an end.
NudgesEnd == <>[](~Due /\ ~Has({"pending", "sending"}))
===============================================================================
