# Stepan-2: a verification of the conversation and of the jobs around it

Stepan-2 (`src/app`, Python, FastAPI, ARQ, Postgres) is a multi-tenant sales
assistant.  It reads what leads write on Instagram, Meta, WhatsApp or a website
chat, lets a language model answer, nudges silent leads on a schedule, hands warm
leads to a human and writes what came of them into a CRM.  Its web process, its
webhooks and its worker share one database; the worker runs cron jobs that may
overlap with themselves, with each other and with a manager's clicks.

This directory holds TLA+ modules of the parts where those overlaps matter, the
configurations under which TLC checks them, and theorems with proofs for TLAPS.

    tlc -config Delivery.cfg MCConversation.tla      # also Answering, Nudging, Takeover, Ownership, Sibling
    tlc -config CrmPushing.cfg CrmPush.tla
    tlc -config Transcript.cfg MCTranscript.tla
    tlc -config BackOffice.cfg MCBackOffice.tla      # also Forgotten and MergeDown
    tlc -config Fleet.cfg Fleet.tla
    tlapm DeliveryProofs.tla                         # and the other *Proofs.tla

## 1. Inventory

### 1.1 The parts

Paths are under `src/app/modules` unless they start with another directory.

| Part | Source | State it keeps | Operations | Module |
|---|---|---|---|---|
| Sender | `conversation/outbox.py`, `repository.py`, `dormancy.py`, `worker/wiring.py`, `main.py` | `outbox` rows, watermarks and timer of the thread, advisory lock | sweep stale claims, sweep undeliverable lines, list, gate, claim, send, settle, plan the follow-up, wind down | Egress |
| Replying | `worker/main.py`, `conversation/reply.py`, `delivery.py` | job ids, lead stage, dossier, `outbox` | dispatch, lock, decide, apply the decision, queue the bubbles | Replies |
| Follow-ups | `conversation/followup.py` | timer, step counter, `outbox` | harvest, compose, check for silence, queue or burn a step | Followups |
| Ingest: what a message does | `leads/ingest.py` | watermarks, window, lead switches | store an incoming, automatic or outgoing message, reset the cycle, revive the bot | Ingest |
| Ingest: which message is stored | `leads/ingest.py`, `adapters/channels/*`, `meta/webhook_*.py` | `message` rows | poll, webhook, recognise a copy, fill in a placeholder | Transcript |
| Deletion of messages | `conversation/deletions.py`, `chat_repo.py` | `message` rows, watermarks | ask, revoke, tombstone, rewind, give up, delete a copy | Transcript |
| Desk | `api/_routes_chat.py`, `chat_repo.py`, `leads/ops.py` | lead, `outbox`, channel switches | send, mute, block, stage, move, close, call failed, drop, retry | Desk |
| CRM gate and pull | `crm/gate.py`, `pull.py`, `policy.py`, `adapters/crm_mcp.py` | `crm_lead_state` | ask before a send, stand down, sync in the background | CrmGate, Egress |
| CRM rescue | `crm/rescue.py` | `outbox`, journal | call back leads with a missed call, follow through on a result | CrmGate |
| CRM write-back | `crm/push_mcp.py`, `delivery.py` | `stage_event` entries with a push reason | sweep of warm leads, sweep of hand-offs, push after a hand-off | CrmPush |
| Comments | `comments/*.py`, `missions/budget.py` | `post_comment`, `outbound_comment`, an hourly count | fetch, reply or hide; visit other people's posts | Account |
| Identity | `leads/consolidate.py`, `identity.py`, `repository.py` | leads, owner of each thread, `need_lead_state` | find or open a lead, fill in a number, fold | People |
| Media | `media/service.py` | text, flag, job id, bytes of a message | download, recognise, defer, release; the button of the panel | Attachments |
| Reactivation | `conversation/reactivation.py`, `outreach.py` | lead, `outbox`, journal | list, compose, queue, record | Waking |
| Reply fleet and broker guard | `worker/main.py`, `worker/breaker.py` | ARQ job ids, a sorted set, a Redis key | hand out, mark, count, ask, trip, clear | Fleet |
| Delivery reports | `conversation/delivery_report.py`, `sender/inbound.py`, `catchup.py` | `outbox.status` | move a queued line to sent or failed | not modelled |
| Decision | `engine.py`, `guard.py`, `prompt.py`, ... | none | text in, decision out | not modelled |
| Alerts | `alerts/*` | topics and cards of a Telegram group | announce, ping, close | not modelled |
| The rest | knowledge, personas, learning, ads, quality, panel, auth, settings | their own tables | batch jobs, forms, rendering | not modelled |

### 1.2 How they meet

Everything meets in rows.  A reply job, a nudge job, the rescue, the reactivation
and the desk put lines into `outbox`; the sender takes them out; ingest and the desk
take queued ones back.  Four mechanisms keep them apart, and each has a gap that the
models are about:

- **The advisory lock of a thread** is held by a run of the sender or a reply job
  until its transaction commits.  The sender commits its *claim* before it calls
  the connector, and a reply job commits when it saves the dossier: both go on
  without the lock.  Nudge jobs, reactivation and the desk never take it.
- **The status of a row** protects a claimed line: nobody lists a `sending` row.
  But the claim names the row by id and overwrites what it finds.
- **The identity map** of a session (`expire_on_commit=False`) keeps what was read
  before the commit, so decisions after a connector or a model call are about the
  past.  What a session writes are the attributes it changed, against what it read:
  `Flush`, `Written`, `Silenced` and `Retired` in the modules are that rule.
- **Job ids** (`reply:{thread}`) keep a second job out while one is queued or
  running, but the list they are made from is older than they are.

Three parts have a mechanism of their own.  The *write-back* keeps entries in the
journal, visible to the other pusher only when the transaction that called the CRM
commits.  *Comments, media and merging* each work in one long transaction per pass:
the platform or the broker has heard of what the tables will only know at the
commit, and an error undoes the lot.  The *fleet* keeps its state in Redis, where
markers and flags age out instead of being cleaned up.

Cron: sender every 10 s, replies every minute, ingest every 2 min, follow-ups, media
and the CRM pull every few minutes, write-back, rescue, comments and the merging
sweep every hour, deletions every minute, reactivation three times a day.

### 1.3 What makes each part correct

- Sender: no line reaches the lead more often than somebody asked for it, a status
  never lies, two runs never work on one row, every line settles, nobody is written to
  past a human's switch.
- Replying: a waiting thread is answered; one message gets one answer; a human's
  lead stays a human's.
- Follow-ups: nudges stop; none is sent into a conversation that has resumed.
- Transcript: a line said once is one row, whatever paths it took; none is lost by
  being taken for another; the panel never shows a retraction that did not happen,
  and one that did is not undone by a later poll.
- Desk: a mute, a deletion and a hand-off last.
- Gate: what the CRM says silences the bot, and only that does.
- Write-back: the record is true, one state is told once, failures are bounded,
  and a hand-off gets through.
- Comments: the account's cap, nobody written to twice, every comment settled; each with
  what errors that hide a success, and deletions that fail for good, leave of it.
- Identity: one number, one lead; no second voice beside a manager; no conversation
  torn from its history.
- Media: no attachment holds a reply for ever; a slow job is not ordered again.
- Reactivation: few touches per lead, none to a manager's lead, every due lead reached.
- Fleet: the cap on calls holds, and everyone who waits is answered.

The hazards, each at its line, with the property that covers it or the reason why
none does, are listed in `PROJECT.json`.

## 2. Modules

```
        Store                     rows, lock, clock; VARIABLES of a conversation
   /   /   |   \    \
Egress Replies Followups Ingest Desk
   \   \   |   /    /
      Conversation  --INSTANCE-->  Courier   (the promise of the outbox)
           |                 \
      Documented            TypeProofs, DeliveryProofs, MuteProofs
           |
     MCConversation

CrmGate  Account  People  Attachments  Waking      Transcript   CrmPush         Fleet
   \        \       |        /         /                |          |              |
                BackOffice                        MCTranscript  CrmPushProofs  FleetProofs
                /        \                        TranscriptProofs
      MCBackOffice   OfficeProofs
                    (Account, Attachments; over SilenceProofs: CrmGate, Waking, People)
```

### 2.1 The conversation

**Store** has the lead, its one channel thread, the outbox rows, the lock and the
clock.  Rows are a finite set and a row once used is never free again.  Time is
relative: `wait`, `timer`, `window` are the time left, `age` the time since, and
`TimePasses` moves all of them.  The two watermarks are only ever compared, so they
are numbers of the lead's messages.  `Flush` is the ORM's write-back.  `ApplyStage` is
`apply_stage`, `ParkDormant` is `park_dormant`.  The four stages in which the bot
works differ only in what it says and are one, `active`.

**Egress** is the sender.  `tick[k]` is one run of `send_outbox_branch`, with the
lead and the thread as it has read them.  `ListThreads` holds both branch-wide
sweeps and the query; `TurnsBack`, `HoldsBack` and `Drops` are the early returns of
`_send_thread` and `send_next`; `Picks` takes the lock; `CrmHolds` is the gate,
`Claims` the commit that frees the lock, `Transmits` the connector, and
`FinishSent`, `FinishSoft`, `FinishFailed` what the run then writes, from its old
snapshot.  `TickDies` is the process killed or the job timed out, at any point.

**Replies** is the dispatcher (`FindAwaiting`, `EnqueueReplyJob`) and the job:
`StartReply` (lock or return), `DecideNothing`, `Decides` (the dossier commits and
frees the lock; what the model decided is one of `Outcomes`), `DropDuplicate`,
`QueueReply`, `ReplyDies`.  The job works on a thread read before the model was
asked and a lead refreshed after.

**Followups** is the harvest and the nudge job: `StartNudge`, `NoNudge`,
`BurnsStep`, `ChecksSilence`, `QueueNudge`, `NudgeDies`, with no lock anywhere.

**Ingest** separates the moment the lead writes (`LeadWrites`) from the one the
message is stored (`StoreMessage`), and has the auto-responder and what a manager
writes in the platform's own app.

**Desk** is each operation of the panel and of the operators' API on a lead, a line
or the channel's switches, one step each, because each is one transaction.

**Conversation** composes them and has the fairness, the type invariant and the
properties.  **Courier** is what the outbox promises: a line is posted, delivered
once or dropped, a dropped one may be posted anew, and while a line is open a copy may
go astray, which the lead has and nobody was told of.  `Conversation!LineOf` maps each
row to its line.  `wire`, `stray` and `again` are ghosts: the copies of a row that the
connector answered for, those it answered with an error, and the desk's retries.  **Documented** holds a statement of a docstring that the code
does not keep.  **MCConversation** adds symmetry.

### 2.2 The messages of a thread

**Transcript** has the thread twice: `at` and `gone` are the platform's view, `rows`
and `marks` ours.  A `Link` is what a connector's poll is like: whether a webhook runs
beside it, whether our own lines come back and under which id, whether the ids of a
thread may all change, whether an attachment may come without its content.  The
three links are read off the adapters; a behaviour has one of them, with the jobs that
read the thread and the lines that may be said in it.

`StartPoll` reads a page of the platform, for the branch's ingest job or for its
off-minute one (`OffMinutes`, which visits the threads that are `Lively`), two jobs that
may overlap; `StartHook` takes one line from a webhook;
`Opens` is `IngestService.ingest` over the page, one message after the other (`Stored`),
oldest first and in any order where moments tie (`OldestFirst`), with the matching by id
(`ByExternal`), by words (`ByContent`) and by photo (`Rich`, `Blanks`) against the table
as its transaction sees it; `Commits` and `Aborts` end it, the latter when the unique
constraint says that the other path was faster.  `Delivers` and `Records` are the
sender's two halves.  `AsksUnsend`, `Revokes`, `RevokeFails`, `GivesUp`, `Tombstones`
and `Erases` are the deletions; `RevokesNextDoor` is the revoke under another thread's
id, to which the platform says "no such line".

A line is a member of a set, and no two lines have the same words; `at` is a moment,
and two lines of one moment are within `_DEDUP_WINDOW`.

### 2.3 Around the conversation

**CrmGate** is one lead before the CRM.  `crm` is what the CRM holds, `cached` the row
with its age.  `Gated` is `allow_send` at the sender's gate: the row while it is young,
a read when it is not, no opinion when the read fails, and in `Answers` the card
without facts that a failed tool makes of a read.  `HoldKind`, `Holds` and `Enforced` are
`hold_kind`, `allow_send` and the stand-down.  `SyncActive` and `SyncOutcomes` are the two
halves of the pull, `Rescues`, `PicksResult` and `FollowsThrough` the two hourly passes,
`Composes` the reply and nudge jobs.

**Account** is one connector with three missions that share `hourly_cap`.  `reply` and
`visit` are the two passes, each with its grant, its queue and the rows it has not
committed; `Acts` counts what the platform has seen.  `StartsDm` is the sender's check of
the cap and its claim, `EndsDm` what the connector says and the row records: up to
`Senders` runs may be between the two, and a manager's line is not checked.  `OpensPass`
fetches, ingests and asks for the grant; `Skips`, `Hides`, `HideFails`, `Replies` are the
branches of `process`; `Visits` is one turn of the proactive pass; `PassDies` is a kill or
an error that undoes it.  In `EndsDm`, `Replies` and `Visits` an error may hide a success
(`lost`, `hidden`).  What the comments are (`kindOf`) is one of the `Casts`.  A day is a
behaviour, an hour what lies between two `HourPasses`.

**People** is who a thread belongs to.  `FirstMessage` is `resolve_or_create` with
`by_phone` (which finds retired records too), `TypesNumber` a number in a text,
`NamesNumber` a number the connector brings, with the fold that follows;
`SweepReads`, `SweepFolds` and `SweepFails` are the hourly sweep.  `Fold` is
`merge_by_phone` along an order of the records: the survivor, who is absorbed by whom,
what is written of each from the state that was read, and the key of
`need_lead_state`.  `Claimed` is the claim by a connector that is a manager's own phone,
`Revived` is `_revive_bot`.  `errands` are the jobs that write `stage` and
`agent_enabled` from an older read: a touch of the reactivation (`AfterTouch`) and a turn
of the conversation that parks the lead (`AfterParking`); `ReadsLead` and `WritesLead`
are its two ends, as many steps of the others as may be between them.  `freed` is a
ghost: the leads that the desk, or such a job, has taken from a human.

**Attachments** is the pass over a branch's attachments as one transaction
(`OpensBackfill`, `TooBig`, `DownloadFails`, `Recognises`, `CommitsBackfill`,
`BackfillDies`) and the button of the panel beside it (`Presses`, `PressAnswered`).
`jobs` is what the broker works on, `astray` counts the requests that failed here and not
there: `_transcribe_voice` drops the job's id on any exception of a poll, a timeout
included, and a submit that times out may have been taken (`GoneAstray`).

**Waking** is the reactivation: `Harvests` makes the list, `Begins` reads a lead,
`Touches`, `Suppresses`, `Misses` are the ends of a touch, `HarvestDies` the job's.
A thread of `Hopeless` may come to nothing every time: an empty dialog, JSON that never
parses.  `taken` is a ghost: the leads a manager took while a list was worked off.

**BackOffice** puts the five together; `focus` names the one that moves in a behaviour.
This keeps one state graph and one check of liveness for five groups.  It shows nothing of
interleavings between groups, and there is one place where they matter: `stage` and
`agent_enabled` of a lead are columns that CrmGate, People and Waking all write.  Each
therefore has what the others do to them among its own steps: People the touches and the
parkings (`errands`), Waking the takeovers, revivals and parkings (`Takes`, `GivesBack`,
`WritesBack`, `FallsQuiet`), CrmGate the panel's steps (`PanelDecides`) beside its own pull
and rescue.  What is left out is a rescue that meets a merge or a touch.

**Fleet** is the reply jobs of a branch as the broker sees them.  `Ticks` is
`reply_pending_branch` with the dispatch cap and the canary, `Starts` sets the marker,
`TurnsBack` and `Proceeds` count it, `Answered`, `Refused`, `Misses` are what `decide`
comes to, `Clears` and `Trips` what the job then does to the guard, `Commits` the answer
that is stored after it (a call that comes to no decision clears the guard and stores
nothing), `Expires` and `AgesOut` the times to live, `Killed` a job that ends without its
`finally`.

### 2.4 The CRM write-back

**CrmPush**: `journal[l]` is the set of committed entries of a
lead; `sweep` is the hourly run, warm leads first, then hand-offs, in one
transaction, with the entries it has flushed but not committed; `flip[l]` is the
push that follows a hand-off's commit, with one session to ask and one to push.
`SweepPushes`, `SkipsPushed` and `FlipPushes` are `push_one`, `Pushable` is
`_PUSHABLE`, `FirstBy` is ORDER BY ... LIMIT.  `crm`, `lost` and `races` are ghosts:
how many events the CRM has, how many of them no entry can tell of, and how many
were sent while the other pusher had an open entry of the same kind.

Operators that a comment calls *slips* are plausible mistakes, one per property,
kept beside the definition they would replace.  With a slip in its place the
property fails, which shows that the run reaches the case the property is about.

### Abstractions to know about

- What the model answers, what the CRM says, quiet hours and a missing connector are
  nondeterministic: every answer is possible at every time.
- One lead, one thread, one channel in the conversation; the delay and order of the
  bubbles of one answer are left out.
- `DefiniteErrors` says that no error of a connector hides a delivery.  The code relies on
  it (`outbox.py:232`), the connectors' catch-alls do not establish it, and no theorem
  assumes it.  It is FALSE in `Delivery` and `Takeover`, whose properties speak of copies; it
  is TRUE in `Answering`, `Nudging`, `Ownership` and `Sibling`, where it only bounds the
  ghosts: no guard reads them, and their properties do not mention them.
- In Transcript the poll and the sender write one thread; a read's page is the whole
  thread.  What a stored message does to the lead is in Ingest.
- In CrmGate the seven days of a rescue and the 48 hours of a recent line end by
  `Quietens`.  In Account the order of `occurred_at` is the comments' numbers, and what
  is worth a comment is nondeterministic.  In People the sweep takes one phone at a
  time in each transaction, except that a clash of any phone undoes it, which is
  how the code's one transaction shows.  The order in which records are folded is free
  where the query gives none.
- In Attachments every flagged message has a url.  In Waking the merits by which the
  list is ordered are left out, so any lead that is due may be on it, and days pass
  only between two lists.
- In CrmPush one lead has one thread, a lead's creation order is free, the windows of
  seven days end by actions, and blocked, deal won, refused and CRM-native leads are
  one switch, `shut`.  Whether the transport adds an event or creates a request is not
  told apart.

## 3. Runs

Every bound is a constant of the configuration: `MaxSaid`, `MaxMoves`, `MaxCrashes`,
`MaxTurns` and the like bound what leads, managers and the fates do; nothing bounds how
often the cron jobs run or, in Waking, how often a hopeless thread fails.
`CHECK_DEADLOCK FALSE` stands in all of them because an idle system may stop: no line, no
message, no due timer.

| Run | Question | Instance | States |
|---|---|---|---|
| `Delivery` | Is a line delivered as often as it was asked for, with a true status, by one run; does it settle; is the outbox a Courier? | 2 runs, 2 lines, 2 desk operations, 1 kill, errors that hide deliveries | 165 000 |
| `Answering` | Does an awaiting thread stop awaiting? | 1 run, 1 reply job, 3 lines, 1 kill | 271 000 |
| `Nudging` | Do nudges end? | 1 run, 1 nudge job, schedule of 2, 1 message, 1 kill | 81 000 |
| `Takeover` | Do a mute, a block and a read-only channel silence the bot, at once and for good? | 2 runs, 2 lines, 2 desk operations, window, CRM gate, errors that hide deliveries | 1 515 000 |
| `Ownership` | Does a human's lead stay with the human? | 1 run, 1 reply job, 1 nudge job, 1 desk operation | 917 000 |
| `CrmPushing` | Is the record true, a state told once, are failures bounded, does a hand-off get through? | 1 lead, cap of 2, 4 turns of events, 1 kill | 510 000 |
| `Transcript` | Is a line one row, is none lost, is a retraction true, final and ended, do the watermarks follow? | 6 casts on 3 connectors: a poll with an off-minute poll, a webhook or nothing beside it; two or three of texts, photos and a line of ours; 3 moments; 1 request; 1 mishap: a deletion, a request astray or a kill | 1 453 000 |
| `BackOffice` | Does the CRM silence the bot and only that; do caps hold and comments settle; are leads folded without harm; do attachments let go; is the waking sparing and complete? | see below | 346 000 |
| `Fleet` | Does the cap hold, and is everyone answered? | 3 threads, one of them quiet; 1 call at a time; 1 outage, 1 kill, 1 repeat | 13 000 |

Why these bounds are enough to be interesting.

- *Conversation*: the hazards need two parties past the lock, so two runs, or a run and
  a job; a line retired under a run needs a second line for the other to take; a kill
  once per behaviour is what every recovery path is about, as nothing in the code counts
  kills.  `StaleAfter = 0` or 1 lets the sweep overtake a run that is alive.
  `MaxAttempts = 1` has both a retry and its exhaustion, and `RetryAfter = 1` a line that
  waits for it while another is sent.  Two operations of the desk are a line and its retry.
- *CrmPushing*: a cap of 2 has a first and a last failure, and four turns suffice for a
  phone, a hand-off and a return.
- *Transcript*: two readers that hold a page each are what a double row takes; two
  lines of the lead of one moment, two texts on WhatsApp or two photos on Meta, are what a
  wrong match takes; `RevokeAge = 0` of three moments has requests in time and too late.
  The two polls and the webhook are not in one behaviour, and where there are two readers
  a third line is there only on the connectors where it matters.  `OwesAnswer` was also
  checked with four lines and four moments, which is where its exceptions show; that
  instance is too large to keep, and the theorem has replaced it.
- *BackOffice*: six of the cards that the CRM may hold cover what
  `hold_kind` tells apart, with a refusal that has an owner, where the order of its checks
  matters.  Two
  comments under one post with a cap of one meet all three caps, and one that has to be
  hidden may stand first in the queue; two runs of the sender may meet at the account's cap
  of two, and one irregular event is one of any kind that the properties make exceptions
  for: a manager's line, an error that hides a success or a dead pass.  Three chats with two numbers,
  two of them on a manager's phone, have a fold of three with a survivor in the middle; one
  move is one step of the desk or one job that knows a lead from before.  (Two moves pass
  as well with People alone, 767 000 states.)
  A voice note and a picture take the two ways of recognition.  Two cold leads, one
  with two threads, on lists of two, with a cap of two touches, have a lead twice on one
  list and a thread that the list leaves out, and one of the three is hopeless.
- *Fleet*: with one slot two threads compete, and the quiet one may be the canary.

What each passing run shows, in terms of the code:

- *Delivery* — the ordering "commit the claim, then send" together with sweeps that
  cancel and never requeue gives one copy per send that was asked for, although the lock
  is already free: the first, and one for each retry of the sender or the desk.
  Requeueing (the slip `SweepRequeues`) breaks it, and so does claiming unlocked.
- *Answering*, *Nudging* — no combination of a killed job, a kept job id, a stale
  list and a held thread leaves a lead unanswered or nudged for ever.
- *Takeover* — what was past the last gate when the switch was thrown may go out
  (`riders`), and nothing else; a message that revives leads does not revive a muted one.
- *Ownership* — the reply and nudge jobs may finish against a lead that was taken in
  between, but do not take it back.
  `MuteHolds` and `HumanKeepsLead` are about the processes of the Conversation.  The
  reactivation is not one of them, and breaks both (section 4); and parking, which
  `HumanKeepsLead` allows, opens the lead to the next revival.
- *CrmPushing* — all three ways to the CRM share one record; two events of one state
  need a kill after the call, an error that hid a success, or both pushers at once.
- *Transcript* — each way to recognise a copy is as wide as it has to be (the slips that
  narrow one store a line twice, the one that widens one loses a line), with the exceptions
  that the properties name: our own lines on Instagram before the sender has recorded them,
  attachments of a thread that changed inboxes, and any line of a thread that changes
  inboxes between two polls that overlap.  A timeout of the revoke must count as
  a failure, and both watermarks must be rewound.
- *BackOffice* — a reply is held for a refusal, a close or a person, never for
  ownership; whichever path learns of a refusal stands the bot down, and a refusal that
  stays ends with the bot off in spite of reads that fail.  The hourly cap of the account
  holds while missions take turns, but for managers' lines and what no table knows of; when
  they overlap (`mixed`) it is passed by the grants of the others at most (`Overshoot`).
  A person is written to twice in the quiet time only if a pass died or an error hid the
  first comment.  A comment that cannot be deleted holds up no other, a second one does.
  The order of the fold, the survivor and the session's write-back never give a
  manager's chat a second voice; what does is the desk, a touch decided before the claim,
  or a parking and the revival that follows it, and `OneVoice` says so.  The six-hour
  window is what frees a placeholder whose download fails for good.  A second
  transcription is ordered only after a dead pass, a press or a failed request.  The record
  of a touch that was *not* sent is what lets the next list reach further, while fewer
  threads than the list has room for fail for ever.
- *Fleet* — marker first, count second is what bounds the calls; the guard's time to live is
  what frees the fleet when the canary is a thread that never calls.

### Fairness

- `WF(TimePasses)`: clocks run.
- Sender: `WF(SendStep)` for each run, as the cron starts one every ten seconds and
  a started run returns or dies; `SF(Sends)`, because caps and quiet hours are per
  hour and per day, and so hold a due line back again and again but not for ever.
- Ingest: `WF(StoreMessage)`, the poll every two minutes.
- Replies: `WF` of the dispatcher and of the job's steps; `SF` of starting with the
  lock, which others hold for one transaction at a time, and `SF(Decides)`: a job may
  come to nothing for want of budget or of the broker, but not every time.
- Nudges: `WF` of harvest and job, `SF(ChecksSilence)` likewise.
- Write-back: `WF(SweepStep)` (the hourly cron), `WF(FlipStep)`, `WF(RestEnds)` (the
  24 hours after a failure).  No fairness for what leads, managers, the CRM's
  verdicts, kills or the windows do.
- Transcript: `WF(Ticks)`, `WF(GivingUp)`, `WF(Tombstones)`: the job of the minute.  That
  a revoke succeeds is not assumed.
- Gate: `WF(PullAnswers)`: the pull visits active leads every ten minutes, and the CRM
  answers it now and then while it keeps being asked.
- Comments: `WF(HourPasses)`, `WF(PassGoesOn)`; `SF(GrantedPass)`, as the budget is
  taken by others hour by hour but not in every hour.  That a deletion ever succeeds is
  not assumed.
- Identity: `WF` of the sweep's reading of each phone and of its end.
- Media: `WF` of the pass, of the six-hour window, of the back-off that comes due.
- Reactivation: `WF(HarvestGoesOn)`.  Of the threads of `Hopeless` nothing is assumed of
  the model's verdicts; at the others a touch ends without a record `MaxMishaps` times at
  most.
- Fleet: `WF` of tick, job steps and the times to live, `WF(ComesBack)`: an outage ends;
  `SF` of finding room, of passing the count and of an answer, which is a decision: a
  thread at which the model never has anything to say stays.  Jobs that meet at the
  cap all turn back, and code alone does not exclude that they do so every minute.

BackOffice states the fairness of the five groups in fewer conditions: as only one
group moves in a behaviour, a disjunction of one action of each is fair just when the
action of the one that moves is.

## 4. Where code and comments disagree

Three runs end with a counterexample; each states what a comment, a docstring or a
document promises.

1. `Sibling` — *"the NOT-EXISTS pending-outbox guard stops a second generation"*
   (`main.py:340`).  The guard is in the dispatcher's query; the job enqueued from its
   list does not look again, and answers a message that has its answer queued.
2. `Forgotten` — *"CRM unreachable — keep any cached row, report no opinion"*
   (`gate.py:280`).  A tool that fails within a read is read as a card without facts, and
   the card is stored over a cached refusal.  The pull repairs the row at its next visit, but
   only of a lead in a stage that it visits.
3. `MergeDown` — *"the reconcile pass is what makes the rule true rather than mostly
   true"* (`main.py:1008`).  Two leads of one phone that both have a row in
   `need_lead_state` break the update of its primary key, and the error undoes the
   whole sweep of the branch, every hour.

Seen while modelling and not given a run of their own; the modules have the behaviour, and
the properties are stated around it where they meet it:

- `outbox.py:197`: the claim names the row by id alone and overwrites a deletion that
  committed in between, against `_routes_chat.py:778`.
- `main.py:59`: *"the constraint itself is the backstop that makes the concurrent insert
  harmless"*.  It compares ids: two overlapping polls between whose reads the thread
  changes inboxes bring two ids for one line, and both are stored, as each has
  looked for copies before the other committed.  `StoredOnce` excepts it (`Crowded`).
- `outbox.py:250`: a send that fails for good parks a lead a manager took meanwhile,
  against `outbox.py:304`; the last nudge out does the same (`outbox.py:366`).  The lead's
  next message then turns the bot on (`ingest.py:471`).
- `outbox.py:221`: the soft block is a substring of an error's text, and the line is
  requeued by itself: if the error hid the delivery, the lead gets it twice, against
  `outbox.py:195`.
- `outbox.py:128`: the cap is asked before the claim and counted after the send, so two runs
  may pass it together; a manager's line is counted and not asked, which is meant so.
- `proactive.py:150`: an error that hides a public comment leaves a row that
  `wrote_to_recently` does not count, and the person's next post gets a second one.
- `service.py:146` (comments): a deletion that fails is retried for ever and stays the oldest
  of the queue; with a grant of one, two of them stop the queue (`CommentsSettled` excepts it).
- `reactivation.py:229`, `270`, `216`: a touch that comes to nothing leaves no record; as many such
  threads as the batch has places keep all others from being reached (`DueReached` excepts it).
- `media/service.py:349`: any exception of a poll drops the job's id, against lines 340–344,
  and a second transcription is ordered beside the first.
- `outbox.py:215`: a message written before our line left and stored after it has a
  watermark below ours and is never listed for an answer.
- `push_mcp.py:470`, `584`: leads that are skipped without a typed marker fill the LIMIT of
  every sweep and can keep a hand-off from being listed; `push_mcp.py:373`: the untyped
  entry hides a warm lead whose state has changed.
- `followup.py:381`: a nudge can be queued beside a message stored after the check.
- `_routes_chat.py:490`: the panel's stage control sets a stage without the switch that
  goes with it.
- `deletions.py:59`: while two threads of a channel have requests, each is tried under the
  other's id too, and Instagram's adapter takes "no such message" for "gone":
  a tombstone without a retraction.
- `repository.py:27`: `by_phone` returns retired records, so a first message may open
  its conversation with a lead that no list shows.
- `media/service.py`: a pass that read a voice note before the button's transcript was
  stored can overwrite it with "unavailable"; a submit that is refused for good releases
  the hold although the docstring of the button's function says it never does; Instagram
  media without a url is not flagged and keeps the thread waiting, against lines 23–28.
- `reactivation.py:304`: a takeover while a list is worked off is undone by the touch,
  against lines 97–98 (`OneVoice` and `Sparing` allow it); two threads of one lead on one list are two touches; a lead muted by
  hand is woken; a queued touch is not taken back when the lead writes.

## 5. Proofs

All theorems are about the specification of their module for every value of the constants
that satisfies its assumption.

| Theorem | Says |
|---|---|
| `TypeProofs.TypeCorrect` | `Spec => []TypeOK` |
| `DeliveryProofs.DeliverySafe` | `DeliveryInv` always |
| `DeliveryProofs.NoDuplicate`, `NoFalseStatus` | `AtMostOnce`, `StatusTellsTruth`, from it |
| `DeliveryProofs.NoSharedRow`, `ResentByHandOnly` | `OneOwner` always and `[][ByHand]_vars` |
| `MuteProofs.MuteSafe` | `MuteHolds` always, of the Conversation's processes |
| `MuteProofs.SilenceSafe` | `SilencedIsSilent` always |
| `CrmPushProofs.CrmTypeCorrect` | `TypeOK` of the write-back |
| `CrmPushProofs.RecordSafe`, `RecordTrue` | `RecordTellsTruth` and `ToldOnce` always |
| `CrmPushProofs.FailuresSafe` | `FailuresBounded` always |
| `DeliveryProofs.PromiseKept` | `Spec => CourierSpec` |
| `MuteProofs.HumansKeepTheirLeads` | `HumanKeepsLead`, likewise |
| `TranscriptProofs.TranscriptSound`, `TranscriptTypeOK` | `Sound`, and from it `TypeOK` of the message table |
| `TranscriptProofs.AlwaysStoredOnce` | `StoredOnce` always |
| `TranscriptProofs.RetractionAlwaysTrue`, `NeverFiledAgain` | `RetractionTrue` always, `NotFiledAgain` |
| `TranscriptProofs.NothingEverLost` | `NothingLost` |
| `TranscriptProofs.AlwaysOwed` | `OwesAnswer` always |
| `SilenceProofs.GateTyped` | `GateTypeOK` always |
| `SilenceProofs.AskerAnswered`, `LearnedAndOff` | `QuestionsAnswered`, `SilenceStandsDown`, for any set of cards |
| `SilenceProofs.SparingAlways` | `Sparing`, for any leads, threads, cap and list length |
| `SilenceProofs.OneVoiceAlways`, `HistoryKept` | `OneVoice` always, `HistoryStays`, for folds of any size and order and any jobs in flight |
| `OfficeProofs.NeverTwiceAlways`, `CeilingAlways` | `NeverTwice`, `CeilingHolds`, for any caps, shares, comments and people |
| `OfficeProofs.OneJobAlways` | `OneJob`, for any attachments |
| `OfficeProofs.OfficeTypeCorrect`, `OfficeSafe`, `OfficeSteps` | all of these of the composed office |
| `FleetProofs.CapNeverPassed` | `CapHolds`, for any number of threads and any cap |

The theorems on a group of the back office are about `GateRuns`, `AccountRuns` and so on:
the group's initial states and steps, whatever is fair among them.  `OfficeIsFive` shows that
every behaviour of the office is one of each, which carries the results to `OfficeSpec`, the
specification that the run checks.

**Types** (TypeProofs): lemmas on what `Flush`, `ApplyStage`,
`ParkDormant`, `Compose` and `Retire` return, then one step per action.  That
`attempts` stays within `MaxAttempts` is part of the type and comes from `Retries`.

**Delivery**: `AtMostOnce` is not inductive.  A second confirmation would need a run in
`claimed` whose row has been confirmed; that is excluded by `RunTellsTruth` (before its
answer the run's row is unconfirmed, and has as many copies astray as it was asked for
again at most) and by `OneOwner` (no other run has that row).  `OneOwner` needs `PickedUnderLock` for
the two who might pick at once, and `RowOfRun` for the one who picks after the lock is gone:
the row of a claimed run is `sending` or `canceled`, so nobody picks it, and the desk never
returns either to the queue.  These make up `RunsApart`.  `StatusTellsTruth` closes the circle:
a line that waits has at most one copy astray for each time it was asked for again, so the next
send stays within one more.  Nothing is assumed of the connectors' errors.  `Asked` counts
how often somebody decided to send a line once more, `attempts` for the sender and `again`
for the desk, and `ByHand` says who decides: a copy leaves only while the line is on its
way (`OnItsWay`), the line no longer is then unless the connector took the delivery for a
soft block, and it comes to be again only by the desk's retry.  No sweep, crash or overlap
does it.

**Refinement**: under `LineOf`, a step that queues is `Post` of the lines it composes, a call of
the connector that it answers for is `Deliver`, one that an error hides is `Astray`, a line
retired or failed for good is `Drop`, the desk's retry is `Repost`, and all else is a stutter.  A line that was canceled under a run that
has it in hand is still open (`InHand`), since it may yet be delivered.  That the run delivers an
open line, and a copy goes astray from an open line only, is `RunTellsTruth`; that nobody else
has it in hand is `OneOwner`; and that a failed line was never confirmed is `StatusTellsTruth`.

**Mute**: `offManual => ~agent` is inductive because of every writer that might break it: `Flush`
from an old snapshot writes only what the session changed, and nobody changes `agent`
to TRUE but `ApplyStage` to a working stage (which clears `offManual`), `_revive_bot`
(which asks for `offManual`) and the desk.  `SilencedIsSilent` is strengthened by
`RunHasLine`: a run in hand has a row.  `HumanKeepsLead` needs no invariant but the types: it
goes through every writer of `stage` other than the desk, stale or not.

**Write-back**: `ToldOnce` follows from `Balance`: what the CRM has of a kind is at
most what was lost, plus the races, plus one if the kind is on record, committed or
in a pusher's notes.  Every call is made after a look at the record, and adds to the
record, to `lost`, or, if the other pusher has an entry in its notes, to `races`;
every kill moves entries from the notes to `lost`.  `Quiet` says that whoever is not
at work has no notes.  `FailuresBounded` needs `Attempts`: if both pushers may yet fail
on a lead, its committed failures are below the cap; if one may, at most the cap; and
the sweep notes at most one failure of a lead because the pause it notes keeps the
second list from taking the lead again.

**Gate**: two action properties over the type invariant.  `HoldKinds` says what
`hold_kind` makes of any card, `GateStep` reduces the three ways of the gate to one card
that is judged; what is left is which actions take a reply from the outbox, and which of
them write the row.

**Fleet**: whoever calls is marked, and a job passes only with at most `MaxCalls`
marked, itself included; so `PassedIsCounted` bounds the callers right after the one
step that adds one, and `NoNewCaller` says that it is the only one.  The invariant needs
no count of the kills: a stale marker only makes the count larger.

**Reactivation**: nothing checks the cap while a list is worked off, so `Sparing` alone
is not inductive.  `RoomLeft` is: for each lead with a thread on the list, its touches and its
threads still on the list together stay below the cap plus its threads.  A
harvest establishes it (`HarvestLeavesRoom`), since every thread it lists was below the
cap, and each record takes one thread off the list (`OneFewer`).  `OursOrTaken` is the other half:
a lead on the list with a manager was taken since the list was made.

**People**: `OneVoice` alone is not inductive.  `HumanFirst` adds that a lead with a manager has
the bot on only where the desk or a job has put it there; `Yielded` that the lead of a
manager's chat is led by a human but for these; `SweepKnows` that the leads a sweep has read
still share their number, and that one who was led by a human then and is not now was
taken back; `ErrandsKnown` that jobs in flight are about leads that exist.  So the survivor of a fold, which stands somewhere in an order the code
leaves free, is switched off unless what was read of it allows the bot.  `FoldedInto` says what
any fold comes to, whatever its order (`FoldIs`), and `FoldKeeps` is the one argument for the fold of
the sweep and that of an ingest, `KnownChatKeeps` for messages in a known chat, `ErrandsKeep` for
the jobs.  `HistoryStays` is shown of the same steps.  The proof asked for
one conjunct in the module: a first message opens a record only while one is unborn, where
`CHOOSE` alone would have named an arbitrary one.

**Account**: what an open pass has done is in no table, so `AnsweredOnce` and `WrittenToOnce`
speak of the rows of the open pass or else of the table: a comment whose row is still pending has
been answered at most as often as passes have died, and a person without a row `sent` written to
as often as that and as errors have hidden.  `QueuePending` keeps the pass from taking
one twice.  `GrantsFit` sets what is spent, in flight and granted (`Reserved`) against the cap: a
pass that works alone was granted what the hour had left, and one that does not no more than
the cap allows, which is where `Overshoot` comes from.  The queue of a pass is a finite set with the order read off the comments' numbers,
which is what the query says and needs no induction over sequences.

**Attachments**: a pass and a press write what they have changed of a row both have read.
`JobsKnown` bounds the jobs of an attachment by one plus the dead passes, the requests astray and
the presses that are over (`Spent`), and by those alone as long as the table has no order
(`NoOrder`), an open pass has read that it has none, or the pass has dropped an id for a
failed request;
`PassRows` says which rows may be in such a pass.

**Transcript**: a batch is one step of the model and many messages of the code, and the step
is a recursive function of the page.  Its induction is done by hand: the positions at which a
claim fails are a set of numbers, and if it is not empty it has a least element (`LeastOf`).
With that, `StoredIn` follows the batch message by message, and three families of facts are
kept along the way: the transaction is a sound draft of its page (`InHand`), its watermarks are
those of its rows (`MarksFit`), and everything of the page read so far is told by what it sees
(`Tells`).  The inductive invariants are:

- `Sound`: types; a line was said before now and by whom it may be; every row has an id and a body
  that its connector gives (`RowSound`); a key is one row (`Keyed`); the row whose revoke has
  succeeded is still there and still wanted; every open transaction is a sound draft.
- `Accounted`, for `RetractionTrue`: false tombstones and the one about to be written are
  at most the requests that went astray.
- `Plain` and `Told`, for `NothingLost`: no placeholders where the connector has none, and what an
  open transaction has read is told by it as long as no row is erased.
- `Staffed`, `IdsFit` and `Alike`, for `StoredOnce`: outside its exceptions two rows of one line,
  committed or in a transaction, have one id, so the unique constraint parts them.  This is
  where the exceptions come from: two readers see two ids only if the inboxes change between
  them.
- `OutBacked`, `Whole` and `InOrder`, for `OwesAnswer`: `last_out_at` is the moment of a live
  row; while nobody erases and no two readers see two ids, `last_in_at` is at or
  above every row of the lead and at one of them, no transaction has read a newer one, and
  rows are stored without gaps: whatever the lead said before a stored line is stored.

Two statements became weaker in the attempt, because they were false on larger instances than
the run's.  `OwesAnswer` excepts two overlapping polls between which the inboxes change: the
second of them writes a `last_in_at` that a retraction had rewound.  `NothingLost` lets two photos
of one moment share a row (`StandsFor`): a blank copy is dropped beside any rich row of its moment.

**Only model-checked**: liveness (`LinesSettle`, `AwaitingEnds`, `NudgesEnd`,
`HandoffTold`, `UnsendEnds`, `RefusalStands`, `CommentsSettled`, `OnePerPhone`, `HoldEnds`,
`DueReached`, `EveryoneAnswered`), as temporal reasoning with fairness and ENABLED is outside
the provers' reach.  Every invariant and every action property that a passing run checks, and the
refinement, is a theorem.  What the proofs assume of the code is in the modules' assumptions; the findings of section 4 are counterexamples, found by TLC.

## 6. What is left

Theorems worth proving next: the safety half of the liveness properties (the variants that
shrink: attempts, steps, pending comments), and that the three counterexamples cannot happen
without the step they blame.

Modelling worth doing next: several threads of one channel under one hourly cap counted over
rows, the purchase that the REST reader reports, and the pure rules over bounded inputs
(settings in three tiers, the follow-up schedule, quiet hours, the split into bubbles).

### Not modelled

- **Delivery reports.**  `DeliveryReports.resolve`, `stale_queued` and the sweep in
  `sender/catchup.py` have no caller outside tests in this commit.  A line that a connector
  has queued stays queued, and that is how Egress has it.
- **Prompt, decision and guards**: text in, text out.  What they come to is a
  nondeterministic outcome in Replies, Followups and Waking.
- **Alerts**: cards and pings in a Telegram group, read by their own module only.
- **Knowledge, personas, learning, ads, quality, reports**: batch jobs that fill tables
  of their own and content of prompts.  The one write that other code depends on, the row
  of `need_lead_state`, is `People.Classifies`.
- **Connectors' sessions, pairing, parsing; signatures of webhooks; the broker's own
  polling; the money budget of a branch**: their results are outcomes of the actions that
  call them.
- **Admin panel, authentication, website chat, MCP server, settings**: forms and
  rendering.  The operations of the panel that write a conversation are in Desk,
  Transcript and Attachments.
