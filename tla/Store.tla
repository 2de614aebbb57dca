-------------------------------- MODULE Store --------------------------------
(***************************************************************************)
(* The database rows that the processes of one conversation share: the     *)
(* lead, its channel thread, the thread's outbox rows, the Postgres        *)
(* advisory lock of the thread, and the switches of its channel.  Every    *)
(* other module of the conversation EXTENDS this one and adds the steps of *)
(* one process over these variables.                                       *)
(*                                                                         *)
(* Time is relative.  A clock reading in the code is here the time left    *)
(* until a moment (wait, timer, window) or the time since one (age), in    *)
(* abstract units, and TimePasses moves them all.  The two watermarks are  *)
(* compared with each other only, so they are numbers of lead messages:    *)
(* lastOut = n says that the newest line of ours began to leave after the  *)
(* lead's n-th message and before the next one.                            *)
(***************************************************************************)
EXTENDS Integers, FiniteSets

CONSTANTS
  Rows,          \* ids of the outbox rows of the thread
  NoRow,         \* no outbox row
  Ticks,         \* runs of send_outbox that may overlap
  ReplyJobs,     \* generate_one_reply jobs
  NudgeJobs,     \* generate_one_followup jobs
  NoOne,         \* nobody holds the lock or the job id
  MaxAttempts,   \* outbox_max_soft_block_attempts
  StaleAfter,    \* the ten minutes after which a claim is stale
  RetryAfter,    \* soft_block_retry_min
  StepDelay,     \* delay of a step of followup_schedule_h
  Steps,         \* length of followup_schedule_h
  BackOff,       \* _FAILURE_BACKOFF_MIN
  WindowLength,  \* how long the platform lets us answer a message
  HasWindow,     \* the connector declares a send window
  Confirms,      \* the connector answers for delivery
  Outreach,      \* the connector may write to a silent lead
  DefiniteErrors,\* no error of the connector hides a delivery
  CrmGated,      \* crm_read_enabled
  MaxBubbles,    \* bubbles one generated text is split into
  MaxSaid,       \* bound: messages the lead writes
  MaxMoves,      \* bound: operations of the manager desk
  DeskOps,       \* which operations the desk may use
  MaxCrashes     \* bound: processes killed

ASSUME StoreAssumption ==
  /\ NoRow \notin Rows
  /\ NoOne \notin Ticks \cup ReplyJobs \cup NudgeJobs
  /\ Ticks \cap ReplyJobs = {}
  /\ {MaxAttempts, StaleAfter, RetryAfter, StepDelay, Steps, BackOff,
      WindowLength, MaxBubbles, MaxSaid, MaxMoves, MaxCrashes} \subseteq Nat
  /\ {HasWindow, Confirms, Outreach, DefiniteErrors, CrmGated} \subseteq BOOLEAN

VARIABLES
  lead,      \* the lead row
  thread,    \* the channel_thread row
  outbox,    \* the outbox rows of the thread
  channel,   \* the channel's switches
  lock,      \* holder of pg_try_advisory_xact_lock(thread_id)
  tick,      \* each send_outbox run
  job,       \* each generate_one_reply job
  jobKey,    \* the job that owns _job_id reply:{thread}
  dispatch,  \* reply_pending_branch found the thread awaiting
  nudge,     \* each generate_one_followup job
  nudgeKey,  \* the job that owns _job_id followup:{thread}
  harvest,   \* schedule_followups_branch found the thread due
  said,      \* messages the lead has written on the platform
  heard,     \* how many of them ingest has stored
  moves,     \* desk operations so far
  crashes,   \* processes killed so far
  wire,      \* copies of each row that the connector answered for
  stray,     \* copies that reached the lead and were answered with an error
  again,     \* how often the desk has asked for the row once more
  origin,    \* which job composed a row, after which message
  riders     \* ticks past the last gate when the bot was last silenced

vars == <<lead, thread, outbox, channel, lock, tick, job, jobKey, dispatch,
          nudge, nudgeKey, harvest, said, heard, moves, crashes, wire,
          stray, again, origin, riders>>
tickVars  == <<tick, riders>>
jobVars   == <<job, jobKey, dispatch>>
nudgeVars == <<nudge, nudgeKey, harvest>>
envVars   == <<said, heard, moves, crashes, channel>>
copyVars  == <<wire, stray, again>>
ghostVars == <<copyVars, origin>>
------------------------------------------------------------------------------
(* Stages and what they mean (domain/enums.py).  The four stages the bot   *)
(* works in differ only in what it says: they are one stage here.          *)
Stage          == {"new", "active", "ready", "handed_off", "dormant", "manager"}
BotSilent      == {"ready", "handed_off", "dormant"}
HumanLed       == {"ready", "handed_off", "manager"}

Status == {"free", "pending", "sending", "sent", "queued", "failed",
           "skipped", "canceled"}
Source == {"manager", "agent", "followup", "call_failed"}

Never == -1   \* NULL in a timer or a window

LeadType   == [stage : Stage, agent : BOOLEAN, offManual : BOOLEAN,
               blocked : BOOLEAN, nonTarget : BOOLEAN]
ThreadType == [lastIn : 0..MaxSaid, lastOut : 0..MaxSaid, steps : Nat,
               timer : Nat \cup {Never}, window : Nat \cup {Never}]
RowType    == [status : Status, source : Source, wait : Nat, age : Nat,
               attempts : 0..MaxAttempts]

NewLead   == [stage |-> "new", agent |-> TRUE, offManual |-> FALSE,
              blocked |-> FALSE, nonTarget |-> FALSE]
NewThread == [lastIn |-> 0, lastOut |-> 0, steps |-> 0, timer |-> Never,
              window |-> Never]
FreeRow   == [status |-> "free", source |-> "agent", wait |-> 0, age |-> 0,
              attempts |-> 0]
------------------------------------------------------------------------------
(* The ORM writes back the attributes a session changed, against the       *)
(* values it read; what another session committed meanwhile in the other   *)
(* attributes stays, and in those it is overwritten.                       *)
Flush(db, seen, new) ==
  [f \in DOMAIN db |-> IF new[f] = seen[f] THEN db[f] ELSE new[f]]

\* What is left of a delay of which e units have passed.
Left(delay, e) == IF delay > e THEN delay - e ELSE 0

\* apply_stage: a stage move and the bot switch it requires.
ApplyStage(l, target) ==
  CASE target = "manager"    -> [l EXCEPT !.stage = target, !.agent = FALSE]
    [] target \in BotSilent  -> [l EXCEPT !.stage = target]
    [] OTHER -> [l EXCEPT !.stage = target, !.agent = TRUE,
                          !.offManual = FALSE]

\* park_dormant: give the lead up and silence the bot.
Parks(l, respectHumanLed) ==
  /\ l.stage # "dormant"
  /\ respectHumanLed => l.stage \notin HumanLed
ParkDormant(l, respectHumanLed) ==
  IF Parks(l, respectHumanLed)
  THEN [l EXCEPT !.stage = "dormant", !.agent = FALSE]
  ELSE l

Has(statuses)  == \E r \in Rows : outbox[r].status \in statuses
Automated(row) == row.source # "manager"

\* Rows of source src are queued in the free rows new, due after wait.
Compose(box, new, src, wait) ==
  [r \in Rows |-> IF r \in new
                  THEN [FreeRow EXCEPT !.status = "pending",
                                       !.source = src, !.wait = wait]
                  ELSE box[r]]
FreeRows == {r \in Rows : outbox[r].status = "free"}
Bubbles  == {new \in SUBSET FreeRows : Cardinality(new) \in 1..MaxBubbles}

\* An UPDATE of the rows that satisfy Test to a final status.
Retire(box, which, status) ==
  [r \in Rows |-> IF r \in which THEN [box[r] EXCEPT !.status = status]
                  ELSE box[r]]
------------------------------------------------------------------------------
(* A unit of time passes: claims age, queued rows, follow-up timers and    *)
(* the platform's window come closer.                                      *)
TimePasses ==
  /\ outbox' = [r \in Rows |->
       [outbox[r] EXCEPT
          !.wait = Left(outbox[r].wait, 1),
          !.age  = IF outbox[r].status = "sending" /\ outbox[r].age <= StaleAfter
                   THEN outbox[r].age + 1 ELSE outbox[r].age]]
  /\ thread' = [thread EXCEPT
       !.timer  = IF thread.timer = Never THEN Never ELSE Left(thread.timer, 1),
       !.window = IF thread.window = Never THEN Never
                  ELSE Left(thread.window, 1)]
  /\ UNCHANGED <<lead, lock, tickVars, jobVars, nudgeVars, envVars, ghostVars>>
=============================================================================
