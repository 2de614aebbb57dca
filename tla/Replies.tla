------------------------------- MODULE Replies -------------------------------
(***************************************************************************)
(* The reply path: reply_pending_branch reads the threads that await an    *)
(* answer and enqueues one generate_one_reply job for each; the job takes  *)
(* the thread's lock, asks the model (ReplyService.decide) and queues the  *)
(* answer (ReplyDelivery.enqueue_reply).  Saving the dossier commits, which*)
(* frees the lock before the answer is queued.                             *)
(***************************************************************************)
EXTENDS Store

IdleJob == [pc |-> "idle", thread |-> NewThread]
JobType == [pc : {"idle", "queued", "deciding", "decided"}, thread : ThreadType]

\* What a decision comes to for the funnel.
Outcomes == {"talk", "hard_stop", "needs_manager", "ready"}
------------------------------------------------------------------------------
(* threads_awaiting_reply *)
Undelivered == Has({"pending", "sending"})
Awaiting ==
  /\ channel.active /\ channel.replies
  /\ lead.agent /\ ~lead.blocked /\ lead.stage \notin BotSilent
  /\ thread.lastIn > 0 /\ thread.lastOut < thread.lastIn
  /\ ~Undelivered

FindAwaiting ==
  /\ ~dispatch /\ Awaiting
  /\ dispatch' = TRUE
  /\ UNCHANGED <<lead, thread, outbox, lock, tickVars, job, jobKey, nudgeVars,
                 envVars, ghostVars>>

\* enqueue_job does nothing while a job with this id is queued or runs.
EnqueueReplyJob ==
  /\ dispatch
  /\ dispatch' = FALSE
  /\ \/ jobKey # NoOne /\ UNCHANGED <<job, jobKey>>
     \/ /\ jobKey = NoOne
        /\ \E j \in ReplyJobs :
             /\ job[j].pc = "idle"
             /\ job' = [job EXCEPT ![j].pc = "queued"]
             /\ jobKey' = j
  /\ UNCHANGED <<lead, thread, outbox, lock, tickVars, nudgeVars, envVars,
                 ghostVars>>
------------------------------------------------------------------------------
FreeLock(j) == lock' = IF lock = j THEN NoOne ELSE lock
\* Slip: the result of a job is kept, and with it the job id.
KeepKey(j)  == UNCHANGED jobKey
FreeKey(j)  == jobKey' = IF jobKey = j THEN NoOne ELSE jobKey
EndJob(j)   == job' = [job EXCEPT ![j] = IdleJob]

\* The job starts: over the inflight cap, kill switch off or lock taken, it
\* returns; otherwise it reads the thread and goes to the model.
StartReply(j) ==
  /\ job[j].pc = "queued"
  /\ \/ EndJob(j) /\ FreeKey(j) /\ UNCHANGED lock
     \/ /\ lock = NoOne /\ lock' = j
        /\ job' = [job EXCEPT ![j] = [pc |-> "deciding", thread |-> thread]]
        /\ UNCHANGED jobKey
  /\ UNCHANGED <<lead, thread, outbox, tickVars, dispatch, nudgeVars, envVars,
                 ghostVars>>

\* decide comes to nothing: media not transcribed yet, a goodbye loop, over
\* budget, the broker down, an error.
DecideNothing(j) ==
  /\ job[j].pc = "deciding"
  /\ EndJob(j) /\ FreeKey(j) /\ FreeLock(j)
  /\ UNCHANGED <<lead, thread, outbox, tickVars, dispatch, nudgeVars, envVars,
                 ghostVars>>

\* decide returns a decision.  Saving the dossier commits and frees the
\* lock; a templated opener has no dossier to save.
Decides(j) ==
  /\ job[j].pc = "deciding"
  /\ job' = [job EXCEPT ![j].pc = "decided"]
  /\ FreeLock(j) \/ UNCHANGED lock
  /\ UNCHANGED <<lead, thread, outbox, tickVars, jobKey, dispatch, nudgeVars,
                 envVars, ghostVars>>
------------------------------------------------------------------------------
(* _apply_decision, on the lead as it is now and the thread as the job     *)
(* read it when it started.  nonTarget says what the lead is taken for     *)
(* after this turn, soft that the lead put us off politely.                *)
\* Where a turn moves the bot's own lead.  Slip: or any lead.
StageForAnyone(l, outcome, soft) ==
  CASE outcome = "ready" /\ ~soft -> "ready"
    [] outcome = "needs_manager"  -> "manager"
    [] OTHER                      -> "active"
StageFor(l, outcome, soft) ==
  IF l.stage \in HumanLed THEN l.stage ELSE StageForAnyone(l, outcome, soft)

\* A lead of the wrong audience is closed on the second such turn.
ClosesNonTarget(l, nonTarget) ==
  l.nonTarget /\ nonTarget /\ l.stage \notin HumanLed
Silences(l, outcome, nonTarget) ==
  outcome = "hard_stop" \/ ClosesNonTarget(l, nonTarget)

Decided(l, outcome, nonTarget, soft) ==
  LET t == [l EXCEPT !.nonTarget = nonTarget]
      s == StageFor(t, outcome, soft) IN
  IF Silences(l, outcome, nonTarget)
  THEN [ParkDormant(t, FALSE) EXCEPT !.agent = FALSE]
  ELSE IF s # t.stage /\ s \in {"manager", "ready"}
  THEN [t EXCEPT !.stage = s, !.agent = FALSE]
  ELSE [t EXCEPT !.stage = s]

\* _snooze_on_soft_no: what is left of the schedule is its last step, or a
\* date the lead named.
LastStep == IF Steps > 0 THEN Steps - 1 ELSE 0
Snoozed(th) ==
  LET last == [th EXCEPT !.steps = IF th.steps < LastStep THEN LastStep
                                   ELSE th.steps] IN
  {last, [last EXCEPT !.timer = StepDelay + 1]}

ThreadsAfter(l, th, outcome, nonTarget, soft) ==
  IF Silences(l, outcome, nonTarget) THEN {[th EXCEPT !.timer = Never]}
  ELSE IF soft /\ l.stage \notin HumanLed /\ ~nonTarget THEN Snoozed(th)
  ELSE {th}

\* The last line of defence: a sibling has answered this message, as far as
\* the thread this job read shows.
AlreadyAnswered(th) == th.lastOut >= th.lastIn

DropDuplicate(j) ==
  /\ job[j].pc = "decided" /\ AlreadyAnswered(job[j].thread)
  /\ EndJob(j) /\ FreeKey(j) /\ FreeLock(j)
  /\ UNCHANGED <<lead, thread, outbox, tickVars, dispatch, nudgeVars, envVars,
                 ghostVars>>

QueueReply(j) ==
  /\ job[j].pc = "decided" /\ ~AlreadyAnswered(job[j].thread)
  /\ \E new \in Bubbles, outcome \in Outcomes, nonTarget, soft \in BOOLEAN :
       /\ outbox' = Compose(outbox, new, "agent", 0)
       /\ lead' = Decided(lead, outcome, nonTarget, soft)
       /\ \E th \in ThreadsAfter(lead, job[j].thread, outcome, nonTarget, soft) :
            thread' = Flush(thread, job[j].thread, th)
       /\ origin' = [r \in Rows |->
            IF r \in new THEN [job |-> j, after |-> job[j].thread.lastIn]
            ELSE origin[r]]
  /\ EndJob(j) /\ FreeKey(j) /\ FreeLock(j)
  /\ UNCHANGED <<tickVars, dispatch, nudgeVars, envVars, copyVars>>

\* The job is killed.  Its open transaction rolls back.  Or ARQ gives it up
\* while the coroutine runs on: the job id is free again.
ReplyDies(j) ==
  /\ job[j].pc # "idle" /\ crashes < MaxCrashes
  /\ crashes' = crashes + 1
  /\ FreeKey(j)
  /\ \/ EndJob(j) /\ FreeLock(j)
     \/ job[j].pc # "queued" /\ UNCHANGED <<job, lock>>
  /\ UNCHANGED <<lead, thread, outbox, channel, tickVars, dispatch, nudgeVars,
                 said, heard, moves, ghostVars>>

ReplyStep(j) ==
  \/ StartReply(j) \/ DecideNothing(j) \/ Decides(j)
  \/ DropDuplicate(j) \/ QueueReply(j)
=============================================================================
