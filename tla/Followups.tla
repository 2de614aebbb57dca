------------------------------ MODULE Followups ------------------------------
(***************************************************************************)
(* The nudge path: schedule_followups_branch harvests the threads whose    *)
(* follow-up timer has matured, and generate_one_followup composes one     *)
(* nudge (FollowupService.queue_one).  The job takes no lock, and goes on  *)
(* with the lead and the thread as it read them before the model was asked.*)
(***************************************************************************)
EXTENDS Store

IdleNudge == [pc |-> "idle", lead |-> NewLead, thread |-> NewThread]
NudgeType == [pc : {"idle", "queued", "writing", "checked"},
              lead : LeadType, thread : ThreadType]
------------------------------------------------------------------------------
(* _FOLLOWUP_Q and the schedule bound of due_threads *)
Due ==
  /\ lead.stage = "active" /\ lead.agent /\ ~lead.blocked /\ ~lead.nonTarget
  /\ thread.timer = 0
  /\ thread.lastOut > 0 /\ thread.lastIn <= thread.lastOut
  /\ ~Has({"pending"})
  /\ ~(HasWindow /\ thread.window = 0)
  /\ channel.replies /\ Outreach
  /\ thread.steps < Steps

HarvestDue ==
  /\ ~harvest /\ Due
  /\ harvest' = TRUE
  /\ UNCHANGED <<lead, thread, outbox, lock, tickVars, jobVars, nudge,
                 nudgeKey, envVars, ghostVars>>

EnqueueNudgeJob ==
  /\ harvest
  /\ harvest' = FALSE
  /\ \/ nudgeKey # NoOne /\ UNCHANGED <<nudge, nudgeKey>>
     \/ /\ nudgeKey = NoOne
        /\ \E n \in NudgeJobs :
             /\ nudge[n].pc = "idle"
             /\ nudge' = [nudge EXCEPT ![n].pc = "queued"]
             /\ nudgeKey' = n
  /\ UNCHANGED <<lead, thread, outbox, lock, tickVars, jobVars, envVars,
                 ghostVars>>
------------------------------------------------------------------------------
FreeNudgeKey(n) == nudgeKey' = IF nudgeKey = n THEN NoOne ELSE nudgeKey
EndNudge(n) ==
  /\ nudge' = [nudge EXCEPT ![n] = IdleNudge]
  /\ FreeNudgeKey(n)

StartNudge(n) ==
  /\ nudge[n].pc = "queued"
  /\ nudge' = [nudge EXCEPT ![n] = [pc |-> "writing", lead |-> lead,
                                    thread |-> thread]]
  /\ UNCHANGED <<lead, thread, outbox, lock, tickVars, jobVars, nudgeKey,
                 harvest, envVars, ghostVars>>

\* No nudge this time: no context, no usable decision, a blunt refusal on
\* file (which cancels the timer), or a failure (which backs the timer off).
NoNudge(n) ==
  /\ nudge[n].pc = "writing"
  /\ \E timer \in {nudge[n].thread.timer, Never, BackOff} :
       thread' = Flush(thread, nudge[n].thread,
                       [nudge[n].thread EXCEPT !.timer = timer])
  /\ EndNudge(n)
  /\ UNCHANGED <<lead, outbox, lock, tickVars, jobVars, harvest, envVars,
                 ghostVars>>

\* _burn_dry_step: the step is consumed without a send.
\* Slip: a dry step is put off and not consumed.
PostponedThread(th) == [th EXCEPT !.timer = StepDelay]
BurntThread(th) ==
  IF th.steps + 1 < Steps
  THEN [th EXCEPT !.steps = th.steps + 1, !.timer = StepDelay]
  ELSE [th EXCEPT !.steps = th.steps + 1, !.timer = Never]
BurntLead(l, th) ==
  IF th.steps + 1 < Steps THEN l ELSE ParkDormant(l, FALSE)

\* An uninvited price, nothing new to say, an ungrounded figure; or, once
\* the lead is known to be silent, a model that wants a human.
BurnsStep(n) ==
  /\ nudge[n].pc \in {"writing", "checked"}
  /\ LET l == nudge[n].lead
         th == nudge[n].thread IN
       /\ thread' = Flush(thread, th, BurntThread(th))
       /\ lead' = Flush(lead, l, BurntLead(l, th))
  /\ EndNudge(n)
  /\ UNCHANGED <<outbox, lock, tickVars, jobVars, harvest, envVars, ghostVars>>

\* _lead_replied_meanwhile reads the watermarks from the database.
RepliedMeanwhile == thread.lastIn > thread.lastOut

ChecksSilence(n) ==
  /\ nudge[n].pc = "writing"
  /\ IF RepliedMeanwhile THEN EndNudge(n)
     ELSE nudge' = [nudge EXCEPT ![n].pc = "checked"] /\ UNCHANGED nudgeKey
  /\ UNCHANGED <<lead, thread, outbox, lock, tickVars, jobVars, harvest,
                 envVars, ghostVars>>

\* The dossier is saved and the bubbles are queued; the timer is consumed.
QueueNudge(n) ==
  /\ nudge[n].pc = "checked"
  /\ \E new \in Bubbles :
       /\ outbox' = Compose(outbox, new, "followup", 0)
       /\ origin' = [r \in Rows |->
            IF r \in new
            THEN [job |-> n, after |-> nudge[n].thread.lastIn]
            ELSE origin[r]]
  /\ thread' = Flush(thread, nudge[n].thread,
                     [nudge[n].thread EXCEPT !.timer = Never])
  /\ EndNudge(n)
  /\ UNCHANGED <<lead, lock, tickVars, jobVars, harvest, envVars, copyVars>>

NudgeDies(n) ==
  /\ nudge[n].pc # "idle" /\ crashes < MaxCrashes
  /\ crashes' = crashes + 1
  /\ EndNudge(n)
  /\ UNCHANGED <<lead, thread, outbox, channel, lock, tickVars, jobVars,
                 harvest, said, heard, moves, ghostVars>>

NudgeStep(n) ==
  \/ StartNudge(n) \/ NoNudge(n) \/ BurnsStep(n) \/ ChecksSilence(n)
  \/ QueueNudge(n)
=============================================================================
