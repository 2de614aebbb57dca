--------------------------------- MODULE Desk ---------------------------------
(***************************************************************************)
(* What people do to a conversation: the chat routes of the admin panel    *)
(* over ChatRepo, the operations the call centre and the CRM reach through *)
(* leads/ops.py, and the channel's switches.  Each is one transaction and  *)
(* none takes the thread's lock.                                           *)
(***************************************************************************)
EXTENDS Store

\* The desk does op.
Does(op) ==
  /\ op \in DeskOps /\ moves < MaxMoves
  /\ moves' = moves + 1

\* Runs that will send an automated line whatever is decided now.
PastTheGate == {k \in Ticks : tick[k].pc \in {"picked", "claimed"}}
QueuedByBot == {r \in Rows : outbox[r].status = "pending"
                             /\ Automated(outbox[r])}
------------------------------------------------------------------------------
\* chat_send: a manager's line, or a suggestion sent as the agent's.
SendsLine ==
  /\ Does("send")
  /\ \E r \in FreeRows, source \in {"manager", "agent"} :
       /\ outbox' = Compose(outbox, {r}, source, 0)
       /\ origin' = [origin EXCEPT ![r].after = heard]
  /\ UNCHANGED <<lead, thread, channel, lock, tickVars, jobVars, nudgeVars,
                 said, heard, crashes, copyVars>>

\* chat_bot_toggle: off takes back what the bot has queued.
BotOff ==
  /\ Does("bot") /\ lead.agent
  /\ lead' = [lead EXCEPT !.agent = FALSE, !.offManual = TRUE]
  /\ outbox' = Retire(outbox, QueuedByBot, "canceled")
  /\ riders' = PastTheGate
  /\ UNCHANGED <<thread, channel, lock, tick, jobVars, nudgeVars, said, heard,
                 crashes, ghostVars>>

BotOn ==
  /\ Does("bot") /\ ~lead.agent
  /\ lead' = [lead EXCEPT !.agent = TRUE, !.offManual = FALSE]
  /\ UNCHANGED <<thread, outbox, channel, lock, tickVars, jobVars, nudgeVars,
                 said, heard, crashes, ghostVars>>

\* chat_block
Blocks ==
  /\ Does("block") /\ ~lead.blocked
  /\ lead' = [lead EXCEPT !.blocked = TRUE, !.agent = FALSE]
  /\ riders' = PastTheGate
  /\ UNCHANGED <<thread, outbox, channel, lock, tick, jobVars, nudgeVars,
                 said, heard, crashes, ghostVars>>

Unblocks ==
  /\ Does("block") /\ lead.blocked
  /\ lead' = [lead EXCEPT !.blocked = FALSE]
  /\ UNCHANGED <<thread, outbox, channel, lock, tickVars, jobVars, nudgeVars,
                 said, heard, crashes, ghostVars>>

\* chat_stage: any stage, and the stage alone.
SetsStage ==
  /\ Does("stage")
  /\ \E s \in Stage \ {lead.stage} : lead' = [lead EXCEPT !.stage = s]
  /\ UNCHANGED <<thread, outbox, channel, lock, tickVars, jobVars, nudgeVars,
                 said, heard, crashes, ghostVars>>
------------------------------------------------------------------------------
\* pending_delete
DropsLine ==
  /\ Does("drop")
  /\ \E r \in Rows :
       /\ outbox[r].status \in {"pending", "failed"}
       /\ outbox' = Retire(outbox, {r}, "skipped")
  /\ UNCHANGED <<lead, thread, channel, lock, tickVars, jobVars, nudgeVars,
                 said, heard, crashes, ghostVars>>

\* pending_retry, of a line that failed.  Slip: of any line that was not sent.
RetryableAny(row) == row.status \in {"failed", "skipped", "canceled"}
Retryable(row)    == row.status = "failed"
RetriesLine ==
  /\ Does("retry")
  /\ \E r \in Rows :
       /\ Retryable(outbox[r])
       /\ outbox' = [outbox EXCEPT ![r].status = "pending", ![r].wait = 0]
       /\ again' = [again EXCEPT ![r] = again[r] + 1]
  /\ UNCHANGED <<lead, thread, channel, lock, tickVars, jobVars, nudgeVars,
                 said, heard, crashes, wire, stray, origin>>
------------------------------------------------------------------------------
\* move_lead, and close_deal
MovesLead ==
  /\ \/ Does("move") /\ \E s \in Stage : lead' = ApplyStage(lead, s)
     \/ /\ Does("close")
        /\ lead' = [lead EXCEPT !.stage = "handed_off", !.agent = FALSE]
  /\ UNCHANGED <<thread, outbox, channel, lock, tickVars, jobVars, nudgeVars,
                 said, heard, crashes, ghostVars>>

\* call_failed: nobody answered the phone, so the bot takes the lead back
\* and writes once, if the model has something to say.
CallFailed ==
  /\ Does("call_failed")
  /\ lead' = [lead EXCEPT
       !.stage = IF lead.stage \in BotSilent \cup HumanLed THEN "active"
                 ELSE lead.stage,
       !.agent = TRUE, !.offManual = FALSE]
  /\ \/ UNCHANGED outbox
     \/ \E new \in Bubbles : outbox' = Compose(outbox, new, "call_failed", 0)
  /\ UNCHANGED <<thread, channel, lock, tickVars, jobVars, nudgeVars, said,
                 heard, crashes, ghostVars>>

\* The channel is switched off, made read-only or paused, or back.
Switches ==
  /\ Does("channel")
  /\ \E s \in DOMAIN channel :
       /\ channel' = [channel EXCEPT ![s] = ~channel[s]]
       /\ riders' = IF s = "replies" THEN PastTheGate ELSE riders
  /\ UNCHANGED <<lead, thread, outbox, lock, tick, jobVars, nudgeVars, said,
                 heard, crashes, ghostVars>>

DeskStep ==
  \/ SendsLine \/ BotOff \/ BotOn \/ Blocks \/ Unblocks \/ SetsStage
  \/ DropsLine \/ RetriesLine \/ MovesLead \/ CallFailed \/ Switches
=============================================================================
