-------------------------------- MODULE Ingest -------------------------------
(***************************************************************************)
(* What reaches us from the platform: IngestService.  The lead writes at   *)
(* one moment and the poll or the webhook stores the message at a later    *)
(* one, with the moment it was written as its watermark.                   *)
(***************************************************************************)
EXTENDS Store

\* The lead writes on the platform.
LeadWrites ==
  /\ said < MaxSaid
  /\ said' = said + 1
  /\ UNCHANGED <<lead, thread, outbox, channel, lock, tickVars, jobVars,
                 nudgeVars, heard, moves, crashes, ghostVars>>
------------------------------------------------------------------------------
\* _revive_bot
\* Slip: a fresh message undoes a mute by hand.
RevivableMuted(l) ==
  ~l.blocked /\ l.stage \notin HumanLed /\ ~l.nonTarget
Revivable(l) ==
  ~l.blocked /\ ~l.offManual /\ l.stage \notin HumanLed /\ ~l.nonTarget
Revived(l) ==
  IF ~Revivable(l) THEN l
  ELSE [l EXCEPT !.stage = IF l.stage = "dormant" THEN "active" ELSE l.stage,
                 !.agent = TRUE]

\* _reset_followup_cycle: a fresh message takes a queued nudge back.
QueuedNudges == {r \in Rows : outbox[r].status = "pending"
                              /\ outbox[r].source = "followup"}
ResetCycle(th) == [th EXCEPT !.steps = 0, !.timer = Never]

\* The next message of the lead is stored.
StoreMessage ==
  /\ heard < said
  /\ heard' = heard + 1
  /\ thread' = [ResetCycle(thread) EXCEPT !.lastIn = heard + 1,
                                          !.window = WindowLength]
  /\ outbox' = Retire(outbox, QueuedNudges, "skipped")
  /\ lead' = Revived(lead)
  /\ UNCHANGED <<channel, lock, tickVars, jobVars, nudgeVars, said, moves,
                 crashes, ghostVars>>

\* The lead's auto-responder opens the window and is not the lead speaking.
StoreAutoReply ==
  /\ heard > 0
  /\ thread' = [thread EXCEPT !.window = WindowLength]
  /\ UNCHANGED <<lead, outbox, lock, tickVars, jobVars, nudgeVars, envVars,
                 ghostVars>>

\* _store_outgoing: a manager wrote in the platform's own app, some time
\* after the lead's at-th message.
StoreOutgoing ==
  /\ moves < MaxMoves /\ "app_reply" \in DeskOps
  /\ moves' = moves + 1
  /\ heard > 0
  /\ \E at \in 1..said :
       thread' = [thread EXCEPT !.lastOut =
                    IF at > thread.lastOut THEN at ELSE thread.lastOut]
  /\ UNCHANGED <<lead, outbox, channel, lock, tickVars, jobVars, nudgeVars,
                 said, heard, crashes, ghostVars>>
=============================================================================
