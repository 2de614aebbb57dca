------------------------------- MODULE Egress --------------------------------
(***************************************************************************)
(* The send path: send_outbox_branch, _send_thread and OutboxSender.  A    *)
(* run of the cron sweeps, lists the threads with a queued line, and sends *)
(* one line of each.  Overlapping runs are kept apart by the advisory lock *)
(* only until the claim commits; from there on a claimed row is protected  *)
(* by its status alone, and the run goes on with the lead and the thread   *)
(* as it read them before the claim.                                       *)
(***************************************************************************)
EXTENDS Store

IdleTick == [pc |-> "idle", row |-> NoRow, answer |-> "none", said |-> 0,
             lead |-> NewLead, thread |-> NewThread]

TickType == [pc : {"idle", "listed", "picked", "claimed", "answered"},
             row : Rows \cup {NoRow}, answer : {"none", "ok", "soft", "hard"},
             said : 0..MaxSaid, lead : LeadType, thread : ThreadType]

\* The status a row gets from the run that had claimed it.
Settle(box, r, status) ==
  [box EXCEPT ![r].status = status, ![r].age = 0]

Go(k, pc) == tick' = [tick EXCEPT ![k].pc = pc]
Done(k)   == tick' = [tick EXCEPT ![k] = IdleTick]
------------------------------------------------------------------------------
(* Which claims are stale, and what the two branch-wide sweeps and the     *)
(* sender's own sweep do to the queue.                                     *)
Stale(row) == row.status = "sending" /\ row.age > StaleAfter
\* Slips: requeue a stale claim, call it failed, forget about it.
SweepRequeues(box) == Retire(box, {r \in Rows : Stale(box[r])}, "pending")
SweepFails(box)    == Retire(box, {r \in Rows : Stale(box[r])}, "failed")
SweepForgets(box)  == box
SweepStale(box) ==
  Retire(box, {r \in Rows : Stale(box[r])}, "canceled")

\* sweep_undeliverable: an inactive channel loses every queued line, a
\* read-only one keeps what a manager wrote.
\* Slip: a claimed line is skipped as well.
UndeliverableClaimed(row) ==
  /\ row.status \in {"pending", "sending"}
  /\ ~channel.active \/ (~channel.replies /\ Automated(row))
Undeliverable(row) ==
  /\ row.status = "pending"
  /\ ~channel.active \/ (~channel.replies /\ Automated(row))
SweepUndeliverable(box) ==
  Retire(box, {r \in Rows : Undeliverable(box[r])}, "skipped")

\* threads_with_pending_outbox
Listed(box) ==
  /\ \E r \in Rows : box[r].status = "pending"
  /\ channel.active /\ channel.replies /\ channel.sending

ListThreads(k) ==
  /\ tick[k].pc = "idle"
  /\ LET box == SweepUndeliverable(SweepStale(outbox)) IN
       /\ outbox' = box
       /\ IF Listed(box) THEN Go(k, "listed") ELSE UNCHANGED tick
  /\ UNCHANGED <<lead, thread, lock, riders, jobVars, nudgeVars, envVars,
                 ghostVars>>

\* _send_thread returns before the sender is asked: another run owns the
\* thread, or no connector can be built for its channel.
TurnsBack(k) ==
  /\ tick[k].pc = "listed"
  /\ Done(k)
  /\ UNCHANGED <<lead, thread, outbox, lock, riders, jobVars, nudgeVars,
                 envVars, ghostVars>>
------------------------------------------------------------------------------
Rank(row) == CASE row.source = "manager"  -> 0
               [] row.source = "agent"    -> 1
               [] row.source = "followup" -> 2
               [] OTHER                   -> 3

\* oldest_pending: priority of the source, then scheduled_at.  Rows that
\* are already due are not told apart by how long they have been due.
Oldest(box, r) ==
  /\ box[r].status = "pending"
  /\ \A q \in Rows : box[q].status = "pending" =>
       \/ Rank(box[r]) < Rank(box[q])
       \/ Rank(box[r]) = Rank(box[q]) /\ box[r].wait <= box[q].wait

BlockedLead(row) == Automated(row) /\ lead.blocked
\* Slip: a gate that asks nothing.
NeverTakenOver(row) == FALSE
TakenOver(row)   == Automated(row) /\ lead.offManual
Muted(row)       == Automated(row) /\ ~channel.replies
WindowClosed(row) == HasWindow /\ Automated(row) /\ thread.window = 0

\* The line send_next looks at, in a channel that may send.
\* Slip: without the advisory lock.
ConsidersUnlocked(k, r) ==
  /\ tick[k].pc = "listed" /\ channel.sending
  /\ Oldest(SweepStale(outbox), r) /\ outbox[r].wait = 0
Considers(k, r) ==
  /\ tick[k].pc = "listed" /\ lock = NoOne
  /\ channel.sending
  /\ Oldest(SweepStale(outbox), r) /\ outbox[r].wait = 0

\* The early returns of send_next that leave the queue as it is: nothing
\* due, sending paused, quiet hours, a send cap.
HoldsBack(k) ==
  /\ tick[k].pc = "listed" /\ lock = NoOne
  /\ \/ ~channel.sending
     \/ ~Has({"pending"})
     \/ \E r \in Rows : /\ Oldest(SweepStale(outbox), r)
                        /\ \/ outbox[r].wait > 0
                           \/ /\ Automated(outbox[r])
                              /\ ~BlockedLead(outbox[r])
                              /\ ~TakenOver(outbox[r])
  /\ outbox' = SweepStale(outbox)
  /\ Done(k)
  /\ UNCHANGED <<lead, thread, lock, riders, jobVars, nudgeVars, envVars,
                 ghostVars>>

\* The early returns that retire the line: the lead is blocked, a human took
\* the thread, replies are off, the platform's window is closed.  The last
\* one parks the lead as well.
Drops(k, r) ==
  /\ Considers(k, r)
  /\ LET row == outbox[r]
         box == SweepStale(outbox) IN
       \/ /\ BlockedLead(row)
          /\ outbox' = Retire(box, {r}, "skipped")
          /\ UNCHANGED <<lead, thread>>
       \/ /\ ~BlockedLead(row) /\ TakenOver(row)
          /\ outbox' = Retire(box, {r}, "canceled")
          /\ UNCHANGED <<lead, thread>>
       \/ /\ ~BlockedLead(row) /\ ~TakenOver(row) /\ Muted(row)
          /\ outbox' = Retire(box, {r}, "skipped")
          /\ UNCHANGED <<lead, thread>>
       \/ /\ ~BlockedLead(row) /\ ~TakenOver(row) /\ ~Muted(row)
          /\ WindowClosed(row)
          /\ outbox' = Retire(box, {r}, "skipped")
          /\ lead' = ParkDormant(lead, TRUE)
          /\ thread' = IF Parks(lead, TRUE)
                       THEN [thread EXCEPT !.timer = Never] ELSE thread
  /\ Done(k)
  /\ UNCHANGED <<lock, riders, jobVars, nudgeVars, envVars, ghostVars>>

\* Nothing forbids the line: the run holds the lock, and has read the lead
\* and the thread.
Picks(k, r) ==
  /\ Considers(k, r)
  /\ ~BlockedLead(outbox[r]) /\ ~TakenOver(outbox[r]) /\ ~Muted(outbox[r])
  /\ ~WindowClosed(outbox[r])
  /\ outbox' = SweepStale(outbox)
  /\ lock' = k
  /\ tick' = [tick EXCEPT ![k] = [pc |-> "picked", row |-> r,
                                  answer |-> "none", said |-> said,
                                  lead |-> lead, thread |-> thread]]
  /\ UNCHANGED <<lead, thread, riders, jobVars, nudgeVars, envVars, ghostVars>>
------------------------------------------------------------------------------
(* The CRM gate.  A closed deal silences the lead and stands it down; an   *)
(* initiative hold lets answers through and retires the rest.              *)
StoodDown(l) == [l EXCEPT !.stage = "manager", !.agent = FALSE]

CrmHolds(k) ==
  /\ CrmGated /\ tick[k].pc = "picked" /\ Automated(outbox[tick[k].row])
  /\ \/ lead' = Flush(lead, tick[k].lead, StoodDown(tick[k].lead))
     \/ outbox[tick[k].row].source # "agent" /\ UNCHANGED lead
  /\ outbox' = Retire(outbox, {tick[k].row}, "skipped")
  /\ lock' = NoOne
  /\ riders' = riders \ {k}
  /\ Done(k)
  /\ UNCHANGED <<thread, jobVars, nudgeVars, envVars, ghostVars>>

\* The claim commits in a transaction of its own, which frees the lock.
\* The UPDATE names the row by its id: whatever status it has by now is
\* overwritten.
Claims(k) ==
  /\ tick[k].pc = "picked"
  /\ outbox' = Settle(outbox, tick[k].row, "sending")
  /\ lock' = NoOne
  /\ Go(k, "claimed")
  /\ UNCHANGED <<lead, thread, riders, jobVars, nudgeVars, envVars, ghostVars>>

\* The connector is called and answers.  An error, soft block or not, may hide
\* a delivery (a timeout after the platform took the message).
Transmits(k) ==
  /\ tick[k].pc = "claimed"
  /\ \E a \in {"ok", "soft", "hard"}, delivered \in BOOLEAN :
       /\ a = "ok" => delivered
       /\ DefiniteErrors /\ a # "ok" => ~delivered
       /\ tick' = [tick EXCEPT ![k].pc = "answered", ![k].answer = a]
       /\ wire' = IF a = "ok"
                  THEN [wire EXCEPT ![tick[k].row] = wire[tick[k].row] + 1]
                  ELSE wire
       /\ stray' = IF delivered /\ a # "ok"
                   THEN [stray EXCEPT ![tick[k].row] = stray[tick[k].row] + 1]
                   ELSE stray
  /\ riders' = riders \ {k}
  /\ UNCHANGED <<lead, thread, outbox, lock, jobVars, nudgeVars, envVars,
                 again, origin>>
------------------------------------------------------------------------------
(* _plan_followup on the thread and the lead as the run read them: the     *)
(* thread afterwards, in time left from the moment of the read, and        *)
(* whether the schedule ran out.                                           *)
Cycle(source) == source \in {"agent", "followup"}
Rested(l)     == ~l.agent \/ l.stage = "dormant" \/ ~Outreach

PlannedThread(th, l, source) ==
  LET steps == IF source = "followup" THEN th.steps + 1 ELSE th.steps
      armed == th.timer # Never /\ th.timer > StepDelay IN
  IF ~Cycle(source) THEN th
  ELSE IF Rested(l) THEN [th EXCEPT !.timer = Never]
  ELSE IF steps < Steps
       THEN [th EXCEPT !.steps = steps,
                       !.timer = IF armed THEN th.timer ELSE StepDelay]
  ELSE [th EXCEPT !.steps = steps, !.timer = Never]

Exhausted(th, l, source) ==
  source = "followup" /\ ~Rested(l) /\ Steps > 0 /\ th.steps + 1 >= Steps

\* The thread row after the run's flush, e units after it read it.
FlushThread(seen, new, e) ==
  [Flush(thread, seen, new) EXCEPT
     !.timer = IF new.timer = seen.timer THEN thread.timer
               ELSE IF new.timer = Never THEN Never ELSE Left(new.timer, e)]

\* Delivered: record it, move the watermark to when the run began, plan the
\* next nudge or wind the lead down.
FinishSent(k) ==
  /\ tick[k].pc = "answered" /\ tick[k].answer = "ok"
  /\ LET t   == tick[k]
         row == outbox[t.row]
         out == [PlannedThread(t.thread, t.lead, row.source)
                   EXCEPT !.lastOut = t.said] IN
       /\ outbox' = Settle(outbox, t.row, IF Confirms THEN "sent" ELSE "queued")
       /\ thread' = FlushThread(t.thread, out, row.age)
       /\ lead' = IF Exhausted(t.thread, t.lead, row.source)
                  THEN Flush(lead, t.lead, ParkDormant(t.lead, FALSE))
                  ELSE lead
  /\ Done(k)
  /\ UNCHANGED <<lock, riders, jobVars, nudgeVars, envVars, ghostVars>>

\* A soft block: back to the queue, up to MaxAttempts times.
\* Slip: one attempt too many.
RetriesTooOften(k) ==
  tick[k].answer = "soft" /\ outbox[tick[k].row].attempts <= MaxAttempts
Retries(k) == tick[k].answer = "soft" /\ outbox[tick[k].row].attempts < MaxAttempts
FinishSoft(k) ==
  /\ tick[k].pc = "answered" /\ Retries(k)
  /\ LET r == tick[k].row IN
       outbox' = [Settle(outbox, r, "pending") EXCEPT
                    ![r].attempts = outbox[r].attempts + 1,
                    ![r].wait = Left(RetryAfter, outbox[r].age)]
  /\ Done(k)
  /\ UNCHANGED <<lead, thread, lock, riders, jobVars, nudgeVars, envVars,
                 ghostVars>>

\* A permanent failure: an automated line parks the lead, as the run saw it.
FinishFailed(k) ==
  /\ tick[k].pc = "answered" /\ tick[k].answer \in {"soft", "hard"}
  /\ ~Retries(k)
  /\ LET t == tick[k]
         parks == Automated(outbox[t.row]) /\ Parks(t.lead, TRUE) IN
       /\ outbox' = Settle(outbox, t.row, "failed")
       /\ lead' = IF parks THEN Flush(lead, t.lead, ParkDormant(t.lead, TRUE))
                  ELSE lead
       /\ thread' = IF parks
                    THEN FlushThread(t.thread,
                                     [t.thread EXCEPT !.timer = Never], 0)
                    ELSE thread
  /\ Done(k)
  /\ UNCHANGED <<lock, riders, jobVars, nudgeVars, envVars, ghostVars>>

\* The worker dies or the cron job is killed: the open transaction rolls
\* back, and with it goes the lock.  A claimed row stays sending.
TickDies(k) ==
  /\ tick[k].pc # "idle" /\ crashes < MaxCrashes
  /\ crashes' = crashes + 1
  /\ lock' = IF lock = k THEN NoOne ELSE lock
  /\ riders' = riders \ {k}
  /\ Done(k)
  /\ UNCHANGED <<lead, thread, outbox, channel, jobVars, nudgeVars, said,
                 heard, moves, ghostVars>>

SendStep(k) ==
  \/ ListThreads(k) \/ TurnsBack(k) \/ HoldsBack(k)
  \/ \E r \in Rows : Drops(k, r) \/ Picks(k, r)
  \/ CrmHolds(k) \/ Claims(k) \/ Transmits(k)
  \/ FinishSent(k) \/ FinishSoft(k) \/ FinishFailed(k)
=============================================================================
