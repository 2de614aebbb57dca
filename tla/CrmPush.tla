------------------------------- MODULE CrmPush --------------------------------
(***************************************************************************)
(* CRM write-back (modules/crm/push_mcp.py).  A lead becomes an event in   *)
(* the CRM along three ways through one procedure, push_one: the hourly    *)
(* sweep of warm leads, the hourly sweep of hand-offs, which share one     *)
(* transaction, and the push that a reply job makes after the turn that    *)
(* handed the lead off has committed.  Idempotence rests on journal        *)
(* entries that become visible to the others when the pusher commits, and  *)
(* the CRM is called before that.                                          *)
(*                                                                         *)
(* The seven-day windows and the pause after a failure end by actions of   *)
(* their own.  Conditions that close the CRM to a lead for good or until   *)
(* the CRM is read again (blocked, deal won, refused, already there) are   *)
(* the one switch shut.                                                    *)
(***************************************************************************)
EXTENDS Integers, FiniteSets

CONSTANTS
  Leads,          \* leads of the branch, one thread each
  Batch,          \* DRAIN_BATCH
  FailureCap,     \* FAILURE_CAP
  DefiniteErrors, \* an error of the CRM means "not written"
  MaxTurns,       \* bound: what the leads, the bot, the desk and the CRM do
  MaxCrashes      \* bound: pushers killed

ASSUME CrmAssumption ==
  /\ {Batch, FailureCap, MaxTurns, MaxCrashes} \subseteq Nat
  /\ DefiniteErrors \in BOOLEAN

VARIABLES
  lead,     \* what the selections read of each lead
  journal,  \* the committed stage events with a push reason, by lead
  sweep,    \* the run of sync_crm_writeback_branch
  flip,     \* the push after the commit of a hand-off, by lead
  turns, crashes,
  crm,      \* how many events of each kind the CRM has of each lead
  lost,     \* of those, how many no journal entry can ever tell of
  races     \* how many were sent while the other pusher held an open entry

vars == <<lead, journal, sweep, flip, turns, crashes, crm, lost, races>>
ghosts == <<crm, lost, races>>
------------------------------------------------------------------------------
Kinds == {"wait_call", "thinking", "reject"}

LeadType == [stage : {"warm", "dormant", "human"}, nonTarget : BOOLEAN,
             phone : BOOLEAN, shut : BOOLEAN, fresh : BOOLEAN,
             handed : BOOLEAN, lastIn : 0..MaxTurns]
Entry     == [warm : BOOLEAN, handoff : BOOLEAN, kinds : SUBSET Kinds,
              failures : Nat, resting : BOOLEAN]
SweepType == [pc : {"idle", "warm", "handoff"},
              todo : [Leads -> Kinds \cup {"none"}], notes : [Leads -> Entry]]
FlipType  == [pc : {"idle", "queued", "cleared", "called"}, note : Entry]

NewLead == [stage |-> "warm", nonTarget |-> FALSE, phone |-> FALSE,
            shut |-> FALSE, fresh |-> TRUE, handed |-> FALSE, lastIn |-> 0]
Blank   == [warm |-> FALSE, handoff |-> FALSE, kinds |-> {}, failures |-> 0,
            resting |-> FALSE]
IdleSweep == [pc |-> "idle", todo |-> [l \in Leads |-> "none"],
              notes |-> [l \in Leads |-> Blank]]
IdleFlip  == [pc |-> "idle", note |-> Blank]

\* event_type_for.
\* Slip: a type that the branch does not use.
EventTypeUnused(x) == IF x.nonTarget THEN "reject" ELSE "contract"
EventType(x) == IF x.nonTarget THEN "reject"
                ELSE IF x.stage = "dormant" THEN "thinking" ELSE "wait_call"

\* The journal as a session reads it that has flushed entries of its own.
Merge(j, own) ==
  [warm |-> j.warm \/ own.warm, handoff |-> j.handoff \/ own.handoff,
   kinds |-> j.kinds \cup own.kinds, failures |-> j.failures + own.failures,
   resting |-> j.resting \/ own.resting]

\* _PUSHABLE, and the two selections.
\* Slip: one failure too many.
PushableOnceMore(x, j) ==
  x.phone /\ ~x.shut /\ ~j.resting /\ j.failures <= FailureCap
Pushable(x, j) ==
  x.phone /\ ~x.shut /\ ~j.resting /\ j.failures < FailureCap
WarmToPush(x, j) == x.stage # "human" /\ x.fresh /\ Pushable(x, j) /\ ~j.warm
\* Slip: the marker of the warm push counts for the hand-off.
HandoffsNotWarm(x, j) ==
  x.stage = "human" /\ x.handed /\ Pushable(x, j) /\ ~j.handoff /\ ~j.warm
HandoffToPush(x, j) ==
  x.stage = "human" /\ x.handed /\ Pushable(x, j) /\ ~j.handoff

\* ORDER BY rank DESC LIMIT Batch
FirstBy(rank, eligible) ==
  {S \in SUBSET eligible :
     /\ Cardinality(S) = IF Cardinality(eligible) < Batch
                         THEN Cardinality(eligible) ELSE Batch
     /\ \A l \in S, m \in eligible \ S : rank[l] >= rank[m]}
------------------------------------------------------------------------------
(* push_one calls the CRM: what it gets to know, and what is true.         *)
Heard(ok, written) ==
  /\ ok => written
  /\ DefiniteErrors /\ ~ok => ~written
Count(f, l, kind, n) == [f EXCEPT ![l][kind] = f[l][kind] + n]

\* The entries of a success and of a failure.
Success(marker, kind) ==
  [warm |-> marker = "warm", handoff |-> marker = "handoff", kinds |-> {kind},
   failures |-> 0, resting |-> FALSE]
Failure ==
  [warm |-> FALSE, handoff |-> FALSE, kinds |-> {}, failures |-> 1,
   resting |-> TRUE]
\* Slip: a failure leaves the marker of a success.
NoteAlways(own, marker, kind, ok) == Merge(own, Success(marker, kind))
Note(own, marker, kind, ok) ==
  Merge(own, IF ok THEN Success(marker, kind) ELSE Failure)

Calls(l, kind, ok, written, other) ==
  /\ Heard(ok, written)
  /\ crm' = IF written THEN Count(crm, l, kind, 1) ELSE crm
  /\ lost' = IF written /\ ~ok THEN Count(lost, l, kind, 1) ELSE lost
  /\ races' = IF written /\ kind \in other THEN Count(races, l, kind, 1)
              ELSE races
------------------------------------------------------------------------------
(* The hourly sweep.                                                       *)
Seen(l) == Merge(journal[l], sweep.notes[l])
List(batch, kind) ==
  [l \in Leads |-> IF l \in batch THEN kind[l] ELSE "none"]

\* drain_writeback: the warm leads, newest first, with the kind of event
\* they call for as they are listed.  When a lead was created is not modelled.
ListWarm ==
  /\ sweep.pc = "idle"
  /\ \E batch \in FirstBy([l \in Leads |-> 0],
                          {l \in Leads : WarmToPush(lead[l], journal[l])}) :
       sweep' = [IdleSweep EXCEPT !.pc = "warm",
                   !.todo = List(batch, [l \in Leads |-> EventType(lead[l])])]
  /\ UNCHANGED <<lead, journal, flip, turns, crashes, ghosts>>

\* drain_handoffs, in the same transaction.
ListHandoffs ==
  /\ sweep.pc = "warm" /\ \A l \in Leads : sweep.todo[l] = "none"
  /\ \E batch \in FirstBy([l \in Leads |-> lead[l].lastIn],
                          {l \in Leads : HandoffToPush(lead[l], Seen(l))}) :
       sweep' = [sweep EXCEPT !.pc = "handoff",
                   !.todo = List(batch, [l \in Leads |-> "wait_call"])]
  /\ UNCHANGED <<lead, journal, flip, turns, crashes, ghosts>>

\* push_one of a listed lead: an event of this kind is on record already.
SkipsPushed(l) ==
  /\ sweep.todo[l] \in Seen(l).kinds
  /\ sweep' = [sweep EXCEPT !.todo[l] = "none"]
  /\ UNCHANGED <<lead, journal, flip, turns, crashes, ghosts>>

\* Slip: no look at the record of this kind.
SweepPushesBlindly(l) ==
  /\ sweep.todo[l] # "none"
  /\ \E ok \in BOOLEAN, written \in BOOLEAN :
       /\ Calls(l, sweep.todo[l], ok, written, flip[l].note.kinds)
       /\ sweep' = [sweep EXCEPT !.todo[l] = "none",
                      !.notes[l] = Note(sweep.notes[l], sweep.pc,
                                        sweep.todo[l], ok)]
  /\ UNCHANGED <<lead, journal, flip, turns, crashes>>
SweepPushes(l) ==
  /\ sweep.todo[l] # "none" /\ sweep.todo[l] \notin Seen(l).kinds
  /\ \E ok \in BOOLEAN, written \in BOOLEAN :
       /\ Calls(l, sweep.todo[l], ok, written, flip[l].note.kinds)
       /\ sweep' = [sweep EXCEPT !.todo[l] = "none",
                      !.notes[l] = Note(sweep.notes[l], sweep.pc,
                                        sweep.todo[l], ok)]
  /\ UNCHANGED <<lead, journal, flip, turns, crashes>>

SweepCommits ==
  /\ sweep.pc = "handoff" /\ \A l \in Leads : sweep.todo[l] = "none"
  /\ journal' = [l \in Leads |-> Seen(l)]
  /\ sweep' = IdleSweep
  /\ UNCHANGED <<lead, flip, turns, crashes, ghosts>>

\* An error or a kill rolls the whole transaction back: what it has told the
\* CRM stays told.
SweepDies ==
  /\ sweep.pc # "idle" /\ crashes < MaxCrashes
  /\ crashes' = crashes + 1
  /\ lost' = [l \in Leads |-> [k \in Kinds |->
       lost[l][k] + IF k \in sweep.notes[l].kinds THEN 1 ELSE 0]]
  /\ sweep' = IdleSweep
  /\ UNCHANGED <<lead, journal, flip, turns, crm, races>>

SweepStep ==
  \/ ListWarm \/ ListHandoffs \/ SweepCommits
  \/ \E l \in Leads : SkipsPushed(l) \/ SweepPushes(l)
------------------------------------------------------------------------------
(* push_crm_after_commit: two sessions, the first asks whether the lead    *)
(* may go to the CRM, the second pushes it.                                *)
FlipChecks(l) ==
  /\ flip[l].pc = "queued"
  /\ flip' = [flip EXCEPT ![l] =
       IF Pushable(lead[l], journal[l])
       THEN [IdleFlip EXCEPT !.pc = "cleared"] ELSE IdleFlip]
  /\ UNCHANGED <<lead, journal, sweep, turns, crashes, ghosts>>

FlipPushes(l) ==
  /\ flip[l].pc = "cleared"
  /\ \/ /\ "wait_call" \in journal[l].kinds
        /\ flip' = [flip EXCEPT ![l] = IdleFlip]
        /\ UNCHANGED ghosts
     \/ /\ "wait_call" \notin journal[l].kinds
        /\ \E ok \in BOOLEAN, written \in BOOLEAN :
             /\ Calls(l, "wait_call", ok, written, sweep.notes[l].kinds)
             /\ flip' = [flip EXCEPT ![l] =
                  [pc |-> "called",
                   note |-> Note(Blank, "handoff", "wait_call", ok)]]
  /\ UNCHANGED <<lead, journal, sweep, turns, crashes>>

FlipCommits(l) ==
  /\ flip[l].pc = "called"
  /\ journal' = [journal EXCEPT ![l] = Merge(journal[l], flip[l].note)]
  /\ flip' = [flip EXCEPT ![l] = IdleFlip]
  /\ UNCHANGED <<lead, sweep, turns, crashes, ghosts>>

FlipDies(l) ==
  /\ flip[l].pc # "idle" /\ crashes < MaxCrashes
  /\ crashes' = crashes + 1
  /\ lost' = [lost EXCEPT ![l] = [k \in Kinds |->
       lost[l][k] + IF k \in flip[l].note.kinds THEN 1 ELSE 0]]
  /\ flip' = [flip EXCEPT ![l] = IdleFlip]
  /\ UNCHANGED <<lead, journal, sweep, turns, crm, races>>

FlipStep(l) == FlipChecks(l) \/ FlipPushes(l) \/ FlipCommits(l)
------------------------------------------------------------------------------
(* What moves the leads.                                                   *)
Turn(l, new) ==
  /\ turns < MaxTurns /\ turns' = turns + 1
  /\ lead' = [lead EXCEPT ![l] = new]
  /\ UNCHANGED <<journal, sweep, crashes, ghosts>>

\* A message of the lead: the bot takes a dormant lead up again, and the
\* message may hold a phone number.
LeadWrites(l) ==
  /\ \E phone \in {lead[l].phone, TRUE} :
       Turn(l, [lead[l] EXCEPT
                  !.fresh = TRUE, !.lastIn = turns + 1, !.phone = phone,
                  !.stage = IF lead[l].stage = "dormant" THEN "warm"
                            ELSE lead[l].stage])
  /\ UNCHANGED flip

\* A turn of the bot: it goes on, winds the lead down, or hands it off, and
\* then queues the push of a lead with a phone (_queue_crm_push).  A push
\* of the same lead that is still under way is waited for here.
BotTurns(l) ==
  /\ lead[l].stage = "warm" /\ flip[l].pc = "idle"
  /\ \E stage \in {"warm", "dormant", "human"}, nonTarget \in BOOLEAN :
       /\ Turn(l, [lead[l] EXCEPT
                     !.stage = stage, !.nonTarget = nonTarget,
                     !.handed = lead[l].handed \/ stage = "human"])
       /\ flip' = IF stage = "human" /\ lead[l].phone
                  THEN [flip EXCEPT ![l].pc = "queued"] ELSE flip

\* The desk moves the lead.
DeskMoves(l) ==
  /\ \E stage \in {"warm", "dormant", "human"} :
       Turn(l, [lead[l] EXCEPT
                  !.stage = stage,
                  !.handed = lead[l].handed \/ stage = "human"])
  /\ UNCHANGED flip

\* The CRM is read: it says that the lead is settled, and the gate stands
\* the lead down, which is no hand-off; or that it is open again.
CrmCloses(l) ==
  /\ lead[l].phone
  /\ Turn(l, [lead[l] EXCEPT !.stage = "human", !.shut = TRUE])
  /\ UNCHANGED flip
CrmReopens(l) ==
  /\ lead[l].shut
  /\ Turn(l, [lead[l] EXCEPT !.shut = FALSE])
  /\ UNCHANGED flip

\* Seven days since the lead's last message, or since its last hand-off.
Ages(l) ==
  /\ \/ lead[l].fresh /\ Turn(l, [lead[l] EXCEPT !.fresh = FALSE])
     \/ lead[l].handed /\ Turn(l, [lead[l] EXCEPT !.handed = FALSE])
  /\ UNCHANGED flip

\* A day since the last failure.
RestEnds(l) ==
  /\ journal[l].resting
  /\ journal' = [journal EXCEPT ![l].resting = FALSE]
  /\ UNCHANGED <<lead, sweep, flip, turns, crashes, ghosts>>

Life(l) ==
  \/ LeadWrites(l) \/ BotTurns(l) \/ DeskMoves(l) \/ CrmCloses(l)
  \/ CrmReopens(l) \/ Ages(l)
------------------------------------------------------------------------------
None == [l \in Leads |-> [k \in Kinds |-> 0]]
Init ==
  /\ lead = [l \in Leads |-> NewLead]
  /\ journal = [l \in Leads |-> Blank]
  /\ sweep = IdleSweep
  /\ flip = [l \in Leads |-> IdleFlip]
  /\ turns = 0 /\ crashes = 0
  /\ crm = None /\ lost = None /\ races = None

Next ==
  \/ SweepStep \/ SweepDies
  \/ \E l \in Leads : FlipStep(l) \/ FlipDies(l) \/ Life(l) \/ RestEnds(l)

Spec == Init /\ [][Next]_vars

\* The cron runs every hour, what was started goes on, and a pause ends.
FairSpec ==
  /\ Spec /\ WF_vars(SweepStep)
  /\ \A l \in Leads : WF_vars(FlipStep(l)) /\ WF_vars(RestEnds(l))
------------------------------------------------------------------------------
\* Every variable has its type.
TypeOK ==
  /\ lead \in [Leads -> LeadType]
  /\ journal \in [Leads -> Entry]
  /\ sweep \in SweepType
  /\ flip \in [Leads -> FlipType]
  /\ turns \in 0..MaxTurns /\ crashes \in 0..MaxCrashes
  /\ crm \in [Leads -> [Kinds -> Nat]]
  /\ lost \in [Leads -> [Kinds -> Nat]]
  /\ races \in [Leads -> [Kinds -> Nat]]

\* An entry that says the CRM has been told is true: nothing is on record, or
\* about to be, that the CRM has never heard (push_one: a failure leaves no
\* marker).
Recorded(l) == journal[l].kinds \cup sweep.notes[l].kinds \cup flip[l].note.kinds
RecordTellsTruth ==
  \A l \in Leads, k \in Kinds : k \in Recorded(l) => crm[l][k] > 0

\* One state of a lead is told to the CRM once, whichever of the three ways
\* it goes, but for events that no entry could tell of (a pusher killed after
\* the call, an error that hid a success) and two pushers at the lead at once.
ToldOnce ==
  \A l \in Leads, k \in Kinds : crm[l][k] <= 1 + lost[l][k] + races[l][k]

\* A lead the CRM keeps refusing is given up after FAILURE_CAP attempts, plus
\* the one of a pusher that had looked before the last failure committed.
FailuresBounded == \A l \in Leads : journal[l].failures <= FailureCap + 1

\* A lead that was handed off reaches the CRM, whenever its phone arrives, or
\* uses up its failures, for as long as it is in the window and may go there.
Owed(l) == lead[l].phone /\ ~lead[l].shut /\ journal[l].failures < FailureCap
Untold(l) ==
  lead[l].stage = "human" /\ lead[l].handed /\ Owed(l) /\ crm[l]["wait_call"] = 0
HandoffTold == \A l \in Leads : Untold(l) ~> ~Untold(l)
===============================================================================
