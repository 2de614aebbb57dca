-------------------------------- MODULE Waking --------------------------------
(***************************************************************************)
(* Leads that have been quiet for days are written to once more.  Three    *)
(* times a day a job of the branch lists the threads that are due, best    *)
(* first, and works through the list, a transaction and some minutes of    *)
(* the model for each: it queues a touch and wakes the lead, or records    *)
(* that it has decided against one.  The record is an event of the lead,   *)
(* and the cap and the gap of the next list count those events; nothing    *)
(* looks at the lead again between the list and the touch.                 *)
(*                                                                         *)
(* Days pass between two lists only: a list is worked off within an hour.  *)
(***************************************************************************)
EXTENDS Integers, FiniteSets

CONSTANTS
  Sleepers,        \* leads
  Chats,           \* threads
  SleeperOf,       \* the lead of each thread
  ReactivationCap, \* REACTIVATION_CAP
  BatchPerRun,     \* BATCH_PER_RUN
  Hopeless,        \* threads at which every touch may end without a record
  MaxMishaps,      \* bound: touches that do at the others, harvests killed
  MaxTurns         \* bound: what leads and managers do meanwhile

ASSUME WakingAssumption ==
  /\ IsFiniteSet(Chats) /\ Hopeless \subseteq Chats /\ SleeperOf \in [Chats -> Sleepers]
  /\ {ReactivationCap, BatchPerRun} \subseteq Nat \ {0}
  /\ {MaxMishaps, MaxTurns} \subseteq Nat

VARIABLES
  sleeper,  \* stage and agent_enabled of each lead
  touches,  \* its StageEvents of reason "reactivation"
  recent,   \* those of the last REACTIVATION_GAP_DAYS
  queued,   \* threads with a pending touch in the outbox
  quiet,    \* threads whose lead has not written for MIN_DORMANT_DAYS
  batch,    \* threads of the list that are still to be worked on
  touch,    \* the thread at work and the lead as it was read
  taken,    \* leads a manager took while a list was worked off
  mishaps, turns

wakingVars == <<sleeper, touches, recent, queued, quiet, batch, touch, taken,
                mishaps, turns>>
------------------------------------------------------------------------------
Sleeper  == [stage : {"dormant", "qualifying", "nurturing", "manager"}, on : BOOLEAN]
Parked   == [stage |-> "dormant", on |-> FALSE]
Woken    == [stage |-> "nurturing", on |-> TRUE]
Alive    == [stage |-> "qualifying", on |-> TRUE]
WithHim  == [stage |-> "manager", on |-> FALSE]
NoTouch  == [of |-> {}, seen |-> Parked]
ChatsOf(l) == {t \in Chats : SleeperOf[t] = l}

\* A slip: the cap may be passed by one.
DueAtCap(t) == LET l == SleeperOf[t] IN
  /\ sleeper[l].stage # "manager"
  /\ t \in quiet /\ t \notin queued
  /\ touches[l] <= ReactivationCap /\ recent[l] = 0
\* _DUE_Q, of the conditions that this module moves.
IsDue(t) == LET l == SleeperOf[t] IN
  /\ sleeper[l].stage # "manager"
  /\ t \in quiet /\ t \notin queued
  /\ touches[l] < ReactivationCap /\ recent[l] = 0
DueChats == {t \in Chats : IsDue(t)}

\* due: the order of the list is by merits of the leads that nothing here
\* tells apart.
Harvests ==
  /\ batch = {} /\ DueChats # {}
  /\ batch' \in {B \in SUBSET DueChats :
       \/ Cardinality(B) = BatchPerRun
       \/ B = DueChats /\ Cardinality(B) < BatchPerRun}
  /\ UNCHANGED <<sleeper, touches, recent, queued, quiet, touch, taken, mishaps, turns>>

\* _reactivate reads the lead and asks the model.
Begins(t) ==
  /\ t \in batch /\ touch.of = {}
  /\ touch' = [of |-> {t}, seen |-> sleeper[SleeperOf[t]]]
  /\ UNCHANGED <<sleeper, touches, recent, queued, quiet, batch, taken, mishaps, turns>>

Finished(t) == /\ touch.of = {t} /\ touch' = NoTouch /\ batch' = batch \ {t}
               /\ taken' = IF batch' = {} THEN {} ELSE taken
Recorded(l) == /\ touches' = [touches EXCEPT ![l] = @ + 1]
               /\ recent' = [recent EXCEPT ![l] = @ + 1]

\* The session writes what differs from the lead that it has read.
Touches(t) == LET l == SleeperOf[t] IN
  /\ Finished(t) /\ Recorded(l)
  /\ queued' = queued \cup {t}
  /\ sleeper' = [sleeper EXCEPT ![l] =
       [stage |-> IF touch.seen.stage = Woken.stage THEN @.stage ELSE Woken.stage,
        on    |-> @.on \/ ~touch.seen.on]]
  /\ UNCHANGED <<quiet, mishaps, turns>>

\* A slip: what is not sent is not recorded.
Forgoes(t) ==
  /\ Finished(t)
  /\ UNCHANGED <<sleeper, touches, recent, queued, quiet, mishaps, turns>>
\* _suppress: a refusal in the dossier, no fresh hook, a case for a human.
Suppresses(t) ==
  /\ Finished(t) /\ Recorded(SleeperOf[t])
  /\ UNCHANGED <<sleeper, queued, quiet, mishaps, turns>>

Mishap == mishaps < MaxMishaps /\ mishaps' = mishaps + 1

\* An empty dialog, bad JSON, an exception, a budget that is used up: nothing
\* counts how often.
Misses(t) ==
  /\ Finished(t)
  /\ IF t \in Hopeless THEN UNCHANGED mishaps ELSE Mishap
  /\ UNCHANGED <<sleeper, touches, recent, queued, quiet, turns>>

HarvestDies ==
  /\ Mishap /\ batch # {}
  /\ batch' = {} /\ touch' = NoTouch /\ taken' = {}
  /\ UNCHANGED <<sleeper, touches, recent, queued, quiet, turns>>
------------------------------------------------------------------------------
(* The rest of the program and the world.                                  *)
Turns == turns < MaxTurns /\ turns' = turns + 1

\* move_lead and the claim by a manager's phone.
Takes(l) ==
  /\ Turns /\ sleeper[l].stage # "manager"
  /\ sleeper' = [sleeper EXCEPT ![l] = WithHim]
  /\ taken' = IF batch = {} THEN {} ELSE taken \cup {l}
  /\ UNCHANGED <<touches, recent, queued, quiet, batch, touch, mishaps>>
GivesBack(l) ==
  /\ sleeper[l].stage = "manager"
  /\ sleeper' = [sleeper EXCEPT ![l] = Alive]
  /\ UNCHANGED <<touches, recent, queued, quiet, batch, touch, taken, mishaps, turns>>

\* _store with _revive_bot, which leaves a queued touch where it is.
WritesBack(t) == LET l == SleeperOf[t] IN
  /\ Turns /\ t \in quiet /\ quiet' = quiet \ {t}
  /\ sleeper' = [sleeper EXCEPT ![l] = CASE @.stage = "dormant" -> Alive
                                       [] @.stage = "manager" -> @
                                       [] OTHER -> [@ EXCEPT !.on = TRUE]]
  /\ UNCHANGED <<touches, recent, queued, batch, touch, taken, mishaps>>

\* The sender sends the touch or cancels it; neither arms a follow-up.
GoesOut(t) ==
  /\ t \in queued /\ queued' = queued \ {t}
  /\ UNCHANGED <<sleeper, touches, recent, quiet, batch, touch, taken, mishaps, turns>>

\* The cooldown is over; the follow-ups have parked the lead or not.
FallsQuiet(t) == LET l == SleeperOf[t] IN
  /\ batch = {} /\ t \notin quiet /\ quiet' = quiet \cup {t}
  /\ \/ sleeper' = sleeper
     \/ sleeper[l].stage \in {"qualifying", "nurturing"}
        /\ sleeper' = [sleeper EXCEPT ![l] = Parked]
  /\ UNCHANGED <<touches, recent, queued, batch, touch, taken, mishaps, turns>>
GapPasses(l) ==
  /\ batch = {} /\ recent[l] > 0 /\ recent' = [recent EXCEPT ![l] = 0]
  /\ UNCHANGED <<sleeper, touches, queued, quiet, batch, touch, taken, mishaps, turns>>
------------------------------------------------------------------------------
WakingInit ==
  /\ sleeper = [l \in Sleepers |-> Alive]
  /\ touches = [l \in Sleepers |-> 0] /\ recent = touches
  /\ queued = {} /\ quiet = {}
  /\ batch = {} /\ touch = NoTouch /\ taken = {}
  /\ mishaps = 0 /\ turns = 0

Decides == \E t \in Chats : Touches(t) \/ Suppresses(t) \/ Misses(t)
WakingNext ==
  \/ Harvests \/ Decides \/ HarvestDies
  \/ \E t \in Chats : Begins(t) \/ WritesBack(t) \/ GoesOut(t) \/ FallsQuiet(t)
  \/ \E l \in Sleepers : Takes(l) \/ GivesBack(l) \/ GapPasses(l)

HarvestGoesOn == Harvests \/ Decides \/ \E t \in Chats : Begins(t)
WakingFairness == WF_wakingVars(HarvestGoesOn)
WakingSpec == WakingInit /\ [][WakingNext]_wakingVars /\ WakingFairness
------------------------------------------------------------------------------
WakingTypeOK ==
  /\ sleeper \in [Sleepers -> Sleeper]
  /\ touches \in [Sleepers -> Nat] /\ recent \in [Sleepers -> Nat]
  /\ \A l \in Sleepers : recent[l] <= touches[l]
  /\ {queued, quiet, batch} \subseteq SUBSET Chats
  /\ touch.of \subseteq batch /\ taken \subseteq Sleepers

(* "Anti-ban / anti-spam invariants": a touch is one of few in the life of  *)
(* a lead and the only one of its gap, and no lead with a manager is woken, *)
(* whatever dies or fails on the way.  The code comes this close: it counts *)
(* per thread, so a lead with n of them on one list may pass both by n - 1, *)
(* and it undoes a takeover that is younger than the list.                  *)
Sparing == [][\A l \in Sleepers : touches'[l] # touches[l] =>
  /\ touches'[l] < ReactivationCap + Cardinality(ChatsOf(l))
  /\ recent'[l] <= Cardinality(ChatsOf(l))
  /\ sleeper[l].stage = "manager" => sleeper'[l] = sleeper[l] \/ l \in taken]_wakingVars

(* The list is short and each harvest takes the best of it, yet every      *)
(* thread that is due is taken up or ceases to be due: one that the job    *)
(* decides against does not hold its place on the list for ever.  It does  *)
(* when nothing is decided of it: as many of these as the list is long,    *)
(* and nobody else is ever reached.                                        *)
DueReached ==
  Cardinality(Hopeless) < BatchPerRun => \A t \in Chats \ Hopeless : []<>~IsDue(t)
==============================================================================
