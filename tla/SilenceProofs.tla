------------------------------ MODULE SilenceProofs ------------------------------
(***************************************************************************)
(* When the bot keeps silent, and when it speaks first.                    *)
(*                                                                         *)
(* What the gate and the pull promise of one lead, for whatever the CRM    *)
(* may hold and however often the panel and the passes come between: the   *)
(* two action properties follow from the shapes of the state and from what *)
(* hold_kind makes of a card.                                              *)
(*                                                                         *)
(* How near the reactivation comes to its cap and to the manager, for any  *)
(* leads and threads and whatever dies on the way.  While a list is worked *)
(* off nothing checks the cap again: what holds is that every thread of a  *)
(* lead still on the list leaves room for one more touch of that lead, and *)
(* that a lead on the list has a manager only since the list was made.     *)
(*                                                                         *)
(* Who answers in a chat on a manager's own phone, for any leads, chats    *)
(* and numbers and any order in which records are folded.  A fold writes   *)
(* the survivor by what was read of it: what holds until it does is that   *)
(* a lead which a human led when it was read, and which the bot answers    *)
(* now, was given to the bot by the desk.                                  *)
(***************************************************************************)
EXTENDS CrmGate, Waking, People, FiniteSetTheorems, WellFoundedInduction, TLAPS

\* The steps of each, whatever is fair among them: GateSpec, WakingSpec and
\* PeopleSpec imply these, and so does the specification of the whole office.
GateRuns   == GateInit /\ [][GateNext]_gateVars
WakingRuns == WakingInit /\ [][WakingNext]_wakingVars
PeopleRuns == PeopleInit /\ [][PeopleNext]_peopleVars

(* What hold_kind returns: a word of three, silence just for a refusal or  *)
(* for a close that nobody owns, and nothing for a card without facts.     *)
LEMMA HoldKinds ==
  ASSUME NEW f \in Facts
  PROVE  /\ HoldKind(f) \in {"silence", "initiative", "none"}
         /\ HoldKind(f) = "silence" <=> \/ f.result = "refused"
                                        \/ f.won /\ ~f.owned
         /\ HoldKind(NoFacts) = "none"
BY DEF HoldKind, Facts, Outcome, NoFacts

(* What a read brings back has the shape of a card.                        *)
LEMMA CardsRead ==
  ASSUME GateTypeOK
  PROVE  Answers \subseteq Facts /\ NoFacts \in Facts
BY GateAssumption DEF GateTypeOK, Answers, Facts, Outcome, NoFacts

(* Enforcing a card leaves a lead a lead, and a silent card its bot off.   *)
LEMMA Enforcing ==
  ASSUME NEW c \in [stage : Stages, on : BOOLEAN, off : BOOLEAN], NEW f
  PROVE  /\ Enforced(c, f) \in [stage : Stages, on : BOOLEAN, off : BOOLEAN]
         /\ HoldKind(f) = "silence" => ~Enforced(c, f).on
BY DEF Enforced, StoodDown, Stages, Active

(* A step of the gate: the line leaves the outbox, the row is the one that *)
(* was judged or stays, and the lead and the line follow the verdict.      *)
LEMMA GateStep ==
  ASSUME GateTypeOK, NEW s \in Sources, Gated(s)
  PROVE  /\ drafts' = drafts \ {s}
         /\ \E f \in Facts :
              /\ Judged(s, f)
              /\ \/ cached' = cached /\ cached.fresh /\ f = cached.facts
                 \/ cached' = Answer(f)
                 \/ cached' = cached /\ f = NoFacts
         /\ UNCHANGED <<crm, acted, picked, rescued, handed>>
<1>1. cached.facts \in Facts
  BY DEF GateTypeOK
<1>2. Answers \subseteq Facts /\ NoFacts \in Facts
  BY CardsRead
<1>. QED
  BY <1>1, <1>2 DEF Gated, Leaves

(* The lead, the row and the outbox keep their shapes at every step.       *)
THEOREM GateTyped == GateRuns => []GateTypeOK
<1>1. GateInit => GateTypeOK
  <2>. SUFFICES ASSUME GateInit PROVE GateTypeOK
    OBVIOUS
  <2>1. NoFacts \in Facts
    BY DEF NoFacts, Facts, Outcome
  <2>2. cached \in [known : BOOLEAN, fresh : BOOLEAN, facts : Facts] /\ ~cached.fresh
    BY <2>1 DEF GateInit, Unread
  <2>3. client \in [stage : Stages, on : BOOLEAN, off : BOOLEAN]
    BY DEF GateInit, Stages, Active
  <2>4. {lately, rescued} \subseteq BOOLEAN
    BY Zenon DEF GateInit
  <2>5. handed \in 0..MaxHandBack
    BY GateAssumption DEF GateInit
  <2>. QED
    BY <2>2, <2>3, <2>4, <2>5 DEF GateInit, GateTypeOK
<1>2. GateTypeOK /\ [GateNext]_gateVars => GateTypeOK'
  <2>. SUFFICES ASSUME GateTypeOK, [GateNext]_gateVars PROVE GateTypeOK'
    OBVIOUS
  <2>. USE DEF GateTypeOK
  <2>1. CASE ManagerRecords
    BY <2>1 DEF ManagerRecords
  <2>2. CASE CacheAges
    BY <2>2 DEF CacheAges
  <2>3. CASE PanelDecides
    <3>. DEFINE Lead == [stage : Stages, on : BOOLEAN, off : BOOLEAN]
    <3>1. client \in Lead
      OBVIOUS
    <3>2. /\ [client EXCEPT !.on = TRUE, !.off = FALSE] \in Lead
          /\ [client EXCEPT !.on = FALSE, !.off = TRUE] \in Lead
      BY <3>1
    <3>3. [stage |-> "qualifying", on |-> TRUE, off |-> FALSE] \in Lead
      BY DEF Stages, Active
    <3>4. client' \in Lead
      BY <2>3, <3>2, <3>3, Zenon DEF PanelDecides
    <3>. QED
      BY <2>3, <3>4, GateAssumption DEF PanelDecides
  <2>4. CASE Quietens
    BY <2>4 DEF Quietens
  <2>5. CASE Rescues
    BY <2>5 DEF Rescues, Stages, Active, Sources
  <2>6. CASE PicksResult
    BY <2>6 DEF PicksResult
  <2>7. CASE FollowsThrough
    BY <2>7 DEF FollowsThrough, Outcome, Sources
  <2>8. ASSUME NEW s \in Sources, Composes(s) PROVE GateTypeOK'
    BY <2>8 DEF Composes, Sources
  <2>9. ASSUME NEW s \in Sources, CanceledByHand(s) PROVE GateTypeOK'
    BY <2>9 DEF CanceledByHand, Leaves
  <2>10. ASSUME NEW s \in Sources, Gated(s) PROVE GateTypeOK'
    <3>1. PICK f \in Facts :
            /\ Judged(s, f)
            /\ \/ cached' = cached /\ cached.fresh /\ f = cached.facts
               \/ cached' = Answer(f)
               \/ cached' = cached /\ f = NoFacts
      BY <2>10, GateStep
    <3>2. cached' \in [known : BOOLEAN, fresh : BOOLEAN, facts : Facts]
            /\ (cached'.fresh => cached'.known)
      <4>1. /\ Answer(f) \in [known : BOOLEAN, fresh : BOOLEAN, facts : Facts]
            /\ Answer(f).known
        BY DEF Answer
      <4>. QED
        BY <3>1, <4>1, Zenon
    <3>3. client' \in [stage : Stages, on : BOOLEAN, off : BOOLEAN]
            /\ lately' \in BOOLEAN
      BY <3>1, Enforcing DEF Judged
    <3>. QED
      BY <2>10, <3>2, <3>3 DEF Gated, Leaves
  <2>11. ASSUME NEW f \in Answers, SyncActive(f) PROVE GateTypeOK'
    <3>1. f \in Facts
      BY <2>11, CardsRead
    <3>. QED
      BY <2>11, <3>1, Enforcing DEF SyncActive, Answer
  <2>12. ASSUME NEW f \in Answers, SyncOutcomes(f) PROVE GateTypeOK'
    <3>1. f \in Facts
      BY <2>12, CardsRead
    <3>. QED
      BY <2>12, <3>1 DEF SyncOutcomes, Answer
  <2>13. CASE UNCHANGED gateVars
    BY <2>13 DEF gateVars
  <2>. QED
    BY <2>1, <2>2, <2>3, <2>4, <2>5, <2>6, <2>7, <2>8, <2>9, <2>10, <2>11,
       <2>12, <2>13 DEF GateNext
<1>. QED
  BY <1>1, <1>2, PTL DEF GateRuns

------------------------------------------------------------------------------
(* Whatever the CRM may hold, a reply is only held for a refusal, a close  *)
(* or a person who took the thread.                                        *)
THEOREM AskerAnswered == GateRuns => QuestionsAnswered
<1>. DEFINE Step ==
       ("agent" \in drafts /\ "agent" \notin drafts' /\ lately' = lately /\ ~lately)
         => client.off \/ Closed(cached'.facts)
<1>1. GateTypeOK /\ [GateNext]_gateVars => [Step]_gateVars
  <2>. SUFFICES ASSUME GateTypeOK, GateNext, "agent" \in drafts,
                       "agent" \notin drafts', lately' = lately, ~lately
                PROVE  client.off \/ Closed(cached'.facts)
    OBVIOUS
  <2>1. PICK s \in Sources : CanceledByHand(s) \/ Gated(s)
    <3>1. ~ManagerRecords /\ ~CacheAges /\ ~PanelDecides /\ ~Quietens
      BY DEF ManagerRecords, CacheAges, PanelDecides, Quietens
    <3>2. ~Rescues /\ ~PicksResult /\ ~FollowsThrough
      BY DEF Rescues, PicksResult, FollowsThrough
    <3>3. \A f \in Answers : ~SyncActive(f) /\ ~SyncOutcomes(f)
      BY DEF SyncActive, SyncOutcomes
    <3>4. \A s \in Sources : ~Composes(s)
      BY DEF Composes
    <3>. QED
      BY <3>1, <3>2, <3>3, <3>4 DEF GateNext
  <2>2. CASE CanceledByHand(s)
    BY <2>2 DEF CanceledByHand
  <2>3. CASE Gated(s)
    <3>1. s = "agent"
      BY <2>3, GateStep
    <3>2. PICK f \in Facts :
            /\ Judged(s, f)
            /\ \/ cached' = cached /\ cached.fresh /\ f = cached.facts
               \/ cached' = Answer(f)
               \/ cached' = cached /\ f = NoFacts
      BY <2>3, GateStep
    <3>3. HoldKind(f) = "silence"
      BY <3>1, <3>2, HoldKinds DEF Judged, Holds
    <3>4. Closed(f) /\ f # NoFacts
      BY <3>3, HoldKinds DEF Closed
    <3>. QED
      BY <3>2, <3>4 DEF Answer
  <2>. QED
    BY <2>1, <2>2, <2>3
<1>. QED
  BY <1>1, GateTyped, PTL DEF GateRuns, QuestionsAnswered

(* Whatever path reads it, the transaction that learns of a refusal or of  *)
(* a close nobody owns switches the bot off.                               *)
THEOREM LearnedAndOff == GateRuns => SilenceStandsDown
<1>. DEFINE Step ==
       cached' # cached /\ cached'.fresh /\ client.stage \in Active
         /\ (\/ cached'.facts.result = "refused"
             \/ cached'.facts.won /\ ~cached'.facts.owned)
         => ~client'.on
<1>1. GateTypeOK /\ [GateNext]_gateVars => [Step]_gateVars
  <2>. SUFFICES ASSUME GateTypeOK, GateNext, cached' # cached, cached'.fresh,
                       client.stage \in Active,
                       \/ cached'.facts.result = "refused"
                       \/ cached'.facts.won /\ ~cached'.facts.owned
                PROVE  ~client'.on
    OBVIOUS
  <2>1. client \in [stage : Stages, on : BOOLEAN, off : BOOLEAN]
    BY DEF GateTypeOK
  <2>2. \/ \E s \in Sources : Gated(s)
        \/ \E f \in Answers : SyncActive(f)
    <3>1. ~CacheAges
      BY DEF CacheAges, GateTypeOK
    <3>2. ~ManagerRecords /\ ~PanelDecides /\ ~Quietens
      BY DEF ManagerRecords, PanelDecides, Quietens
    <3>3. ~Rescues /\ ~PicksResult /\ ~FollowsThrough
      BY DEF Rescues, PicksResult, FollowsThrough
    <3>4. \A s \in Sources : ~Composes(s) /\ ~CanceledByHand(s)
      BY DEF Composes, CanceledByHand
    <3>5. \A f \in Answers : ~SyncOutcomes(f)
      BY DEF SyncOutcomes
    <3>. QED
      BY <3>1, <3>2, <3>3, <3>4, <3>5 DEF GateNext
  <2>3. ASSUME NEW s \in Sources, Gated(s) PROVE ~client'.on
    <3>1. PICK f \in Facts : Judged(s, f) /\ cached' = Answer(f)
      BY <2>3, GateStep
    <3>2. HoldKind(f) = "silence"
      BY <3>1, HoldKinds DEF Answer
    <3>. QED
      BY <2>1, <3>1, <3>2, Enforcing DEF Judged, Holds
  <2>4. ASSUME NEW f \in Answers, SyncActive(f) PROVE ~client'.on
    <3>1. f \in Facts
      BY <2>4, CardsRead
    <3>2. HoldKind(f) = "silence"
      BY <2>4, <3>1, HoldKinds DEF SyncActive, Answer
    <3>. QED
      BY <2>1, <2>4, <3>2, Enforcing DEF SyncActive
  <2>. QED
    BY <2>2, <2>3, <2>4
<1>. QED
  BY <1>1, GateTyped, PTL DEF GateRuns, SilenceStandsDown
------------------------------------------------------------------------------
OnList(l) == batch \cap ChatsOf(l)

WakingShapes ==
  /\ sleeper \in [Sleepers -> Sleeper]
  /\ touches \in [Sleepers -> Nat] /\ recent \in [Sleepers -> Nat]
  /\ batch \subseteq Chats /\ touch.of \subseteq batch

\* Room for a touch per thread that is still on the list.
RoomLeft == \A l \in Sleepers : OnList(l) # {} =>
  /\ touches[l] + Cardinality(OnList(l)) < ReactivationCap + Cardinality(ChatsOf(l))
  /\ recent[l] + Cardinality(OnList(l)) <= Cardinality(ChatsOf(l))

OursOrTaken == \A t \in batch :
  sleeper[SleeperOf[t]].stage = "manager" => SleeperOf[t] \in taken

WakingInvariant == WakingShapes /\ RoomLeft /\ OursOrTaken

(* The threads of a lead on the list can be counted, and are at most its   *)
(* threads.                                                                *)
LEMMA Counts ==
  ASSUME NEW l \in Sleepers, NEW B \in SUBSET Chats
  PROVE  /\ IsFiniteSet(B \cap ChatsOf(l))
         /\ Cardinality(B \cap ChatsOf(l)) \in Nat
         /\ Cardinality(ChatsOf(l)) \in Nat
         /\ Cardinality(B \cap ChatsOf(l)) <= Cardinality(ChatsOf(l))
<1>1. ChatsOf(l) \subseteq Chats /\ B \cap ChatsOf(l) \subseteq ChatsOf(l)
  BY DEF ChatsOf
<1>2. IsFiniteSet(ChatsOf(l))
  BY <1>1, WakingAssumption, FS_Subset
<1>3. IsFiniteSet(B \cap ChatsOf(l))
        /\ Cardinality(B \cap ChatsOf(l)) <= Cardinality(ChatsOf(l))
  BY <1>1, <1>2, FS_Subset
<1>. QED
  BY <1>2, <1>3, FS_CardinalityType

(* A thread that is done with leaves one fewer on the list of its lead and *)
(* the lists of the others as they are.                                    *)
LEMMA OneFewer ==
  ASSUME WakingShapes, NEW t \in Chats, Finished(t)
  PROVE  /\ t \in batch /\ batch' = batch \ {t}
         /\ \A l \in Sleepers \ {SleeperOf[t]} : OnList(l)' = OnList(l)
         /\ t \in OnList(SleeperOf[t])
         /\ Cardinality(OnList(SleeperOf[t])') = Cardinality(OnList(SleeperOf[t])) - 1
<1>1. t \in batch /\ batch' = batch \ {t}
  BY DEF Finished, WakingShapes
<1>2. t \in OnList(SleeperOf[t])
  BY <1>1 DEF OnList, ChatsOf
<1>3. OnList(SleeperOf[t])' = OnList(SleeperOf[t]) \ {t}
  BY <1>1 DEF OnList, ChatsOf
<1>4. \A l \in Sleepers \ {SleeperOf[t]} : OnList(l)' = OnList(l)
  BY <1>1 DEF OnList, ChatsOf
<1>5. SleeperOf[t] \in Sleepers /\ batch \in SUBSET Chats
  BY WakingAssumption DEF WakingShapes
<1>6. IsFiniteSet(OnList(SleeperOf[t]))
  BY <1>5, Counts DEF OnList
<1>. QED
  BY <1>1, <1>2, <1>3, <1>4, <1>6, FS_RemoveElement

(* A touch or a decision against one takes the room it was left.           *)
LEMMA RecordingKeepsRoom ==
  ASSUME WakingShapes, RoomLeft, NEW t \in Chats, Finished(t), Recorded(SleeperOf[t])
  PROVE  RoomLeft'
<1>. DEFINE k == SleeperOf[t]
<1>1. k \in Sleepers
  BY WakingAssumption
<1>2. ASSUME NEW l \in Sleepers, l # k, OnList(l)' # {}
      PROVE  /\ touches'[l] + Cardinality(OnList(l)')
                  < ReactivationCap + Cardinality(ChatsOf(l))
             /\ recent'[l] + Cardinality(OnList(l)') <= Cardinality(ChatsOf(l))
  <2>1. OnList(l)' = OnList(l)
    BY <1>2, OneFewer
  <2>2. touches'[l] = touches[l] /\ recent'[l] = recent[l]
    BY <1>2 DEF Recorded, WakingShapes
  <2>. QED
    BY <1>2, <2>1, <2>2 DEF RoomLeft
<1>3. /\ touches'[k] + Cardinality(OnList(k)')
           < ReactivationCap + Cardinality(ChatsOf(k))
      /\ recent'[k] + Cardinality(OnList(k)') <= Cardinality(ChatsOf(k))
  <2>1. /\ OnList(k) # {}
        /\ Cardinality(OnList(k)') = Cardinality(OnList(k)) - 1
    BY OneFewer
  <2>2. touches'[k] = touches[k] + 1 /\ recent'[k] = recent[k] + 1
    BY <1>1 DEF Recorded, WakingShapes
  <2>3. Cardinality(OnList(k)) \in Nat /\ Cardinality(ChatsOf(k)) \in Nat
    BY <1>1, Counts DEF OnList, WakingShapes
  <2>4. touches[k] \in Nat /\ recent[k] \in Nat /\ ReactivationCap \in Nat
    BY <1>1, WakingAssumption DEF WakingShapes
  <2>. HIDE DEF k
  <2>5. /\ touches[k] + Cardinality(OnList(k))
             < ReactivationCap + Cardinality(ChatsOf(k))
        /\ recent[k] + Cardinality(OnList(k)) <= Cardinality(ChatsOf(k))
    BY <1>1, <2>1 DEF RoomLeft
  <2>. QED
    BY <2>1, <2>2, <2>3, <2>4, <2>5
<1>. HIDE DEF k
<1>4. \A l \in Sleepers : ChatsOf(l)' = ChatsOf(l)
  BY DEF ChatsOf
<1>. QED
  BY <1>2, <1>3, <1>4 DEF RoomLeft

(* The room is left by a new list, since _DUE_Q counted what was recorded. *)
LEMMA HarvestLeavesRoom ==
  ASSUME WakingShapes, Harvests
  PROVE  RoomLeft'
<1>. SUFFICES ASSUME NEW l \in Sleepers, OnList(l)' # {}
              PROVE  /\ touches[l] + Cardinality(OnList(l)')
                          < ReactivationCap + Cardinality(ChatsOf(l))
                     /\ recent[l] + Cardinality(OnList(l)') <= Cardinality(ChatsOf(l))
  BY DEF RoomLeft, Harvests, ChatsOf
<1>1. batch' \subseteq DueChats
  BY DEF Harvests
<1>2. touches[l] < ReactivationCap /\ recent[l] = 0
  <2>1. PICK t \in OnList(l)' : TRUE
    OBVIOUS
  <2>2. SleeperOf[t] = l /\ t \in batch'
    BY DEF OnList, ChatsOf
  <2>3. IsDue(t)
    BY <1>1, <2>2 DEF DueChats
  <2>. QED
    BY <2>2, <2>3 DEF IsDue
<1>3. OnList(l)' = batch' \cap ChatsOf(l) /\ batch' \in SUBSET Chats
  BY <1>1 DEF OnList, ChatsOf, DueChats
<1>4. /\ Cardinality(OnList(l)') \in Nat /\ Cardinality(ChatsOf(l)) \in Nat
      /\ Cardinality(OnList(l)') <= Cardinality(ChatsOf(l))
  BY <1>3, Counts
<1>5. touches[l] \in Nat /\ ReactivationCap \in Nat
  BY WakingAssumption DEF WakingShapes
<1>. QED
  BY <1>2, <1>4, <1>5

(* The shapes hold at every step.                                          *)
LEMMA WakingShapesKept ==
  ASSUME WakingShapes, [WakingNext]_wakingVars
  PROVE  WakingShapes'
<1>. USE DEF WakingShapes
<1>0. /\ \A t \in Chats : SleeperOf[t] \in Sleepers
      /\ NoTouch.of = {}
  BY WakingAssumption DEF NoTouch
<1>1. CASE Harvests
  BY <1>1 DEF Harvests, DueChats
<1>2. ASSUME NEW t \in Chats, Touches(t) PROVE WakingShapes'
  <2>1. sleeper' \in [Sleepers -> Sleeper]
    <3>1. sleeper[SleeperOf[t]] \in Sleeper
      BY <1>0
    <3>2. [stage |-> IF touch.seen.stage = Woken.stage
                       THEN sleeper[SleeperOf[t]].stage ELSE Woken.stage,
           on    |-> sleeper[SleeperOf[t]].on \/ ~touch.seen.on] \in Sleeper
      <4>1. (sleeper[SleeperOf[t]].on \/ ~touch.seen.on) \in BOOLEAN
        BY Zenon
      <4>2. (IF touch.seen.stage = Woken.stage
               THEN sleeper[SleeperOf[t]].stage ELSE Woken.stage)
              \in {"dormant", "qualifying", "nurturing", "manager"}
        BY <3>1 DEF Sleeper, Woken
      <4>. QED
        BY <4>1, <4>2, Zenon DEF Sleeper
    <3>. QED
      BY <1>0, <1>2, <3>2, Zenon DEF Touches
  <2>. QED
    BY <1>0, <1>2, <2>1 DEF Touches, Finished, Recorded
<1>3. ASSUME NEW t \in Chats, Suppresses(t) \/ Misses(t) PROVE WakingShapes'
  BY <1>0, <1>3 DEF Suppresses, Misses, Finished, Recorded
<1>4. CASE HarvestDies
  BY <1>0, <1>4 DEF HarvestDies
<1>5. ASSUME NEW t \in Chats, Begins(t) PROVE WakingShapes'
  BY <1>5 DEF Begins
<1>6. ASSUME NEW t \in Chats, WritesBack(t) PROVE WakingShapes'
  BY <1>0, <1>6 DEF WritesBack, Sleeper, Alive
<1>7. ASSUME NEW t \in Chats, GoesOut(t) PROVE WakingShapes'
  BY <1>7 DEF GoesOut
<1>8. ASSUME NEW t \in Chats, FallsQuiet(t) PROVE WakingShapes'
  <2>1. Parked \in Sleeper
    BY DEF Parked, Sleeper
  <2>2. sleeper' \in [Sleepers -> Sleeper]
    <3>1. CASE sleeper' = sleeper
      BY <3>1
    <3>2. CASE sleeper' = [sleeper EXCEPT ![SleeperOf[t]] = Parked]
      BY <2>1, <3>2
    <3>. QED
      BY <1>8, <3>1, <3>2 DEF FallsQuiet
  <2>. QED
    BY <1>8, <2>2 DEF FallsQuiet
<1>9. ASSUME NEW l \in Sleepers, Takes(l) \/ GivesBack(l) PROVE WakingShapes'
  <2>1. WithHim \in Sleeper /\ Alive \in Sleeper
    BY DEF Sleeper, WithHim, Alive
  <2>. QED
    BY <1>9, <2>1 DEF Takes, GivesBack
<1>10. ASSUME NEW l \in Sleepers, GapPasses(l) PROVE WakingShapes'
  BY <1>10 DEF GapPasses
<1>11. CASE UNCHANGED wakingVars
  BY <1>11 DEF wakingVars
<1>. QED
  BY <1>1, <1>2, <1>3, <1>4, <1>5, <1>6, <1>7, <1>8, <1>9, <1>10, <1>11
     DEF WakingNext, Decides

(* Nothing but a harvest and a record touches the room.                    *)
LEMMA RoomKept ==
  ASSUME WakingShapes, RoomLeft, [WakingNext]_wakingVars
  PROVE  RoomLeft'
<1>. DEFINE Still == batch' \in {batch, {}} /\ touches' = touches /\ recent' = recent
<1>1. CASE Still
  <2>1. \A l \in Sleepers : ChatsOf(l)' = ChatsOf(l)
    BY DEF ChatsOf
  <2>2. \A l \in Sleepers : OnList(l)' \in {OnList(l), {}}
    BY <1>1, <2>1 DEF OnList
  <2>3. \A l \in Sleepers : OnList(l)' # {} => OnList(l)' = OnList(l)
    BY <2>2
  <2>. QED
    BY <1>1, <2>1, <2>3 DEF RoomLeft
<1>2. CASE Harvests
  BY <1>2, HarvestLeavesRoom
<1>3. ASSUME NEW t \in Chats, Touches(t) \/ Suppresses(t) PROVE RoomLeft'
  BY <1>3, RecordingKeepsRoom DEF Touches, Suppresses
<1>4. ASSUME NEW t \in Chats, Misses(t) PROVE RoomLeft'
  <2>1. touches' = touches /\ recent' = recent
    BY <1>4 DEF Misses
  <2>2. \A l \in Sleepers : /\ OnList(l)' \subseteq OnList(l)
                           /\ ChatsOf(l)' = ChatsOf(l)
    BY <1>4, OneFewer DEF Misses, OnList, ChatsOf
  <2>. SUFFICES ASSUME NEW l \in Sleepers, OnList(l)' # {}
                PROVE  /\ touches[l] + Cardinality(OnList(l)')
                            < ReactivationCap + Cardinality(ChatsOf(l))
                       /\ recent[l] + Cardinality(OnList(l)')
                            <= Cardinality(ChatsOf(l))
    BY <2>1, <2>2 DEF RoomLeft
  <2>3. IsFiniteSet(OnList(l)) /\ OnList(l) # {} /\ OnList(l)' \subseteq OnList(l)
    BY <2>2, Counts DEF OnList, WakingShapes
  <2>4. /\ Cardinality(OnList(l)) \in Nat /\ Cardinality(OnList(l)') \in Nat
        /\ Cardinality(OnList(l)') <= Cardinality(OnList(l))
    BY <2>3, FS_Subset, FS_CardinalityType
  <2>5. /\ touches[l] + Cardinality(OnList(l))
             < ReactivationCap + Cardinality(ChatsOf(l))
        /\ recent[l] + Cardinality(OnList(l)) <= Cardinality(ChatsOf(l))
    BY <2>3 DEF RoomLeft
  <2>6. /\ touches[l] \in Nat /\ recent[l] \in Nat /\ ReactivationCap \in Nat
        /\ Cardinality(ChatsOf(l)) \in Nat
    BY WakingAssumption, Counts DEF WakingShapes
  <2>. QED
    BY <2>4, <2>5, <2>6
<1>5. CASE HarvestDies
  BY <1>5, <1>1 DEF HarvestDies
<1>6. ASSUME NEW t \in Chats, Begins(t) \/ WritesBack(t) \/ GoesOut(t) PROVE RoomLeft'
  BY <1>6, <1>1 DEF Begins, WritesBack, GoesOut
<1>7. ASSUME NEW t \in Chats, FallsQuiet(t) PROVE RoomLeft'
  BY <1>7, <1>1 DEF FallsQuiet
<1>8. ASSUME NEW l \in Sleepers, Takes(l) \/ GivesBack(l) PROVE RoomLeft'
  BY <1>8, <1>1 DEF Takes, GivesBack
<1>9. ASSUME NEW l \in Sleepers, GapPasses(l) PROVE RoomLeft'
  <2>1. \A k \in Sleepers : OnList(k)' = {}
    BY <1>9 DEF GapPasses, OnList
  <2>. QED
    BY <2>1 DEF RoomLeft
<1>10. CASE UNCHANGED wakingVars
  BY <1>10, <1>1 DEF wakingVars
<1>. QED
  BY <1>2, <1>3, <1>4, <1>5, <1>6, <1>7, <1>8, <1>9, <1>10 DEF WakingNext, Decides

(* A lead on the list that has a manager was taken since the list was made.*)
LEMMA TakenKept ==
  ASSUME WakingShapes, OursOrTaken, [WakingNext]_wakingVars
  PROVE  OursOrTaken'
<1>0. \A t \in Chats : SleeperOf[t] \in Sleepers
  BY WakingAssumption
<1>. SUFFICES ASSUME NEW u \in batch', sleeper'[SleeperOf[u]].stage = "manager"
              PROVE  SleeperOf[u] \in taken'
  BY DEF OursOrTaken
<1>. DEFINE k == SleeperOf[u]
<1>. USE DEF WakingShapes
<1>1. CASE Harvests
  BY <1>1 DEF Harvests, DueChats, IsDue
<1>2. ASSUME NEW t \in Chats, Touches(t) \/ Suppresses(t) \/ Misses(t)
      PROVE  k \in taken'
  <2>1. Finished(t)
    BY <1>2 DEF Touches, Suppresses, Misses
  <2>2. u \in batch /\ taken' = taken
    BY <2>1 DEF Finished
  <2>3. k \in Sleepers
    BY <1>0, <2>2
  <2>4. sleeper[k].stage = "manager"
    BY <1>2, <2>3 DEF Touches, Suppresses, Misses, Woken
  <2>. QED
    BY <2>2, <2>4 DEF OursOrTaken
<1>3. CASE HarvestDies
  BY <1>3 DEF HarvestDies
<1>4. ASSUME NEW t \in Chats, Begins(t) \/ GoesOut(t) PROVE k \in taken'
  BY <1>4 DEF Begins, GoesOut, OursOrTaken
<1>5. ASSUME NEW t \in Chats, WritesBack(t) PROVE k \in taken'
  <2>1. u \in batch /\ taken' = taken /\ k \in Sleepers
    BY <1>0, <1>5 DEF WritesBack
  <2>2. sleeper[k].stage = "manager"
    BY <1>5, <2>1 DEF WritesBack, Alive, Sleeper
  <2>. QED
    BY <2>1, <2>2 DEF OursOrTaken
<1>6. ASSUME NEW t \in Chats, FallsQuiet(t) PROVE k \in taken'
  BY <1>6 DEF FallsQuiet
<1>7. ASSUME NEW l \in Sleepers, Takes(l) PROVE k \in taken'
  <2>1. u \in batch /\ taken' = taken \cup {l}
    BY <1>7 DEF Takes
  <2>2. k # l => sleeper'[k] = sleeper[k]
    BY <1>0, <1>7, <2>1 DEF Takes
  <2>. QED
    BY <2>1, <2>2 DEF OursOrTaken
<1>8. ASSUME NEW l \in Sleepers, GivesBack(l) PROVE k \in taken'
  <2>1. u \in batch /\ taken' = taken
    BY <1>8 DEF GivesBack
  <2>2. k # l => sleeper'[k] = sleeper[k]
    BY <1>0, <1>8, <2>1 DEF GivesBack
  <2>3. k # l
    BY <1>0, <1>8, <2>1 DEF GivesBack, Alive
  <2>. QED
    BY <2>1, <2>2, <2>3 DEF OursOrTaken
<1>9. ASSUME NEW l \in Sleepers, GapPasses(l) PROVE k \in taken'
  BY <1>9 DEF GapPasses
<1>10. CASE UNCHANGED wakingVars
  BY <1>10 DEF wakingVars, OursOrTaken
<1>. QED
  BY <1>1, <1>2, <1>3, <1>4, <1>5, <1>6, <1>7, <1>8, <1>9, <1>10
     DEF WakingNext, Decides

(* The inductive invariant holds in every state.                           *)
LEMMA WakingInduction == WakingRuns => []WakingInvariant
<1>1. WakingInit => WakingInvariant
  <2>. SUFFICES ASSUME WakingInit PROVE WakingInvariant
    OBVIOUS
  <2>1. WakingShapes
    BY DEF WakingInit, WakingShapes, Sleeper, Alive, NoTouch
  <2>. QED
    BY <2>1 DEF WakingInit, WakingInvariant, RoomLeft, OursOrTaken, OnList
<1>2. WakingInvariant /\ [WakingNext]_wakingVars => WakingInvariant'
  BY WakingShapesKept, RoomKept, TakenKept DEF WakingInvariant
<1>. QED
  BY <1>1, <1>2, PTL DEF WakingRuns

(* "Anti-ban / anti-spam invariants": however harvests die, touches fail,  *)
(* leads write and managers take and give back, no lead gets more touches, *)
(* in its life and in one gap, than its threads explain, and none that was *)
(* a manager's when the list was made is woken.                            *)
THEOREM SparingAlways == WakingRuns => Sparing
<1>. DEFINE Step == \A l \in Sleepers : touches'[l] # touches[l] =>
       /\ touches'[l] < ReactivationCap + Cardinality(ChatsOf(l))
       /\ recent'[l] <= Cardinality(ChatsOf(l))
       /\ sleeper[l].stage = "manager" => sleeper'[l] = sleeper[l] \/ l \in taken
<1>1. WakingInvariant /\ WakingInvariant' /\ [WakingNext]_wakingVars => [Step]_wakingVars
  <2>. SUFFICES ASSUME WakingInvariant, WakingNext,
                       NEW l \in Sleepers, touches'[l] # touches[l]
                PROVE  /\ touches'[l] < ReactivationCap + Cardinality(ChatsOf(l))
                       /\ recent'[l] <= Cardinality(ChatsOf(l))
                       /\ sleeper[l].stage = "manager"
                            => sleeper'[l] = sleeper[l] \/ l \in taken
    OBVIOUS
  <2>. USE DEF WakingInvariant
  <2>1. PICK t \in Chats : Touches(t) \/ Suppresses(t)
    BY DEF WakingNext, Decides, Harvests, HarvestDies, Begins, WritesBack, GoesOut,
           FallsQuiet, Takes, GivesBack, GapPasses, Misses
  <2>2. Finished(t) /\ Recorded(SleeperOf[t])
    BY <2>1 DEF Touches, Suppresses
  <2>3. SleeperOf[t] = l
    BY <2>2 DEF Recorded, WakingShapes
  <2>4. t \in batch /\ OnList(l) # {} /\ Cardinality(OnList(l)) # 0
    <3>1. IsFiniteSet(OnList(l))
      BY Counts DEF OnList, WakingShapes
    <3>. QED
      BY <2>2, <2>3, <3>1, OneFewer, FS_EmptySet
  <2>5. touches'[l] = touches[l] + 1 /\ recent'[l] = recent[l] + 1
    BY <2>2, <2>3 DEF Recorded, WakingShapes
  <2>6. /\ Cardinality(OnList(l)) \in Nat /\ Cardinality(ChatsOf(l)) \in Nat
        /\ touches[l] \in Nat /\ recent[l] \in Nat /\ ReactivationCap \in Nat
    BY Counts, WakingAssumption DEF OnList, WakingShapes
  <2>7. /\ touches[l] + Cardinality(OnList(l))
             < ReactivationCap + Cardinality(ChatsOf(l))
        /\ recent[l] + Cardinality(OnList(l)) <= Cardinality(ChatsOf(l))
    BY <2>4 DEF RoomLeft
  <2>8. sleeper[l].stage = "manager" => l \in taken
    BY <2>3, <2>4 DEF OursOrTaken
  <2>. QED
    BY <2>4, <2>5, <2>6, <2>7, <2>8
<1>. QED
  BY <1>1, WakingInduction, PTL DEF WakingRuns, Sparing

(* What WakingShapes leaves out of the types.                              *)
LEMMA WakingTyped == WakingRuns => []WakingTypeOK
<1>1. ASSUME WakingInit PROVE WakingTypeOK
  <2>1. WakingShapes
    BY <1>1 DEF WakingInit, WakingShapes, Sleeper, Alive, NoTouch
  <2>2. recent = touches /\ touch.of = {} /\ batch = {}
    BY <1>1 DEF WakingInit, NoTouch
  <2>. QED
    BY <1>1, <2>1, <2>2 DEF WakingInit, WakingTypeOK, WakingShapes
<1>2. ASSUME WakingShapes, WakingShapes', WakingTypeOK, [WakingNext]_wakingVars
      PROVE  WakingTypeOK'
  <2>1. /\ touches \in [Sleepers -> Nat] /\ recent \in [Sleepers -> Nat]
        /\ \A l \in Sleepers : recent[l] <= touches[l]
        /\ \A t \in Chats : SleeperOf[t] \in Sleepers
    BY <1>2, WakingAssumption DEF WakingTypeOK, WakingShapes
  <2>2. \A l \in Sleepers : recent'[l] <= touches'[l]
    <3>1. ASSUME NEW t \in Chats, Recorded(SleeperOf[t])
          PROVE  \A l \in Sleepers : recent'[l] <= touches'[l]
      BY <2>1, <3>1 DEF Recorded
    <3>2. ASSUME NEW l \in Sleepers, GapPasses(l)
          PROVE  \A k \in Sleepers : recent'[k] <= touches'[k]
      BY <2>1, <3>2 DEF GapPasses
    <3>3. CASE UNCHANGED <<touches, recent>>
      BY <2>1, <3>3
    <3>. QED
      BY <1>2, <3>1, <3>2, <3>3
         DEF WakingNext, Decides, Harvests, HarvestDies, Begins, WritesBack, GoesOut,
             FallsQuiet, Takes, GivesBack, Touches, Suppresses, Misses, wakingVars
  <2>3. {queued, quiet, batch} \subseteq SUBSET Chats /\ taken \subseteq Sleepers
    BY <1>2 DEF WakingTypeOK
  <2>4. queued' \subseteq Chats /\ quiet' \subseteq Chats /\ taken' \subseteq Sleepers
    BY <1>2, <2>3
       DEF WakingNext, Decides, Harvests, HarvestDies, Begins, WritesBack, GoesOut,
           FallsQuiet, Takes, GivesBack, GapPasses, Touches, Suppresses, Misses,
           Finished, wakingVars
  <2>. QED
    BY <1>2, <2>2, <2>4 DEF WakingTypeOK, WakingShapes
<1>. QED
  BY <1>1, <1>2, WakingInduction, PTL DEF WakingRuns, WakingInvariant
------------------------------------------------------------------------------
\* Where a human leads, or a phone that is a manager's own has written, the bot
\* may write only by the desk's leave, or a job's.
HumanFirst == \A l \in Leads : card[l].stage = "manager" /\ card[l].on => l \in freed
Yielded == \A t \in PhoneChats, l \in Leads :
  owner[t] = l /\ card[l].stage \notin HumanLed => l \in freed

\* The leads a sweep has read still share their number, and who was led by a
\* human then and is not now was given back.
SweepKnows ==
  ~Idle =>
    /\ sweep.group \subseteq Born /\ sweep.group # {}
    /\ \E p \in Phones : \A l \in sweep.group : card[l].phone = p
    /\ \A l \in sweep.group :
         sweep.seen[l].stage \in HumanLed /\ card[l].stage \notin HumanLed => l \in freed

ErrandsKnown == \A j \in errands : j.of \in Born

PeopleInvariant == PeopleTypeOK /\ HumanFirst /\ Yielded /\ SweepKnows /\ ErrandsKnown

(* Of the places in an order one is the survivor's.                        *)
LEMMA SurvivorStands ==
  ASSUME NEW o, NEW n \in Nat \ {0}, NEW seen
  PROVE  SurvivorAt(o, n, seen) \in 1..n
<1>. DEFINE Ours == {i \in 1..n : seen[o[i]].stage # "manager"}
            Fits(i) == /\ \A j \in 1..i-1 : seen[o[j]].stage = "manager"
                       /\ i = n \/ seen[o[i]].stage # "manager"
<1>1. \E i \in 1..n : Fits(i)
  <2>1. CASE Ours = {}
    <3>1. n \in 1..n /\ \A j \in 1..n : seen[o[j]].stage = "manager"
      BY <2>1
    <3>2. Fits(n)
      BY <3>1
    <3>. QED
      BY <3>1, <3>2
  <2>2. CASE Ours # {}
    <3>1. IsWellFoundedOn(OpToRel(<, Nat), Nat)
      BY NatLessThanWellFounded
    <3>2. Ours \subseteq Nat
      OBVIOUS
    <3>3. PICK i \in Ours : \A j \in Ours : ~(<<j, i>> \in OpToRel(<, Nat))
      BY <2>2, <3>1, <3>2, WFMin
    <3>4. \A j \in Ours : ~(j < i)
      BY <3>2, <3>3 DEF OpToRel
    <3>5. Fits(i)
      BY <3>4
    <3>. QED
      BY <3>5
  <2>. QED
    BY <2>1, <2>2
<1>2. SurvivorAt(o, n, seen) = CHOOSE i \in 1..n : Fits(i)
  BY DEF SurvivorAt
<1>. HIDE DEF Fits
<1>. QED
  BY <1>1, <1>2

\* What folding makes of the leads F: one of them, h, takes over, with the bot
\* off unless a human led it when it was read, and nobody's number changes.
FoldedInto(base, seen, F, h) ==
  /\ owner' = [t \in Threads |-> IF owner[t] \in F THEN h ELSE owner[t]]
  /\ card' \in [Leads -> Cards]
  /\ \A l \in Leads \ F : card'[l] = base[l]
  /\ \A l \in Leads : /\ card'[l].phone = base[l].phone
                      /\ card'[l].on => base[l].on
                      /\ card'[l].stage \in {base[l].stage, "handed_off"}
  /\ seen[h].stage \notin HumanLed => card'[h].stage = "handed_off"
  /\ tagged' \subseteq tagged \cup F
  /\ freed' = StillFree(freed)

LEMMA FoldIs ==
  ASSUME NEW base \in [Leads -> Cards], NEW S \in SUBSET Leads, S # {}, NEW seen,
         NEW o \in Orders(S), Fold(base, o, Cardinality(S), seen)
  PROVE  \E F \in SUBSET S : \E h \in F : FoldedInto(base, seen, F, h)
<1>. DEFINE n == Cardinality(S)
            m == SurvivorAt(o, n, seen)
            F == {o[i] : i \in 1..n}
            heir == [i \in 1..n |-> IF i < m THEN o[i + 1] ELSE o[m]]
            At(l) == CHOOSE i \in 1..n : o[i] = l
            Row(l) == IF l \notin F THEN base[l]
                      ELSE IF l = o[m] THEN Silenced(base[l], seen[l])
                      ELSE Retired(base[l], seen[l], heir[At(l)])
<1>1. n \in Nat \ {0}
  <2>1. IsFiniteSet(S)
    BY PeopleAssumption, FS_Subset
  <2>. QED
    BY <2>1, FS_CardinalityType, FS_EmptySet
<1>2. m \in 1..n
  BY <1>1, SurvivorStands
<1>3. o \in [1..n -> S]
  BY DEF Orders
<1>4. F \subseteq S /\ o[m] \in F
  BY <1>2, <1>3
<1>5. /\ card' = [l \in Leads |-> Row(l)]
      /\ owner' = [t \in Threads |-> IF owner[t] \in F THEN o[m] ELSE owner[t]]
      /\ tagged' = IF F \cap tagged = {} THEN tagged ELSE (tagged \ F) \cup {o[m]}
      /\ freed' = StillFree(freed)
  BY Zenon DEF Fold
<1>6. ASSUME NEW l \in F
      PROVE  heir[At(l)] \in Leads
  <2>1. \E i \in 1..n : o[i] = l
    OBVIOUS
  <2>2. At(l) \in 1..n
    BY <2>1
  <2>. DEFINE at == At(l)
  <2>3. at \in 1..n
    BY <2>2
  <2>. HIDE DEF at, n, m
  <2>4. CASE at < m
    <3>1. at + 1 \in 1..n /\ heir[at] = o[at + 1]
      BY <1>1, <1>2, <2>3, <2>4
    <3>. QED
      BY <1>3, <3>1 DEF at
  <2>5. CASE ~(at < m)
    <3>1. heir[at] = o[m]
      BY <2>3, <2>5
    <3>. QED
      BY <1>4, <3>1 DEF at
  <2>. QED
    BY <2>4, <2>5
<1>7. "handed_off" \in LeadStages /\ "handed_off" \in HumanLed
  BY DEF LeadStages, HumanLed
<1>8. ASSUME NEW l \in Leads
      PROVE  /\ Row(l) \in Cards
             /\ Row(l).phone = base[l].phone /\ (Row(l).on => base[l].on)
             /\ Row(l).stage \in {base[l].stage, "handed_off"}
             /\ l \notin F => Row(l) = base[l]
             /\ l = o[m] /\ seen[l].stage \notin HumanLed => Row(l).stage = "handed_off"
  <2>1. base[l] \in Cards
    OBVIOUS
  <2>. DEFINE c == base[l]
              s == seen[l]
  <2>2. CASE l \notin F
    BY <1>4, <2>1, <2>2
  <2>. HIDE DEF F, m, heir
  <2>3. CASE l \in F /\ l = o[m]
    <3>1. Row(l) = Silenced(c, s)
      BY <2>3
    <3>. HIDE DEF c, s, Row
    <3>2. c \in Cards
      BY <2>1 DEF c
    <3>3. CASE s.stage \in HumanLed
      BY <3>1, <3>2, <3>3, <2>3 DEF Silenced, c, s
    <3>4. CASE s.stage \notin HumanLed
      <4>1. Row(l) = [c EXCEPT !.stage = "handed_off", !.on = IF s.on THEN FALSE ELSE @]
        BY <3>1, <3>4 DEF Silenced
      <4>2. /\ Row(l) \in Cards /\ Row(l).phone = c.phone /\ (Row(l).on => c.on)
            /\ Row(l).stage = "handed_off"
        BY <1>7, <3>2, <4>1 DEF Cards
      <4>. QED
        BY <4>2, <2>3 DEF c
    <3>. QED
      BY <3>3, <3>4
  <2>4. CASE l \in F /\ l # o[m]
    <3>. DEFINE into == heir[At(l)]
    <3>1. Row(l) = Retired(c, s, into)
      BY <2>4
    <3>2. into \in Leads
      BY <1>6, <2>4
    <3>. HIDE DEF c, s, Row, into
    <3>3. c \in Cards
      BY <2>1 DEF c
    <3>4. Row(l) = [c EXCEPT !.into = into, !.on = IF s.on THEN FALSE ELSE @]
      BY <3>1 DEF Retired
    <3>5. /\ Row(l) \in Cards /\ Row(l).phone = c.phone /\ (Row(l).on => c.on)
          /\ Row(l).stage = c.stage
      BY <3>2, <3>3, <3>4 DEF Cards
    <3>. QED
      BY <2>4, <3>5 DEF c
  <2>. QED
    BY <2>2, <2>3, <2>4
<1>. HIDE DEF Row, m, n, heir
<1>9. /\ card' \in [Leads -> Cards] /\ \A l \in Leads : card'[l] = Row(l)
  BY <1>5, <1>8
<1>10. o[m] \in Leads
  BY <1>4
<1>. F \in SUBSET S /\ o[m] \in F
  BY <1>4
<1>. WITNESS F \in SUBSET S
<1>. WITNESS o[m] \in F
<1>11. tagged' \subseteq tagged \cup F
  BY <1>4, <1>5
<1>. HIDE DEF F
<1>. QED
  BY <1>5, <1>8, <1>9, <1>10, <1>11 DEF FoldedInto

Followed(t) ==
  owner[t] # Nobody /\ owner'[t] # owner[t] =>
    card'[owner[t]].phone = card'[owner'[t]].phone /\ card'[owner[t]].phone # NoPhone

(* The invariant over two states of the leads: who was born stays born,    *)
(* numbers stay, and no chat leaves a human but by the desk or a job.      *)
LEMMA FoldKeeps ==
  ASSUME PeopleInvariant, NEW base \in [Leads -> Cards], NEW S \in SUBSET Born, S # {},
         NEW seen, NEW o \in Orders(S), Fold(base, o, Cardinality(S), seen),
         \A l \in Leads : /\ base[l].stage = card[l].stage /\ base[l].on = card[l].on
                          /\ card[l].phone # NoPhone => base[l].phone = card[l].phone,
         NEW p \in Phones, \A l \in S : base[l].phone = p,
         \A l \in S : seen[l].stage \in HumanLed /\ card[l].stage \notin HumanLed
                        => l \in freed,
         UNCHANGED <<errands, moves>>, sweep' = sweep \/ sweep' = NoSweep
  PROVE  PeopleInvariant' /\ \A t \in Threads : Followed(t)
<1>t. PeopleTypeOK /\ HumanFirst /\ Yielded /\ SweepKnows /\ ErrandsKnown
  BY DEF PeopleInvariant
<1>0. S \in SUBSET Leads /\ Born \subseteq Leads
  BY DEF Born
<1>a. PICK F \in SUBSET S : \E h \in F : FoldedInto(base, seen, F, h)
  BY <1>0, FoldIs, Zenon
<1>b. PICK h \in F : FoldedInto(base, seen, F, h)
  BY <1>a, Zenon
<1>1. /\ owner' = [t \in Threads |-> IF owner[t] \in F THEN h ELSE owner[t]]
      /\ card' \in [Leads -> Cards]
      /\ \A l \in Leads \ F : card'[l] = base[l]
      /\ \A l \in Leads : /\ card'[l].phone = base[l].phone
                          /\ card'[l].on => base[l].on
                          /\ card'[l].stage \in {base[l].stage, "handed_off"}
      /\ seen[h].stage \notin HumanLed => card'[h].stage = "handed_off"
      /\ tagged' \subseteq tagged \cup F
      /\ freed' = StillFree(freed)
  BY <1>b, Zenon DEF FoldedInto
<1>2. /\ owner \in [Threads -> Leads \cup {Nobody}] /\ card \in [Leads -> Cards]
      /\ \A t \in Threads : owner[t] # Nobody => owner[t] \in Born
      /\ tagged \subseteq Born /\ freed \subseteq Leads /\ moves \in 0..MaxMoves
      /\ errands \subseteq [by : {"touch", "turn"}, of : Leads, seen : Cards]
  BY <1>t, Zenon DEF PeopleTypeOK
<1>3. ASSUME NEW l \in Born PROVE l \in Born'
  BY <1>0, <1>1, <1>2, <1>3 DEF Born
<1>4. h \in Leads /\ h \in Born /\ Nobody \notin Leads
  BY <1>0, <1>1, PeopleAssumption
<1>5. ASSUME NEW l \in Leads, card'[l].stage \notin HumanLed
      PROVE  card[l].stage \notin HumanLed /\ (l \in freed => l \in freed')
  BY <1>1, <1>5 DEF HumanLed, StillFree, Quieted
<1>6. PeopleTypeOK'
  <2>1. owner' \in [Threads -> Leads \cup {Nobody}]
    BY <1>1, <1>2, <1>4
  <2>2. \A t \in Threads : owner'[t] # Nobody => owner'[t] \in Born'
    BY <1>1, <1>2, <1>3, <1>4
  <2>3. tagged' \subseteq Born' /\ freed' \subseteq Leads
    BY <1>1, <1>2, <1>3 DEF StillFree
  <2>. QED
    BY <1>1, <1>2, <2>1, <2>2, <2>3 DEF PeopleTypeOK
<1>7. HumanFirst'
  <2>1. ASSUME NEW l \in Leads, card'[l].stage = "manager", card'[l].on
        PROVE  l \in freed'
    <3>1. card[l].stage = "manager" /\ card[l].on
      BY <1>1, <2>1
    <3>2. l \in freed
      BY <1>t, <3>1 DEF HumanFirst
    <3>. QED
      BY <1>1, <2>1, <3>2 DEF StillFree, Quieted
  <2>. QED
    BY <2>1 DEF HumanFirst
<1>8. SweepKnows'
  <2>1. CASE sweep' = NoSweep
    BY <2>1 DEF SweepKnows, Idle, NoSweep
  <2>2. CASE sweep' = sweep /\ ~Idle
    <3>1. /\ sweep.group \subseteq Born /\ sweep.group # {}
          /\ \A l \in sweep.group : sweep.seen[l].stage \in HumanLed
                /\ card[l].stage \notin HumanLed => l \in freed
      BY <1>t, <2>2 DEF SweepKnows
    <3>2. PICK q \in Phones : \A l \in sweep.group : card[l].phone = q
      BY <1>t, <2>2 DEF SweepKnows
    <3>3. \A l \in sweep.group : card'[l].phone = q
      BY <1>0, <1>1, <3>1, <3>2, PeopleAssumption
    <3>4. \A l \in sweep.group : sweep.seen[l].stage \in HumanLed
                /\ card'[l].stage \notin HumanLed => l \in freed'
      BY <1>0, <1>5, <3>1
    <3>5. sweep.group \subseteq Born'
      BY <1>3, <3>1
    <3>. QED
      BY <2>2, <3>1, <3>3, <3>4, <3>5 DEF SweepKnows
  <2>3. CASE sweep' = sweep /\ Idle
    BY <2>3 DEF SweepKnows, Idle, NoSweep
  <2>. QED
    BY <2>1, <2>2, <2>3
<1>9. Yielded'
  <2>1. ASSUME NEW t \in PhoneChats, NEW l \in Leads, owner'[t] = l,
               card'[l].stage \notin HumanLed
        PROVE  l \in freed'
    <3>0. t \in Threads
      BY PeopleAssumption
    <3>1. CASE l = h
      <4>1. seen[h].stage \in HumanLed
        BY <1>1, <2>1, <3>1 DEF HumanLed
      <4>2. h \in freed
        BY <1>1, <1>4, <1>5, <2>1, <3>1, <4>1
      <4>. QED
        BY <1>5, <2>1, <3>1, <4>2
    <3>2. CASE l # h
      <4>1. owner[t] = l
        BY <1>1, <2>1, <3>0, <3>2
      <4>2. l \in freed
        BY <1>t, <1>5, <2>1, <4>1 DEF Yielded
      <4>. QED
        BY <1>5, <2>1, <4>2
    <3>. QED
      BY <3>1, <3>2
  <2>. QED
    BY <2>1 DEF Yielded
<1>10. ASSUME NEW t \in Threads PROVE Followed(t)
  <2>1. ASSUME owner[t] # Nobody, owner'[t] # owner[t]
        PROVE  owner[t] \in F /\ owner'[t] = h
    BY <1>1, <1>2, <2>1
  <2>. QED
    BY <1>0, <1>1, <2>1, PeopleAssumption DEF Followed
<1>11. ErrandsKnown'
  BY <1>t, <1>3 DEF ErrandsKnown
<1>. QED
  BY <1>6, <1>7, <1>8, <1>9, <1>10, <1>11 DEF PeopleInvariant

(* A step that writes one lead, and perhaps gives it chats nobody had.     *)
LEMMA OneCardKeeps ==
  ASSUME PeopleInvariant, NEW l \in Leads, NEW c \in Cards, c.stage # "unborn",
         card' = [card EXCEPT ![l] = c],
         NEW T \in SUBSET Threads, \A t \in T : owner[t] = Nobody,
         owner' = [t \in Threads |-> IF t \in T THEN l ELSE owner[t]],
         T \cap PhoneChats # {} /\ c.stage \notin HumanLed => l \in freed',
         l \in Born /\ c.stage \notin HumanLed =>
           card[l].stage \notin HumanLed \/ l \in freed',
         c.stage = "manager" /\ c.on => l \in freed',
         \A k \in freed : ~Quieted(card'[k]) => k \in freed',
         freed' \subseteq Leads, moves' \in 0..MaxMoves, errands' \subseteq errands,
         l \in Born /\ card[l].phone # NoPhone => c.phone = card[l].phone,
         UNCHANGED <<tagged, sweep>>
  PROVE  PeopleInvariant' /\ \A t \in Threads : Followed(t)
<1>t. PeopleTypeOK /\ HumanFirst /\ Yielded /\ SweepKnows /\ ErrandsKnown
  BY DEF PeopleInvariant
<1>1. /\ owner \in [Threads -> Leads \cup {Nobody}] /\ card \in [Leads -> Cards]
      /\ \A t \in Threads : owner[t] # Nobody => owner[t] \in Born
      /\ tagged \subseteq Born /\ freed \subseteq Leads /\ moves \in 0..MaxMoves
      /\ errands \subseteq [by : {"touch", "turn"}, of : Leads, seen : Cards]
  BY <1>t, Zenon DEF PeopleTypeOK
<1>2. /\ card' \in [Leads -> Cards] /\ card'[l] = c
      /\ \A k \in Leads : k # l => card'[k] = card[k]
  BY <1>1
<1>3. \A k \in Born : k \in Born'
  BY <1>2 DEF Born
<1>4. l \in Born'
  BY <1>2 DEF Born
<1>5. ASSUME NEW k \in Born, card'[k].stage \notin HumanLed
      PROVE  card[k].stage \notin HumanLed \/ k \in freed'
  BY <1>2, <1>5 DEF Born
<1>6. ASSUME NEW k \in freed, card'[k].stage \notin HumanLed PROVE k \in freed'
  BY <1>6 DEF Quieted
<1>7. PeopleTypeOK'
  <2>1. owner' \in [Threads -> Leads \cup {Nobody}]
    BY <1>1
  <2>2. \A t \in Threads : owner'[t] # Nobody => owner'[t] \in Born'
    BY <1>1, <1>3, <1>4
  <2>3. tagged' \subseteq Born'
    BY <1>1, <1>3
  <2>. QED
    BY <1>1, <1>2, <2>1, <2>2, <2>3 DEF PeopleTypeOK
<1>8. HumanFirst'
  <2>1. ASSUME NEW k \in Leads, card'[k].stage = "manager", card'[k].on
        PROVE  k \in freed'
    <3>1. CASE k = l
      BY <1>2, <2>1, <3>1
    <3>2. CASE k # l
      BY <1>t, <1>2, <2>1, <3>2 DEF HumanFirst, Quieted
    <3>. QED
      BY <3>1, <3>2
  <2>. QED
    BY <2>1 DEF HumanFirst
<1>9. SweepKnows'
  <2>1. CASE Idle
    BY <2>1 DEF SweepKnows, Idle, NoSweep
  <2>2. CASE ~Idle
    <3>1. /\ sweep.group \subseteq Born /\ sweep.group # {}
          /\ \A k \in sweep.group : sweep.seen[k].stage \in HumanLed
                /\ card[k].stage \notin HumanLed => k \in freed
      BY <1>t, <2>2 DEF SweepKnows
    <3>2. PICK q \in Phones : \A k \in sweep.group : card[k].phone = q
      BY <1>t, <2>2 DEF SweepKnows
    <3>3. \A k \in sweep.group : card'[k].phone = q
      BY <1>2, <3>1, <3>2, PeopleAssumption DEF Born
    <3>4. \A k \in sweep.group : sweep.seen[k].stage \in HumanLed
                /\ card'[k].stage \notin HumanLed => k \in freed'
      BY <1>5, <1>6, <3>1
    <3>5. sweep.group \subseteq Born'
      BY <1>3, <3>1
    <3>. QED
      BY <3>1, <3>3, <3>4, <3>5 DEF SweepKnows
  <2>. QED
    BY <2>1, <2>2
<1>10. Yielded'
  <2>1. ASSUME NEW t \in PhoneChats, NEW k \in Leads, owner'[t] = k,
               card'[k].stage \notin HumanLed
        PROVE  k \in freed'
    <3>0. t \in Threads
      BY PeopleAssumption
    <3>1. CASE t \in T
      BY <1>2, <2>1, <3>0, <3>1
    <3>2. CASE t \notin T
      <4>1. owner[t] = k /\ k \in Born
        BY <1>1, <2>1, <3>0, <3>2, PeopleAssumption
      <4>. QED
        BY <1>t, <1>5, <1>6, <2>1, <4>1 DEF Yielded
    <3>. QED
      BY <3>1, <3>2
  <2>. QED
    BY <2>1 DEF Yielded
<1>11. \A t \in Threads : Followed(t)
  BY <1>1 DEF Followed
<1>12. ErrandsKnown'
  BY <1>t, <1>3 DEF ErrandsKnown
<1>. QED
  BY <1>7, <1>8, <1>9, <1>10, <1>11, <1>12 DEF PeopleInvariant

(* The same, of a lead that exists and is given no chat.                   *)
LEMMA BornCardKeeps ==
  ASSUME PeopleInvariant, NEW l \in Born, NEW c \in Cards, c.stage # "unborn",
         card' = [card EXCEPT ![l] = c], c.phone = card[l].phone \/ card[l].phone = NoPhone,
         c.stage \notin HumanLed => card[l].stage \notin HumanLed \/ l \in freed',
         c.stage = "manager" /\ c.on => l \in freed',
         \A k \in freed : ~Quieted(card'[k]) => k \in freed',
         freed' \subseteq Leads, moves' \in 0..MaxMoves, errands' \subseteq errands,
         UNCHANGED <<owner, tagged, sweep>>
  PROVE  PeopleInvariant' /\ \A t \in Threads : Followed(t)
<1>1. owner \in [Threads -> Leads \cup {Nobody}] /\ l \in Leads
  BY DEF PeopleInvariant, PeopleTypeOK, Born
<1>2. /\ {} \in SUBSET Threads /\ (\A u \in {} : owner[u] = Nobody)
      /\ {} \cap PhoneChats = {}
      /\ owner' = [u \in Threads |-> IF u \in {} THEN l ELSE owner[u]]
  BY <1>1
<1>. QED
  BY <1>1, <1>2, OneCardKeeps

(* A first message: an old lead by its number, or a new one.               *)
LEMMA FirstMessageKeeps ==
  ASSUME PeopleInvariant, NEW t \in Threads, NEW p \in Phones \cup {NoPhone},
         FirstMessage(t, p)
  PROVE  PeopleInvariant' /\ \A u \in Threads : Followed(u)
<1>t. PeopleTypeOK /\ HumanFirst
  BY DEF PeopleInvariant
<1>1. /\ owner \in [Threads -> Leads \cup {Nobody}] /\ card \in [Leads -> Cards]
      /\ freed \subseteq Leads /\ moves \in 0..MaxMoves
  BY <1>t DEF PeopleTypeOK
<1>. DEFINE X(l) == IF l \in Born THEN Filled(card[l], p) ELSE NewLead(p)
<1>2. PICK l \in Leads :
        /\ owner' = [owner EXCEPT ![t] = l]
        /\ \E after \in {Opened(t, X(l)), Revived(Opened(t, X(l)))} :
             card' = [card EXCEPT ![l] = after]
        /\ freed' = StillFree(freed)
  BY DEF FirstMessage
<1>3. owner[t] = Nobody /\ UNCHANGED <<tagged, sweep, errands, moves>>
  BY DEF FirstMessage
<1>. DEFINE x == X(l)
            c == Opened(t, x)
<1>4. /\ x \in Cards /\ x.stage # "unborn"
      /\ l \in Born => /\ x.stage = card[l].stage /\ x.on = card[l].on
                       /\ card[l].phone # NoPhone => x.phone = card[l].phone
      /\ l \notin Born => x.stage = "funnel"
  <2>1. card[l] \in Cards
    BY <1>1
  <2>2. CASE l \in Born
    <3>1. x = Filled(card[l], p) /\ card[l].stage # "unborn"
      BY <2>2 DEF Born
    <3>. QED
      BY <2>1, <2>2, <3>1 DEF Filled, Cards
  <2>3. CASE l \notin Born
    BY <2>3 DEF NewLead, Cards, LeadStages
  <2>. QED
    BY <2>2, <2>3
<1>. HIDE DEF x
<1>5. /\ c \in Cards /\ c.stage # "unborn" /\ c.phone = x.phone
      /\ t \in PhoneChats => c.stage = "manager"
      /\ c = x \/ (c.stage = "manager" /\ ~c.on)
  <2>1. Claimed(x) \in Cards /\ Claimed(x).stage = "manager" /\ Claimed(x).phone = x.phone
          /\ (Claimed(x) = x \/ ~Claimed(x).on)
    BY <1>4 DEF Claimed, Cards, LeadStages
  <2>2. CASE t \in PhoneChats
    BY <2>1, <2>2 DEF Opened
  <2>3. CASE t \notin PhoneChats
    BY <1>4, <2>3 DEF Opened
  <2>. QED
    BY <2>2, <2>3
<1>6. PICK after \in {c, Revived(c)} : card' = [card EXCEPT ![l] = after]
  BY <1>2 DEF x
<1>. HIDE DEF c
<1>7. /\ after \in Cards /\ after.stage # "unborn" /\ after.phone = x.phone
      /\ c.stage \in HumanLed => after = c
      /\ c.stage \notin HumanLed => after.stage \notin HumanLed
  <2>1. CASE after = c
    BY <1>5, <2>1
  <2>2. CASE after = Revived(c)
    BY <1>5, <2>2 DEF Revived, Cards, LeadStages, HumanLed
  <2>. QED
    BY <1>6, <2>1, <2>2
<1>8. card'[l] = after /\ "manager" \in HumanLed
  BY <1>1, <1>6 DEF HumanLed
<1>9. ASSUME after.stage = "manager", after.on PROVE l \in freed'
  <2>1. l \in Born /\ card[l].stage = "manager" /\ card[l].on
    BY <1>4, <1>5, <1>7, <1>8, <1>9
  <2>2. l \in freed
    BY <1>t, <2>1 DEF HumanFirst
  <2>. QED
    BY <1>2, <1>8, <1>9, <2>2 DEF StillFree, Quieted
<1>10. owner' = [u \in Threads |-> IF u \in {t} THEN l ELSE owner[u]]
  BY <1>1, <1>2
<1>11. {t} \cap PhoneChats # {} => after.stage \in HumanLed
  BY <1>5, <1>7, <1>8
<1>12. l \in Born /\ after.stage \notin HumanLed => card[l].stage \notin HumanLed
  BY <1>4, <1>5, <1>7, <1>8
<1>13. /\ {t} \in SUBSET Threads /\ \A u \in {t} : owner[u] = Nobody
       /\ \A k \in freed : ~Quieted(card'[k]) => k \in freed'
       /\ freed' \subseteq Leads /\ moves' \in 0..MaxMoves /\ errands' \subseteq errands
       /\ l \in Born /\ card[l].phone # NoPhone => after.phone = card[l].phone
       /\ UNCHANGED <<tagged, sweep>>
  BY <1>1, <1>2, <1>3, <1>4, <1>7 DEF StillFree
<1>. QED
  BY <1>6, <1>7, <1>9, <1>10, <1>11, <1>12, <1>13, OneCardKeeps

(* A known chat: the lead writes again, or types a number.                 *)
LEMMA KnownChatKeeps ==
  ASSUME PeopleInvariant, NEW t \in Threads,
         WritesAgain(t) \/ \E p \in Phones : TypesNumber(t, p)
  PROVE  PeopleInvariant' /\ \A u \in Threads : Followed(u)
<1>t. PeopleTypeOK /\ HumanFirst
  BY DEF PeopleInvariant
<1>1. /\ owner \in [Threads -> Leads \cup {Nobody}] /\ card \in [Leads -> Cards]
      /\ freed \subseteq Leads /\ moves \in 0..MaxMoves
      /\ \A u \in Threads : owner[u] # Nobody => owner[u] \in Born
  BY <1>t DEF PeopleTypeOK
<1>. DEFINE l == owner[t]
<1>2. /\ l \in Born /\ UNCHANGED <<owner, tagged, sweep, errands, freed, moves>>
      /\ \/ card' = [card EXCEPT ![l] = Revived(@)]
         \/ \E p \in Phones : /\ card[l].phone = NoPhone
                              /\ card' = [card EXCEPT ![l] = Filled(@, p)]
  BY <1>1 DEF WritesAgain, TypesNumber
<1>. HIDE DEF l
<1>3. l \in Leads /\ card[l] \in Cards /\ card[l].stage # "unborn"
  BY <1>1, <1>2 DEF Born
<1>4. PICK c \in Cards :
        /\ card' = [card EXCEPT ![l] = c] /\ c.stage # "unborn"
        /\ c.phone = card[l].phone \/ card[l].phone = NoPhone
        /\ c.stage \notin HumanLed <=> card[l].stage \notin HumanLed
        /\ c.stage \in HumanLed => c.stage = card[l].stage /\ c.on = card[l].on
  <2>1. CASE card' = [card EXCEPT ![l] = Revived(@)]
    <3>1. /\ Revived(card[l]) \in Cards /\ Revived(card[l]).stage # "unborn"
          /\ Revived(card[l]).phone = card[l].phone
          /\ card[l].stage \in HumanLed => Revived(card[l]) = card[l]
          /\ card[l].stage \notin HumanLed => Revived(card[l]).stage \notin HumanLed
      BY <1>3 DEF Revived, Cards, LeadStages, HumanLed
    <3>. QED
      BY <2>1, <3>1
  <2>2. ASSUME NEW p \in Phones, card[l].phone = NoPhone,
               card' = [card EXCEPT ![l] = Filled(@, p)]
        PROVE  \E c \in Cards : card' = [card EXCEPT ![l] = c] /\ c.stage = card[l].stage
                                /\ c.on = card[l].on
    <3>1. /\ Filled(card[l], p) \in Cards /\ Filled(card[l], p).stage = card[l].stage
          /\ Filled(card[l], p).on = card[l].on
      BY <1>3 DEF Filled, Cards
    <3>. QED
      BY <2>2, <3>1
  <2>. QED
    BY <1>2, <1>3, <2>1, <2>2
<1>5. c.stage = "manager" /\ c.on => l \in freed
  BY <1>t, <1>3, <1>4 DEF HumanFirst, HumanLed
<1>. QED
  BY <1>1, <1>2, <1>4, <1>5, BornCardKeeps

(* The jobs: they read, read again, and write.                             *)
LEMMA ErrandsKeep ==
  ASSUME PeopleInvariant,
         \/ \E l \in Leads : ReadsLead(l, "touch") \/ ReadsLead(l, "turn")
         \/ \E j \in errands : ReadsAnew(j) \/ WritesLead(j)
  PROVE  PeopleInvariant' /\ \A u \in Threads : Followed(u)
<1>t. PeopleTypeOK /\ HumanFirst /\ Yielded /\ SweepKnows /\ ErrandsKnown
  BY DEF PeopleInvariant
<1>1. /\ owner \in [Threads -> Leads \cup {Nobody}] /\ card \in [Leads -> Cards]
      /\ freed \subseteq Leads /\ moves \in 0..MaxMoves /\ MaxMoves \in Nat
      /\ \A u \in Threads : owner[u] # Nobody => owner[u] \in Born
      /\ errands \subseteq [by : {"touch", "turn"}, of : Leads, seen : Cards]
  BY <1>t, PeopleAssumption DEF PeopleTypeOK
<1>2. ASSUME NEW j, j \in [by : {"touch", "turn"}, of : Leads, seen : Cards],
             j.of \in Born, errands' \subseteq errands \cup {j}, moves' \in 0..MaxMoves,
             UNCHANGED <<owner, card, tagged, sweep, freed>>
      PROVE  PeopleInvariant' /\ \A u \in Threads : Followed(u)
  <2>1. Born' = Born
    BY <1>2 DEF Born
  <2>2. PeopleTypeOK' /\ ErrandsKnown'
    BY <1>t, <1>2, <2>1 DEF PeopleTypeOK, ErrandsKnown
  <2>3. HumanFirst' /\ Yielded' /\ SweepKnows'
    BY <1>t, <1>2, <2>1 DEF HumanFirst, Yielded, SweepKnows, Idle, NoSweep
  <2>4. \A u \in Threads : Followed(u)
    BY <1>2 DEF Followed
  <2>. QED
    BY <2>2, <2>3, <2>4 DEF PeopleInvariant
<1>3. ASSUME NEW l \in Leads, NEW by \in {"touch", "turn"}, ReadsLead(l, by)
      PROVE  PeopleInvariant' /\ \A u \in Threads : Followed(u)
  <2>1. /\ l \in Born /\ moves < MaxMoves /\ moves' = moves + 1
        /\ errands' = errands \cup {[by |-> by, of |-> l, seen |-> card[l]]}
        /\ UNCHANGED <<owner, card, tagged, sweep, freed>>
    BY <1>1, <1>3, PeopleAssumption DEF ReadsLead
  <2>2. PICK j : j = [by |-> by, of |-> l, seen |-> card[l]]
    OBVIOUS
  <2>3. j \in [by : {"touch", "turn"}, of : Leads, seen : Cards] /\ j.of = l
    BY <1>1, <2>2
  <2>. QED
    BY <1>1, <1>2, <2>1, <2>2, <2>3
<1>4. ASSUME NEW i \in errands, ReadsAnew(i)
      PROVE  PeopleInvariant' /\ \A u \in Threads : Followed(u)
  <2>1. PICK j : j = [i EXCEPT !.seen = card[i.of]]
    OBVIOUS
  <2>2. /\ errands' = (errands \ {i}) \cup {j}
        /\ UNCHANGED <<owner, card, tagged, sweep, freed, moves>>
    BY <1>4, <2>1 DEF ReadsAnew
  <2>3. j \in [by : {"touch", "turn"}, of : Leads, seen : Cards] /\ j.of = i.of
    BY <1>1, <2>1
  <2>4. j.of \in Born
    BY <1>t, <2>3 DEF ErrandsKnown
  <2>. QED
    BY <1>1, <1>2, <2>2, <2>3, <2>4
<1>5. ASSUME NEW j \in errands, WritesLead(j)
      PROVE  PeopleInvariant' /\ \A u \in Threads : Followed(u)
  <2>. DEFINE l == j.of
              c == card[l]
              theirs == IF c.stage \in HumanLed THEN {l} ELSE {}
  <2>1. /\ l \in Born /\ l \in Leads /\ j.by \in {"touch", "turn"} /\ j.seen \in Cards
        /\ c \in Cards /\ c.stage # "unborn"
    BY <1>t, <1>1 DEF ErrandsKnown, Born
  <2>2. PICK after \in {c} \cup (IF j.by = "touch" THEN AfterTouch(c, j.seen)
                                 ELSE AfterParking(c, j.seen)) :
          /\ card' = [card EXCEPT ![l] = after]
          /\ freed' = StillFree(IF after = c THEN freed ELSE freed \cup theirs)
    BY <1>5 DEF WritesLead
  <2>3. errands' \subseteq errands /\ UNCHANGED <<owner, tagged, sweep, moves>>
    BY <1>5 DEF WritesLead
  <2>. HIDE DEF l, c
  <2>4. after \in Cards /\ after.stage # "unborn" /\ after.phone = c.phone
    <3>1. CASE after = c
      BY <2>1, <3>1
    <3>2. CASE after \in AfterTouch(c, j.seen)
      BY <2>1, <3>2 DEF AfterTouch, Cards, LeadStages
    <3>3. CASE after \in AfterParking(c, j.seen)
      BY <2>1, <3>3 DEF AfterParking, Cards, LeadStages
    <3>. QED
      BY <2>2, <3>1, <3>2, <3>3
  <2>5. card'[l] = after
    BY <1>1, <2>1, <2>2
  <2>6. \A k \in freed : ~Quieted(card'[k]) => k \in freed'
    BY <2>2 DEF StillFree
  <2>7. freed' \subseteq Leads
    BY <1>1, <2>1, <2>2 DEF StillFree
  <2>8. after # c /\ c.stage \in HumanLed /\ ~Quieted(after) => l \in freed'
    BY <2>2, <2>5 DEF StillFree
  <2>9. after.stage \notin HumanLed => c.stage \notin HumanLed \/ l \in freed'
    BY <2>8 DEF Quieted
  <2>10. ASSUME after.stage = "manager", after.on PROVE l \in freed'
    <3>1. CASE after = c
      <4>1. l \in freed
        BY <1>t, <2>1, <2>10, <3>1 DEF HumanFirst, c
      <4>. QED
        BY <2>5, <2>6, <2>10, <4>1 DEF Quieted
    <3>2. CASE after # c
      <4>1. c.stage = "manager"
        <5>1. CASE after \in AfterTouch(c, j.seen)
          BY <2>1, <2>10, <5>1 DEF AfterTouch, Cards
        <5>2. CASE after \in AfterParking(c, j.seen)
          BY <2>1, <2>10, <5>2 DEF AfterParking, Cards
        <5>. QED
          BY <2>2, <3>2, <5>1, <5>2
      <4>. QED
        BY <2>8, <2>10, <3>2, <4>1 DEF Quieted, HumanLed
    <3>. QED
      BY <3>1, <3>2
  <2>. QED
    BY <1>1, <2>1, <2>2, <2>3, <2>4, <2>6, <2>7, <2>9, <2>10, BornCardKeeps DEF c
<1>. QED
  BY <1>3, <1>4, <1>5

(* The connector names a number: all who have it are folded.               *)
LEMMA NamesNumberKeeps ==
  ASSUME PeopleInvariant, NEW t \in Threads, NEW p \in Phones, NamesNumber(t, p)
  PROVE  PeopleInvariant' /\ \A u \in Threads : Followed(u)
<1>t. PeopleTypeOK /\ HumanFirst
  BY DEF PeopleInvariant
<1>1. /\ owner \in [Threads -> Leads \cup {Nobody}] /\ card \in [Leads -> Cards]
      /\ \A u \in Threads : owner[u] # Nobody => owner[u] \in Born
  BY <1>t DEF PeopleTypeOK
<1>. DEFINE l == owner[t]
            base == [card EXCEPT ![l] = Filled(@, p)]
            S == ByPhone(p) \cup {l}
<1>2. /\ l # Nobody /\ card[l].phone = NoPhone
      /\ \E o \in Orders(S) :
           o[1] = l /\ Fold(base, o, Cardinality(ByPhone(p)) + 1, card)
      /\ UNCHANGED <<sweep, errands, moves>>
  BY Zenon DEF NamesNumber
<1>3. l \in Leads /\ l \in Born
  BY <1>1, <1>2
<1>4. p # NoPhone /\ l \notin ByPhone(p) /\ ByPhone(p) \subseteq Born
        /\ Born \subseteq Leads
  BY <1>2, PeopleAssumption DEF ByPhone, Born
<1>5. Cardinality(S) = Cardinality(ByPhone(p)) + 1
  <2>1. IsFiniteSet(ByPhone(p))
    BY <1>4, PeopleAssumption, FS_Subset
  <2>. QED
    BY <1>4, <2>1, FS_AddElement
<1>6. PICK o \in Orders(S) : Fold(base, o, Cardinality(S), card)
  BY <1>2, <1>5
<1>7. card[l] \in Cards /\ Filled(card[l], p) = [card[l] EXCEPT !.phone = p]
  BY <1>1, <1>2, <1>3 DEF Filled
<1>8. /\ base \in [Leads -> Cards] /\ base[l].phone = p
      /\ base[l].stage = card[l].stage /\ base[l].on = card[l].on
      /\ \A k \in Leads : k # l => base[k] = card[k]
  <2>1. [card[l] EXCEPT !.phone = p] \in Cards
    BY <1>7 DEF Cards
  <2>2. base = [card EXCEPT ![l] = [card[l] EXCEPT !.phone = p]]
    BY <1>7
  <2>3. base[l] = [card[l] EXCEPT !.phone = p]
    BY <1>1, <1>3, <2>2
  <2>. QED
    BY <1>1, <1>3, <1>7, <2>1, <2>2, <2>3 DEF Cards
<1>9. \A k \in Leads : /\ base[k].stage = card[k].stage /\ base[k].on = card[k].on
                       /\ card[k].phone # NoPhone => base[k].phone = card[k].phone
  BY <1>2, <1>8
<1>10. \A k \in S : base[k].phone = p
  BY <1>4, <1>8 DEF ByPhone
<1>11. \A k \in S : card[k].stage \in HumanLed /\ card[k].stage \notin HumanLed
                     => k \in freed
  OBVIOUS
<1>12. S \in SUBSET Born /\ S # {} /\ UNCHANGED <<errands, moves>> /\ sweep' = sweep
  BY <1>2, <1>3, <1>4
<1>. HIDE DEF S, base
<1>. QED
  BY <1>6, <1>8, <1>9, <1>10, <1>11, <1>12, FoldKeeps, Zenon

(* The sweep: it reads, and folds or fails.                                *)
LEMMA SweepKeeps ==
  ASSUME PeopleInvariant, (\E p \in Phones : SweepReads(p)) \/ SweepFolds \/ SweepFails
  PROVE  PeopleInvariant' /\ \A u \in Threads : Followed(u)
<1>t. PeopleTypeOK /\ HumanFirst /\ Yielded /\ SweepKnows /\ ErrandsKnown
  BY DEF PeopleInvariant
<1>1. card \in [Leads -> Cards]
  BY <1>t DEF PeopleTypeOK
<1>2. ASSUME UNCHANGED <<owner, card, tagged, errands, freed, moves>>, SweepKnows'
      PROVE  PeopleInvariant' /\ \A u \in Threads : Followed(u)
  <2>1. PeopleTypeOK' /\ HumanFirst' /\ Yielded' /\ ErrandsKnown'
    BY <1>t, <1>2 DEF PeopleTypeOK, HumanFirst, Yielded, ErrandsKnown, Born
  <2>2. \A u \in Threads : Followed(u)
    BY <1>2 DEF Followed
  <2>. QED
    BY <1>2, <2>1, <2>2 DEF PeopleInvariant
<1>3. ASSUME NEW p \in Phones, SweepReads(p)
      PROVE  PeopleInvariant' /\ \A u \in Threads : Followed(u)
  <2>1. /\ Cardinality(Group(p)) > 1 /\ sweep'.group = Group(p) /\ sweep'.seen = card
        /\ UNCHANGED <<owner, card, tagged, errands, freed, moves>>
    BY <1>3 DEF SweepReads
  <2>2. Group(p) \subseteq Born /\ \A l \in Group(p) : card[l].phone = p
    BY DEF Group, GroupIn, Born
  <2>3. Group(p) # {}
    BY <2>1, FS_EmptySet
  <2>5. Born' = Born
    BY <2>1 DEF Born
  <2>6. SweepKnows'
    BY <2>1, <2>2, <2>3, <2>5 DEF SweepKnows
  <2>. QED
    BY <1>2, <2>1, <2>6
<1>4. CASE SweepFails
  <2>1. SweepKnows'
    BY <1>4 DEF SweepFails, SweepKnows, Idle, NoSweep
  <2>. QED
    BY <1>2, <1>4, <2>1 DEF SweepFails
<1>5. CASE SweepFolds
  <2>. DEFINE S == sweep.group
  <2>1. /\ ~Idle /\ sweep' = NoSweep /\ UNCHANGED <<errands, moves>>
        /\ \E o \in Orders(S) : Fold(card, o, Cardinality(S), sweep.seen)
    BY <1>5, Zenon DEF SweepFolds
  <2>2. PICK o \in Orders(S) : Fold(card, o, Cardinality(S), sweep.seen)
    BY <2>1
  <2>3. /\ S \in SUBSET Born /\ S # {}
        /\ \A l \in S : sweep.seen[l].stage \in HumanLed /\ card[l].stage \notin HumanLed
                       => l \in freed
    BY <1>t, <2>1 DEF SweepKnows
  <2>4. PICK p \in Phones : \A l \in S : card[l].phone = p
    BY <1>t, <2>1 DEF SweepKnows
  <2>. HIDE DEF S
  <2>. QED
    BY <1>1, <2>1, <2>2, <2>3, <2>4, FoldKeeps, Zenon
<1>. QED
  BY <1>3, <1>4, <1>5

(* The needs cloud, and the desk.                                          *)
LEMMA DeskKeeps ==
  ASSUME PeopleInvariant, NEW l \in Leads,
         \/ Classifies(l) \/ SwitchesOn(l)
         \/ \E s \in LeadStages \ {"unborn"} : Moves(l, s)
  PROVE  PeopleInvariant' /\ \A u \in Threads : Followed(u)
<1>t. PeopleTypeOK /\ HumanFirst /\ Yielded /\ SweepKnows /\ ErrandsKnown
  BY DEF PeopleInvariant
<1>1. /\ owner \in [Threads -> Leads \cup {Nobody}] /\ card \in [Leads -> Cards]
      /\ freed \subseteq Leads /\ moves \in 0..MaxMoves /\ MaxMoves \in Nat
  BY <1>t, PeopleAssumption DEF PeopleTypeOK
<1>2. CASE Classifies(l)
  <2>1. l \in Born /\ tagged' = tagged \cup {l}
          /\ UNCHANGED <<owner, card, sweep, errands, freed, moves>>
    BY <1>2 DEF Classifies
  <2>2. /\ PeopleTypeOK' /\ HumanFirst' /\ Yielded' /\ SweepKnows' /\ ErrandsKnown'
    BY <1>t, <2>1 DEF PeopleTypeOK, HumanFirst, Yielded, SweepKnows, ErrandsKnown, Born,
                      Idle, NoSweep
  <2>. QED
    BY <2>1, <2>2 DEF PeopleInvariant, Followed
<1>4. l \in Live => l \in Born
  BY DEF Live
<1>5. CASE SwitchesOn(l)
  <2>. DEFINE c == [card[l] EXCEPT !.on = TRUE]
  <2>1. /\ l \in Born /\ card' = [card EXCEPT ![l] = c] /\ freed' = freed \cup {l}
        /\ moves < MaxMoves /\ moves' = moves + 1
        /\ UNCHANGED <<owner, tagged, sweep, errands>>
    BY <1>4, <1>5 DEF SwitchesOn
  <2>2. c \in Cards /\ c.stage = card[l].stage /\ c.phone = card[l].phone
    BY <1>1 DEF Cards
  <2>3. c.stage # "unborn"
    BY <2>1, <2>2 DEF Born
  <2>. HIDE DEF c
  <2>4. moves' \in 0..MaxMoves /\ freed' \subseteq Leads /\ errands' \subseteq errands
    BY <1>1, <2>1
  <2>. QED
    BY <2>1, <2>2, <2>3, <2>4, BornCardKeeps
<1>6. ASSUME NEW s \in LeadStages \ {"unborn"}, Moves(l, s)
      PROVE  PeopleInvariant' /\ \A u \in Threads : Followed(u)
  <2>. DEFINE on == IF s = "manager" THEN FALSE
                    ELSE IF s = "funnel" THEN TRUE ELSE card[l].on
              c == [card[l] EXCEPT !.stage = s, !.on = on]
  <2>1. /\ l \in Born
        /\ freed' = StillFree(IF s \in HumanLed THEN freed ELSE freed \cup {l})
        /\ moves < MaxMoves /\ moves' = moves + 1
        /\ UNCHANGED <<owner, tagged, sweep, errands>>
    BY <1>4, <1>6 DEF Moves
  <2>2. card' = [card EXCEPT ![l] = c]
    BY <1>1, <1>6 DEF Moves
  <2>3. /\ c \in Cards /\ c.stage = s /\ c.phone = card[l].phone /\ c.on = on
    BY <1>1 DEF Cards
  <2>4. ~(c.stage = "manager" /\ c.on)
    BY <2>3
  <2>5. card'[l] = c
    BY <1>1, <2>2
  <2>. HIDE DEF c, on
  <2>6. s \notin HumanLed => l \in freed'
    BY <2>1, <2>3, <2>5 DEF StillFree, Quieted
  <2>7. /\ moves' \in 0..MaxMoves /\ freed' \subseteq Leads /\ errands' \subseteq errands
        /\ \A k \in freed : ~Quieted(card'[k]) => k \in freed'
    BY <1>1, <2>1 DEF StillFree
  <2>. QED
    BY <2>1, <2>2, <2>3, <2>4, <2>6, <2>7, BornCardKeeps
<1>. QED
  BY <1>2, <1>5, <1>6

(* Nobody is born and nobody speaks.                                       *)
LEMMA PeopleBegin == PeopleInit => PeopleInvariant
<1>. SUFFICES ASSUME PeopleInit PROVE PeopleInvariant
  OBVIOUS
<1>1. Unborn \in Cards /\ Unborn.stage = "unborn" /\ ~Unborn.on
  BY DEF Unborn, Cards, LeadStages
<1>2. Born = {}
  BY <1>1 DEF PeopleInit, Born
<1>3. PeopleTypeOK
  BY <1>1, <1>2, PeopleAssumption DEF PeopleInit, PeopleTypeOK
<1>4. HumanFirst /\ SweepKnows /\ ErrandsKnown
  BY <1>1 DEF PeopleInit, HumanFirst, SweepKnows, ErrandsKnown, Idle
<1>5. Yielded
  BY PeopleAssumption DEF PeopleInit, Yielded
<1>. QED
  BY <1>3, <1>4, <1>5 DEF PeopleInvariant

(* The invariant holds in every state, and each step obeys HistoryStays.    *)
LEMMA PeopleInduction ==
  PeopleRuns => []PeopleInvariant /\ HistoryStays
<1>1. ASSUME PeopleInvariant, [PeopleNext]_peopleVars
      PROVE  PeopleInvariant' /\ \A u \in Threads : Followed(u)
  <2>1. CASE UNCHANGED peopleVars
    BY <1>1, <2>1 DEF peopleVars, PeopleInvariant, PeopleTypeOK, HumanFirst,
                      Yielded, SweepKnows, ErrandsKnown, Born, Idle, NoSweep, Followed
  <2>2. CASE PeopleNext
    BY <1>1, <2>2, FirstMessageKeeps, KnownChatKeeps, NamesNumberKeeps,
       SweepKeeps, ErrandsKeep, DeskKeeps, Zenon DEF PeopleNext
  <2>. QED
    BY <1>1, <2>1, <2>2
<1>2. ASSUME PeopleInvariant, [PeopleNext]_peopleVars
      PROVE  [\A t \in Threads :
                owner[t] # Nobody /\ owner'[t] # owner[t] =>
                  /\ card'[owner[t]].phone = card'[owner'[t]].phone
                  /\ card'[owner[t]].phone # NoPhone]_peopleVars
  BY <1>1, <1>2 DEF Followed
<1>. QED
  BY <1>1, <1>2, PeopleBegin, PTL DEF PeopleRuns, HistoryStays

(* What the invariant says of the phones of managers.                      *)
LEMMA PeopleShow == PeopleInvariant => OneVoice
BY DEF PeopleInvariant, HumanFirst, Yielded, OneVoice, Speaks, HumanLed

(* "Where a manager writes from their own phone", in words of the code: no *)
(* merge, sweep, number or message puts the bot into such a chat unless    *)
(* the desk has (_claim_for_manager, _silence_bot), or a touch or a        *)
(* parking in flight has undone the claim.                                 *)
THEOREM OneVoiceAlways == PeopleRuns => []OneVoice
BY PeopleInduction, PeopleShow, PTL

(* A chat with a lead goes over to another record only if the two have one *)
(* number (identity.py), in a fold of any order and size.                  *)
THEOREM HistoryKept == PeopleRuns => HistoryStays
BY PeopleInduction, PTL
================================================================================
