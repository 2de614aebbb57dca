---------------------------- MODULE CrmPushProofs -----------------------------
(***************************************************************************)
(* What the write-back keeps, for any number of leads and of pushers'      *)
(* steps: types, the truth of the record, at most one event of a kind, and *)
(* the bound on failures.                                                  *)
(***************************************************************************)
EXTENDS CrmPush, TLAPS

\* A pusher that has not called the CRM has nothing uncommitted.
Quiet ==
  /\ sweep.pc = "idle" => sweep = IdleSweep
  /\ \A l \in Leads : flip[l].pc # "called" => flip[l].note = Blank
\* What the CRM has of a lead is on record, or lost, or a race.
Balance ==
  \A l \in Leads, k \in Kinds :
    crm[l][k] <= lost[l][k] + races[l][k]
                   + (IF k \in Recorded(l) THEN 1 ELSE 0)

\* A pusher that may still add a failure has seen fewer than the cap, and the
\* other one can add at most one in between.
SweepTries(l) == sweep.todo[l] # "none" \/ sweep.notes[l].failures = 1
FlipTries(l)  == flip[l].pc = "cleared" \/ flip[l].note.failures = 1
Attempts ==
  \A l \in Leads :
    /\ sweep.notes[l].failures <= 1 /\ flip[l].note.failures <= 1
    /\ sweep.notes[l].failures = 1 =>
         sweep.notes[l].resting /\ sweep.todo[l] = "none"
    /\ SweepTries(l) /\ FlipTries(l) => journal[l].failures < FailureCap
    /\ SweepTries(l) \/ FlipTries(l) => journal[l].failures <= FailureCap
    /\ journal[l].failures <= FailureCap + 1

LEMMA Bounds == /\ MaxTurns \in Nat /\ MaxCrashes \in Nat
                /\ FailureCap \in Nat /\ Batch \in Nat
BY CrmAssumption

LEMMA BlankType == Blank \in Entry
BY DEF Blank, Entry

\* What two sessions know together is an entry.
LEMMA MergeType ==
  ASSUME NEW j \in Entry, NEW own \in Entry
  PROVE  Merge(j, own) \in Entry
BY DEF Merge, Entry

\* A call leaves an entry.
LEMMA NoteType ==
  ASSUME NEW own \in Entry, NEW marker \in {"warm", "handoff"},
         NEW kind \in Kinds, NEW ok \in BOOLEAN
  PROVE  /\ Note(own, marker, kind, ok) \in Entry
         /\ Note(own, marker, kind, ok).kinds =
              IF ok THEN own.kinds \cup {kind} ELSE own.kinds
         /\ Note(own, marker, kind, ok).failures =
              IF ok THEN own.failures ELSE own.failures + 1
         /\ ~ok => Note(own, marker, kind, ok).resting = TRUE
         /\ own.resting = TRUE => Note(own, marker, kind, ok).resting = TRUE
<1>1. Success(marker, kind) \in Entry /\ Failure \in Entry
  BY DEF Success, Failure, Entry
<1>2. Note(own, marker, kind, ok) \in Entry
  BY <1>1, MergeType DEF Note
<1>3. CASE ok
  BY <1>2, <1>3 DEF Note, Merge, Success, Entry
<1>4. CASE ~ok
  BY <1>2, <1>4 DEF Note, Merge, Failure, Entry
<1>5. QED
  BY <1>3, <1>4

\* What a call does to the counts of the CRM.
LEMMA CallsCount ==
  ASSUME TypeOK, NEW l \in Leads, NEW kind \in Kinds, NEW ok \in BOOLEAN,
         NEW written \in BOOLEAN, NEW other, Calls(l, kind, ok, written, other)
  PROVE  /\ crm' \in [Leads -> [Kinds -> Nat]]
         /\ lost' \in [Leads -> [Kinds -> Nat]]
         /\ races' \in [Leads -> [Kinds -> Nat]]
         /\ \A m \in Leads, k \in Kinds : m # l \/ k # kind =>
              /\ crm'[m][k] = crm[m][k] /\ lost'[m][k] = lost[m][k]
              /\ races'[m][k] = races[m][k]
         /\ crm'[l][kind] >= crm[l][kind]
         /\ ok => crm'[l][kind] = crm[l][kind] + 1 /\ lost'[l][kind] = lost[l][kind]
         /\ ok /\ kind \in other => races'[l][kind] = races[l][kind] + 1
         /\ ok /\ kind \notin other => races'[l][kind] = races[l][kind]
         /\ ~ok => crm'[l][kind] - crm[l][kind] = lost'[l][kind] - lost[l][kind]
                   /\ races'[l][kind] >= races[l][kind]
<1>1. ASSUME NEW f \in [Leads -> [Kinds -> Nat]]
      PROVE  /\ Count(f, l, kind, 1) \in [Leads -> [Kinds -> Nat]]
             /\ Count(f, l, kind, 1)[l][kind] = f[l][kind] + 1
             /\ \A m \in Leads, k \in Kinds : m # l \/ k # kind =>
                  Count(f, l, kind, 1)[m][k] = f[m][k]
  BY DEF Count
<1>2. /\ crm \in [Leads -> [Kinds -> Nat]] /\ lost \in [Leads -> [Kinds -> Nat]]
      /\ races \in [Leads -> [Kinds -> Nat]]
  BY DEF TypeOK
<1>3. /\ ok => written
      /\ crm' = IF written THEN Count(crm, l, kind, 1) ELSE crm
      /\ lost' = IF written /\ ~ok THEN Count(lost, l, kind, 1) ELSE lost
      /\ races' = IF written /\ kind \in other THEN Count(races, l, kind, 1)
                  ELSE races
  BY DEF Calls, Heard
<1>4. crm[l][kind] \in Nat /\ lost[l][kind] \in Nat /\ races[l][kind] \in Nat
  BY <1>2
<1>5. /\ crm' \in [Leads -> [Kinds -> Nat]]
      /\ written => crm'[l][kind] = crm[l][kind] + 1
      /\ ~written => crm'[l][kind] = crm[l][kind]
      /\ \A m \in Leads, k \in Kinds : m # l \/ k # kind => crm'[m][k] = crm[m][k]
  <2>1. CASE written
    <3>1. crm' = Count(crm, l, kind, 1)
      BY <1>3, <2>1
    <3>2. QED
      BY <3>1, <2>1, <1>1, <1>2
  <2>2. CASE ~(written)
    <3>1. crm' = crm
      BY <1>3, <2>2
    <3>2. QED
      BY <3>1, <2>2, <1>2
  <2>3. QED
    BY <2>1, <2>2
<1>6. /\ lost' \in [Leads -> [Kinds -> Nat]]
      /\ written /\ ~ok => lost'[l][kind] = lost[l][kind] + 1
      /\ ~(written /\ ~ok) => lost'[l][kind] = lost[l][kind]
      /\ \A m \in Leads, k \in Kinds : m # l \/ k # kind => lost'[m][k] = lost[m][k]
  <2>1. CASE written /\ ~ok
    <3>1. lost' = Count(lost, l, kind, 1)
      BY <1>3, <2>1
    <3>2. QED
      BY <3>1, <2>1, <1>1, <1>2
  <2>2. CASE ~(written /\ ~ok)
    <3>1. lost' = lost
      BY <1>3, <2>2
    <3>2. QED
      BY <3>1, <2>2, <1>2
  <2>3. QED
    BY <2>1, <2>2
<1>7. /\ races' \in [Leads -> [Kinds -> Nat]]
      /\ written /\ kind \in other => races'[l][kind] = races[l][kind] + 1
      /\ ~(written /\ kind \in other) => races'[l][kind] = races[l][kind]
      /\ \A m \in Leads, k \in Kinds : m # l \/ k # kind => races'[m][k] = races[m][k]
  <2>1. CASE written /\ kind \in other
    <3>1. races' = Count(races, l, kind, 1)
      BY <1>3, <2>1
    <3>2. QED
      BY <3>1, <2>1, <1>1, <1>2
  <2>2. CASE ~(written /\ kind \in other)
    <3>1. races' = races
      BY <1>3, <2>2
    <3>2. QED
      BY <3>1, <2>2, <1>2
  <2>3. QED
    BY <2>1, <2>2
<1>8. \A m \in Leads, k \in Kinds : m # l \/ k # kind =>
        /\ crm'[m][k] = crm[m][k] /\ lost'[m][k] = lost[m][k]
        /\ races'[m][k] = races[m][k]
  BY ONLY <1>5, <1>6, <1>7
<1>9. /\ crm'[l][kind] >= crm[l][kind]
      /\ ok => crm'[l][kind] = crm[l][kind] + 1 /\ lost'[l][kind] = lost[l][kind]
      /\ ~ok => crm'[l][kind] - crm[l][kind] = lost'[l][kind] - lost[l][kind]
  BY ONLY <1>3, <1>4, <1>5, <1>6, written \in BOOLEAN, ok \in BOOLEAN
<1>10. /\ ok /\ kind \in other => races'[l][kind] = races[l][kind] + 1
       /\ ok /\ kind \notin other => races'[l][kind] = races[l][kind]
       /\ ~ok => races'[l][kind] >= races[l][kind]
  BY ONLY <1>3, <1>4, <1>7, written \in BOOLEAN, ok \in BOOLEAN
<1>11. QED
  BY ONLY <1>5, <1>6, <1>7, <1>8, <1>9, <1>10

\* Everything but the balance of the counts.
LEMMA InitAll == Init => TypeOK /\ Quiet /\ Balance /\ RecordTellsTruth
<1> SUFFICES ASSUME Init PROVE TypeOK /\ Quiet /\ Balance /\ RecordTellsTruth
  OBVIOUS
<1>1. NewLead \in LeadType
  BY Bounds DEF NewLead, LeadType
<1>2. IdleSweep \in SweepType /\ IdleFlip \in FlipType
  BY BlankType DEF IdleSweep, IdleFlip, SweepType, FlipType
<1>3. None \in [Leads -> [Kinds -> Nat]]
  BY DEF None
<1>4. TypeOK
  BY <1>1, <1>2, <1>3, BlankType, Bounds DEF Init, TypeOK
<1>5. Quiet
  BY DEF Init, Quiet, IdleSweep, IdleFlip
<1>6. \A l \in Leads : Recorded(l) = {}
  BY DEF Init, Recorded, IdleSweep, IdleFlip, Blank
<1>7. Balance /\ RecordTellsTruth
  BY <1>6 DEF Init, None, Balance, RecordTellsTruth
<1>8. QED
  BY <1>4, <1>5, <1>7

\* Listing leads gives the sweep a list.
LEMMA ListType ==
  ASSUME NEW batch \in SUBSET Leads, NEW kind \in [Leads -> Kinds]
  PROVE  List(batch, kind) \in [Leads -> Kinds \cup {"none"}]
BY DEF List

LEMMA EventTypeType ==
  ASSUME NEW x PROVE EventType(x) \in Kinds
BY DEF EventType, Kinds

\* Every step leaves every variable in its type.
LEMMA TypeStep ==
  ASSUME TypeOK, Next
  PROVE  TypeOK'
<1> USE DEF TypeOK, ghosts
<1>s. sweep \in SweepType /\ \A l \in Leads : sweep.notes[l] \in Entry
  BY DEF SweepType
<1>f. \A l \in Leads : flip[l] \in FlipType /\ flip[l].note \in Entry
  BY DEF FlipType
<1>i. IdleSweep \in SweepType /\ IdleFlip \in FlipType
  BY BlankType DEF IdleSweep, IdleFlip, SweepType, FlipType
<1>t. turns \in Nat /\ crashes \in Nat
  BY Bounds
<1>1. CASE ListWarm
  <2>1. PICK batch \in SUBSET Leads :
          sweep' = [IdleSweep EXCEPT !.pc = "warm",
                      !.todo = List(batch, [l \in Leads |-> EventType(lead[l])])]
    BY <1>1 DEF ListWarm, FirstBy
  <2>2. List(batch, [l \in Leads |-> EventType(lead[l])])
          \in [Leads -> Kinds \cup {"none"}]
    BY ListType, EventTypeType
  <2>3. sweep' \in SweepType
    BY <2>1, <2>2, <1>i DEF SweepType
  <2>4. QED
    BY <1>1, <2>3 DEF ListWarm
<1>2. CASE ListHandoffs
  <2>1. PICK batch \in SUBSET Leads :
          sweep' = [sweep EXCEPT !.pc = "handoff",
                      !.todo = List(batch, [l \in Leads |-> "wait_call"])]
    BY <1>2 DEF ListHandoffs, FirstBy
  <2>2. List(batch, [l \in Leads |-> "wait_call"])
          \in [Leads -> Kinds \cup {"none"}]
    <3>1. [l \in Leads |-> "wait_call"] \in [Leads -> Kinds]
      BY DEF Kinds
    <3>2. QED
      BY <3>1, ListType
  <2>3. sweep' \in SweepType
    BY <2>1, <2>2 DEF SweepType
  <2>4. QED
    BY <1>2, <2>3 DEF ListHandoffs
<1>3. ASSUME NEW l \in Leads, SkipsPushed(l) PROVE TypeOK'
  <2>1. sweep' \in SweepType
    BY <1>3 DEF SkipsPushed, SweepType
  <2>2. QED
    BY <1>3, <2>1 DEF SkipsPushed
<1>4. ASSUME NEW l \in Leads, SweepPushes(l) PROVE TypeOK'
  <2>1. PICK ok \in BOOLEAN, written \in BOOLEAN :
          /\ Calls(l, sweep.todo[l], ok, written, flip[l].note.kinds)
          /\ sweep' = [sweep EXCEPT !.todo[l] = "none",
                         !.notes[l] = Note(sweep.notes[l], sweep.pc,
                                           sweep.todo[l], ok)]
    BY <1>4 DEF SweepPushes
  <2>2. sweep.todo[l] \in Kinds
    BY <1>4, <1>s DEF SweepPushes, SweepType
  <2>3. Note(sweep.notes[l], sweep.pc, sweep.todo[l], ok) \in Entry
    <3>1. Success(sweep.pc, sweep.todo[l]) \in Entry /\ Failure \in Entry
      BY <2>2 DEF Success, Failure, Entry
    <3>2. QED
      BY <3>1, <1>s, MergeType DEF Note
  <2>4. sweep' \in SweepType
    BY <2>1, <2>3, <1>s DEF SweepType
  <2>5. /\ crm' \in [Leads -> [Kinds -> Nat]]
        /\ lost' \in [Leads -> [Kinds -> Nat]]
        /\ races' \in [Leads -> [Kinds -> Nat]]
    BY <2>1, <2>2, CallsCount
  <2>6. QED
    BY <1>4, <2>4, <2>5 DEF SweepPushes
<1>5. CASE SweepCommits
  <2>1. \A l \in Leads : Seen(l) \in Entry
    BY <1>s, MergeType DEF Seen
  <2>2. journal' \in [Leads -> Entry]
    BY <1>5, <2>1 DEF SweepCommits
  <2>3. QED
    BY <1>5, <2>2, <1>i DEF SweepCommits
<1>6. CASE SweepDies
  <2>1. lost' \in [Leads -> [Kinds -> Nat]]
    BY <1>6 DEF SweepDies
  <2>2. crashes' \in 0..MaxCrashes
    BY <1>6, Bounds DEF SweepDies
  <2>3. QED
    BY <1>6, <2>1, <2>2, <1>i DEF SweepDies
<1>7. ASSUME NEW l \in Leads, FlipChecks(l) PROVE TypeOK'
  <2>1. [IdleFlip EXCEPT !.pc = "cleared"] \in FlipType
    BY <1>i DEF FlipType
  <2>2. flip' \in [Leads -> FlipType]
    BY <1>7, <2>1, <1>i DEF FlipChecks
  <2>3. QED
    BY <1>7, <2>2 DEF FlipChecks
<1>8. ASSUME NEW l \in Leads, FlipPushes(l) PROVE TypeOK'
  <2>1. CASE "wait_call" \in journal[l].kinds
    BY <1>8, <2>1, <1>i DEF FlipPushes
  <2>2. CASE "wait_call" \notin journal[l].kinds
    <3>1. PICK ok \in BOOLEAN, written \in BOOLEAN :
            /\ Calls(l, "wait_call", ok, written, sweep.notes[l].kinds)
            /\ flip' = [flip EXCEPT ![l] =
                 [pc |-> "called",
                  note |-> Note(Blank, "handoff", "wait_call", ok)]]
      BY <1>8, <2>2 DEF FlipPushes
    <3>2. "wait_call" \in Kinds
      BY DEF Kinds
    <3>3. Note(Blank, "handoff", "wait_call", ok) \in Entry
      BY <3>2, NoteType, BlankType
    <3>4. [pc |-> "called", note |-> Note(Blank, "handoff", "wait_call", ok)]
            \in FlipType
      BY <3>3 DEF FlipType
    <3>5. flip' \in [Leads -> FlipType]
      BY <3>1, <3>4
    <3>6. /\ crm' \in [Leads -> [Kinds -> Nat]]
          /\ lost' \in [Leads -> [Kinds -> Nat]]
          /\ races' \in [Leads -> [Kinds -> Nat]]
      BY <3>1, <3>2, CallsCount
    <3>7. QED
      BY <1>8, <3>5, <3>6 DEF FlipPushes
  <2>3. QED
    BY <2>1, <2>2
<1>9. ASSUME NEW l \in Leads, FlipCommits(l) PROVE TypeOK'
  <2>1. Merge(journal[l], flip[l].note) \in Entry
    BY <1>f, MergeType
  <2>2. QED
    BY <1>9, <2>1, <1>i DEF FlipCommits
<1>10. ASSUME NEW l \in Leads, FlipDies(l) PROVE TypeOK'
  <2>1. lost' \in [Leads -> [Kinds -> Nat]]
    BY <1>10 DEF FlipDies
  <2>2. crashes' \in 0..MaxCrashes
    BY <1>10, Bounds DEF FlipDies
  <2>3. QED
    BY <1>10, <2>1, <2>2, <1>i DEF FlipDies
<1>11. ASSUME NEW l \in Leads, Life(l) PROVE TypeOK'
  <2>1. ASSUME NEW new \in LeadType, Turn(l, new)
        PROVE  /\ lead' \in [Leads -> LeadType] /\ turns' \in 0..MaxTurns
               /\ UNCHANGED <<journal, sweep, crashes, ghosts>>
    BY <2>1, Bounds DEF Turn
  <2>2. lead[l] \in LeadType
    OBVIOUS
  <2>3. turns < MaxTurns => turns + 1 \in 0..MaxTurns
    BY Bounds
  <2>4. CASE LeadWrites(l)
    <3>1. PICK phone \in {lead[l].phone, TRUE} :
            Turn(l, [lead[l] EXCEPT
                  !.fresh = TRUE, !.lastIn = turns + 1, !.phone = phone,
                  !.stage = IF lead[l].stage = "dormant" THEN "warm"
                            ELSE lead[l].stage])
      BY <2>4 DEF LeadWrites
    <3>2. turns < MaxTurns
      BY <3>1 DEF Turn
    <3>3. phone \in BOOLEAN
      BY <2>2 DEF LeadType
    <3>4. [lead[l] EXCEPT
             !.fresh = TRUE, !.lastIn = turns + 1, !.phone = phone,
             !.stage = IF lead[l].stage = "dormant" THEN "warm"
                       ELSE lead[l].stage] \in LeadType
      BY <2>2, <2>3, <3>2, <3>3 DEF LeadType
    <3>5. QED
      BY <2>4, <3>1, <3>4, <2>1 DEF LeadWrites
  <2>5. CASE BotTurns(l)
    <3>1. PICK stage \in {"warm", "dormant", "human"}, nonTarget \in BOOLEAN :
            /\ Turn(l, [lead[l] EXCEPT
                     !.stage = stage, !.nonTarget = nonTarget,
                     !.handed = lead[l].handed \/ stage = "human"])
            /\ flip' = IF stage = "human" /\ lead[l].phone
                       THEN [flip EXCEPT ![l].pc = "queued"] ELSE flip
      BY <2>5 DEF BotTurns
    <3>2. [lead[l] EXCEPT !.stage = stage, !.nonTarget = nonTarget,
             !.handed = lead[l].handed \/ stage = "human"] \in LeadType
      BY <2>2 DEF LeadType
    <3>3. flip' \in [Leads -> FlipType]
      BY <3>1 DEF FlipType
    <3>4. QED
      BY <3>1, <3>2, <3>3, <2>1
  <2>6. CASE DeskMoves(l)
    <3>1. PICK stage \in {"warm", "dormant", "human"} :
            Turn(l, [lead[l] EXCEPT !.stage = stage,
                       !.handed = lead[l].handed \/ stage = "human"])
      BY <2>6 DEF DeskMoves
    <3>2. [lead[l] EXCEPT !.stage = stage,
             !.handed = lead[l].handed \/ stage = "human"] \in LeadType
      BY <2>2 DEF LeadType
    <3>3. QED
      BY <2>6, <3>1, <3>2, <2>1 DEF DeskMoves
  <2>7. CASE CrmCloses(l)
    <3>1. [lead[l] EXCEPT !.stage = "human", !.shut = TRUE] \in LeadType
      BY <2>2 DEF LeadType
    <3>2. QED
      BY <2>7, <3>1, <2>1 DEF CrmCloses
  <2>8. CASE CrmReopens(l)
    <3>1. [lead[l] EXCEPT !.shut = FALSE] \in LeadType
      BY <2>2 DEF LeadType
    <3>2. QED
      BY <2>8, <3>1, <2>1 DEF CrmReopens
  <2>9. CASE Ages(l)
    <3>1. /\ [lead[l] EXCEPT !.fresh = FALSE] \in LeadType
          /\ [lead[l] EXCEPT !.handed = FALSE] \in LeadType
      BY <2>2 DEF LeadType
    <3>2. QED
      BY <2>9, <3>1, <2>1 DEF Ages
  <2>10. QED
    BY <1>11, <2>4, <2>5, <2>6, <2>7, <2>8, <2>9 DEF Life
<1>12. ASSUME NEW l \in Leads, RestEnds(l) PROVE TypeOK'
  <2>1. [journal[l] EXCEPT !.resting = FALSE] \in Entry
    BY DEF Entry
  <2>2. journal' = [journal EXCEPT ![l] = [journal[l] EXCEPT !.resting = FALSE]]
    BY <1>12 DEF RestEnds
  <2>3. QED
    BY <1>12, <2>1, <2>2 DEF RestEnds
<1>13. QED
  BY <1>1, <1>2, <1>3, <1>4, <1>5, <1>6, <1>7, <1>8, <1>9, <1>10, <1>11, <1>12
  DEF Next, SweepStep, FlipStep

\* Whatever the pushers, the leads and the CRM do, every variable of the
\* write-back keeps its type.
THEOREM CrmTypeCorrect == Spec => []TypeOK
<1>1. Init => TypeOK
  BY InitAll
<1>2. TypeOK /\ [Next]_vars => TypeOK'
  <2>1. CASE Next
    BY <2>1, TypeStep
  <2>2. CASE UNCHANGED vars
    BY <2>2 DEF TypeOK, vars
  <2>3. QED
    BY <2>1, <2>2
<1>3. QED
  BY <1>1, <1>2, PTL DEF Spec

------------------------------------------------------------------------------
(* The record.                                                             *)

\* What moves the leads can only queue a push for a pusher that is idle.
LEMMA LifeFlip ==
  ASSUME TypeOK, NEW l \in Leads, Life(l)
  PROVE  /\ UNCHANGED <<journal, sweep, ghosts>>
         /\ \A m \in Leads :
              \/ flip'[m] = flip[m]
              \/ /\ flip[m].pc = "idle" /\ flip'[m].pc = "queued"
                 /\ flip'[m].note = flip[m].note
<1>1. UNCHANGED <<journal, sweep, ghosts>>
  BY DEF Life, LeadWrites, BotTurns, DeskMoves, CrmCloses, CrmReopens, Ages, Turn
<1>2. CASE BotTurns(l)
  <2>1. flip[l].pc = "idle" /\ (flip' = flip \/ flip' = [flip EXCEPT ![l].pc = "queued"])
    BY <1>2 DEF BotTurns
  <2>2. QED
    BY <1>1, <2>1 DEF TypeOK, FlipType
<1>3. CASE ~BotTurns(l)
  BY <1>1, <1>3 DEF Life, LeadWrites, DeskMoves, CrmCloses, CrmReopens, Ages
<1>4. QED
  BY <1>2, <1>3

\* Only a pusher that calls the CRM takes notes.
LEMMA QuietStep ==
  ASSUME TypeOK, Quiet, Next
  PROVE  Quiet'
<1> USE DEF Quiet
<1>s. sweep \in SweepType /\ flip \in [Leads -> FlipType]
  BY DEF TypeOK
<1>i. IdleFlip.note = Blank /\ IdleFlip.pc = "idle" /\ IdleSweep.pc = "idle"
  BY DEF IdleSweep, IdleFlip
<1>1. CASE ListWarm
  <2>1. sweep'.pc = "warm" /\ UNCHANGED flip
    BY <1>1 DEF ListWarm, IdleSweep
  <2>2. QED
    BY <2>1
<1>2. CASE ListHandoffs
  <2>1. sweep'.pc = "handoff" /\ UNCHANGED flip
    BY <1>2, <1>s DEF ListHandoffs, SweepType
  <2>2. QED
    BY <2>1
<1>3. ASSUME NEW l \in Leads, SkipsPushed(l) \/ SweepPushes(l) PROVE Quiet'
  <2>1. sweep.todo[l] # "none"
    <3>1. Seen(l) \in Entry
      BY MergeType DEF TypeOK, SweepType, Seen
    <3>2. Seen(l).kinds \subseteq Kinds
      BY <3>1 DEF Entry
    <3>3. QED
      BY <1>3, <3>2 DEF SkipsPushed, SweepPushes, Kinds
  <2>2. sweep.pc # "idle"
    BY <2>1 DEF IdleSweep
  <2>3. sweep'.pc = sweep.pc /\ UNCHANGED flip
    BY <1>3, <1>s DEF SkipsPushed, SweepPushes, SweepType
  <2>4. QED
    BY <2>2, <2>3
<1>4. CASE SweepCommits \/ SweepDies
  BY <1>4 DEF SweepCommits, SweepDies
<1>5. ASSUME NEW l \in Leads, FlipStep(l) \/ FlipDies(l) PROVE Quiet'
  <2>1. UNCHANGED sweep
    BY <1>5 DEF FlipStep, FlipChecks, FlipPushes, FlipCommits, FlipDies
  <2>2. \A m \in Leads : m # l => flip'[m] = flip[m]
    BY <1>5 DEF FlipStep, FlipChecks, FlipPushes, FlipCommits, FlipDies, TypeOK
  <2>3. flip'[l].pc # "called" => flip'[l].note = Blank
    BY <1>5, <1>s, <1>i
    DEF FlipStep, FlipChecks, FlipPushes, FlipCommits, FlipDies, IdleFlip
  <2>4. QED
    BY <2>1, <2>2, <2>3
<1>6. ASSUME NEW l \in Leads, Life(l) PROVE Quiet'
  BY <1>6, LifeFlip
<1>7. ASSUME NEW l \in Leads, RestEnds(l) PROVE Quiet'
  BY <1>7 DEF RestEnds
<1>8. QED
  BY <1>1, <1>2, <1>3, <1>4, <1>5, <1>6, <1>7 DEF Next, SweepStep

\* A step that tells the CRM nothing and leaves the record as it is.
LEMMA RecordStays ==
  ASSUME Balance, RecordTellsTruth, UNCHANGED ghosts,
         \A l \in Leads : Recorded(l)' = Recorded(l)
  PROVE  Balance' /\ RecordTellsTruth'
BY DEF Balance, RecordTellsTruth, ghosts

\* A call of push_one for a kind that the caller has not found on record.
LEMMA RecordCalls ==
  ASSUME TypeOK, Balance, RecordTellsTruth, NEW l \in Leads,
         NEW kind \in Kinds, NEW ok \in BOOLEAN, NEW written \in BOOLEAN,
         NEW other, Calls(l, kind, ok, written, other),
         kind \in Recorded(l) <=> kind \in other,
         Recorded(l)' = IF ok THEN Recorded(l) \cup {kind} ELSE Recorded(l),
         \A m \in Leads : m # l => Recorded(m)' = Recorded(m)
  PROVE  Balance' /\ RecordTellsTruth'
<1>1. ASSUME NEW m \in Leads, NEW k \in Kinds, m # l \/ k # kind
      PROVE  /\ crm'[m][k] = crm[m][k] /\ lost'[m][k] = lost[m][k]
             /\ races'[m][k] = races[m][k]
             /\ k \in Recorded(m)' <=> k \in Recorded(m)
  BY <1>1, CallsCount
<1>2. /\ crm[l][kind] \in Nat /\ lost[l][kind] \in Nat /\ races[l][kind] \in Nat
      /\ crm'[l][kind] \in Nat /\ lost'[l][kind] \in Nat /\ races'[l][kind] \in Nat
  BY CallsCount DEF TypeOK
<1>3. /\ crm'[l][kind] <= lost'[l][kind] + races'[l][kind]
                            + (IF kind \in Recorded(l)' THEN 1 ELSE 0)
      /\ kind \in Recorded(l)' => crm'[l][kind] > 0
  <2>1. /\ crm[l][kind] <= lost[l][kind] + races[l][kind]
                             + (IF kind \in Recorded(l) THEN 1 ELSE 0)
        /\ kind \in Recorded(l) => crm[l][kind] > 0
    BY DEF Balance, RecordTellsTruth
  <2>2. CASE ok
    <3>1. /\ crm'[l][kind] = crm[l][kind] + 1 /\ lost'[l][kind] = lost[l][kind]
          /\ kind \in other => races'[l][kind] = races[l][kind] + 1
          /\ kind \notin other => races'[l][kind] = races[l][kind]
      BY <2>2, CallsCount
    <3>2. QED
      BY <1>2, <2>1, <2>2, <3>1
  <2>3. CASE ~ok
    <3>1. /\ crm'[l][kind] - crm[l][kind] = lost'[l][kind] - lost[l][kind]
          /\ races'[l][kind] >= races[l][kind] /\ crm'[l][kind] >= crm[l][kind]
      BY <2>3, CallsCount
    <3>2. kind \in Recorded(l)' <=> kind \in Recorded(l)
      BY <2>3
    <3>3. QED
      BY <1>2, <2>1, <3>1, <3>2
  <2>4. QED
    BY <2>2, <2>3
<1>4. QED
  BY <1>1, <1>3 DEF Balance, RecordTellsTruth

\* The record and the counts of the CRM stay together.
LEMMA RecordStep ==
  ASSUME TypeOK, Quiet, Balance, RecordTellsTruth, Next
  PROVE  Balance' /\ RecordTellsTruth'
<1>s. /\ sweep \in SweepType /\ \A m \in Leads : sweep.notes[m] \in Entry
      /\ journal \in [Leads -> Entry] /\ flip \in [Leads -> FlipType]
  BY DEF TypeOK, SweepType
<1>i. /\ \A m \in Leads : IdleSweep.notes[m].kinds = {}
      /\ IdleFlip.note.kinds = {} /\ Blank.kinds = {}
  BY DEF IdleSweep, IdleFlip, Blank
<1>m. \A m \in Leads : Seen(m).kinds = journal[m].kinds \cup sweep.notes[m].kinds
  BY DEF Seen, Merge
<1>1. CASE ListWarm
  <2>1. /\ UNCHANGED <<journal, flip, ghosts>>
        /\ sweep'.notes = IdleSweep.notes /\ sweep = IdleSweep
    BY <1>1 DEF ListWarm, Quiet, IdleSweep
  <2>2. QED
    BY <2>1, RecordStays DEF Recorded
<1>2. CASE ListHandoffs
  <2>1. UNCHANGED <<journal, flip, ghosts>> /\ sweep'.notes = sweep.notes
    BY <1>2, <1>s DEF ListHandoffs, SweepType
  <2>2. QED
    BY <2>1, RecordStays DEF Recorded
<1>3. ASSUME NEW l \in Leads, SkipsPushed(l) PROVE Balance' /\ RecordTellsTruth'
  <2>1. UNCHANGED <<journal, flip, ghosts>> /\ sweep'.notes = sweep.notes
    BY <1>3, <1>s DEF SkipsPushed, SweepType
  <2>2. QED
    BY <2>1, RecordStays DEF Recorded
<1>4. ASSUME NEW l \in Leads, SweepPushes(l) PROVE Balance' /\ RecordTellsTruth'
  <2> DEFINE kind == sweep.todo[l]
  <2>1. PICK ok \in BOOLEAN, written \in BOOLEAN :
          /\ Calls(l, kind, ok, written, flip[l].note.kinds)
          /\ sweep' = [sweep EXCEPT !.todo[l] = "none",
                         !.notes[l] = Note(sweep.notes[l], sweep.pc, kind, ok)]
    BY <1>4 DEF SweepPushes
  <2>2. kind \in Kinds /\ kind \notin Seen(l).kinds
    BY <1>4, <1>s DEF SweepPushes, SweepType
  <2>3. UNCHANGED <<journal, flip>>
    BY <1>4 DEF SweepPushes
  <2>4. /\ sweep'.notes[l].kinds = IF ok THEN sweep.notes[l].kinds \cup {kind}
                                   ELSE sweep.notes[l].kinds
        /\ \A m \in Leads : m # l => sweep'.notes[m] = sweep.notes[m]
    <3>1. sweep'.notes = [sweep.notes EXCEPT
                            ![l] = Note(sweep.notes[l], sweep.pc, kind, ok)]
      BY <2>1, <1>s DEF SweepType
    <3>2. /\ sweep'.notes[l] = Note(sweep.notes[l], sweep.pc, kind, ok)
          /\ \A m \in Leads : m # l => sweep'.notes[m] = sweep.notes[m]
      BY <3>1, <1>s DEF SweepType
    <3>3. Note(sweep.notes[l], sweep.pc, kind, ok).kinds =
            IF ok THEN sweep.notes[l].kinds \cup {kind} ELSE sweep.notes[l].kinds
      BY DEF Note, Merge, Success, Failure
    <3>4. QED
      BY <3>2, <3>3
  <2>5. kind \in Recorded(l) <=> kind \in flip[l].note.kinds
    BY <2>2, <1>m DEF Recorded
  <2>6. Recorded(l)' = IF ok THEN Recorded(l) \cup {kind} ELSE Recorded(l)
    BY <2>3, <2>4 DEF Recorded
  <2>7. \A m \in Leads : m # l => Recorded(m)' = Recorded(m)
    BY <2>3, <2>4 DEF Recorded
  <2> HIDE DEF kind
  <2>8. QED
    BY <2>1, <2>2, <2>5, <2>6, <2>7, RecordCalls
<1>5. CASE SweepCommits
  <2>1. /\ \A m \in Leads : journal'[m].kinds = Seen(m).kinds
        /\ \A m \in Leads : sweep'.notes[m].kinds = {}
        /\ UNCHANGED <<flip, ghosts>>
    BY <1>5, <1>i DEF SweepCommits
  <2>2. \A m \in Leads : Recorded(m)' = Recorded(m)
    BY <2>1, <1>m DEF Recorded
  <2>3. QED
    BY <2>1, <2>2, RecordStays
<1>6. CASE SweepDies
  <2>1. /\ UNCHANGED <<journal, flip, crm, races>>
        /\ \A m \in Leads : sweep'.notes[m].kinds = {}
        /\ \A m \in Leads, k \in Kinds : lost'[m][k] =
             lost[m][k] + IF k \in sweep.notes[m].kinds THEN 1 ELSE 0
    BY <1>6, <1>i DEF SweepDies
  <2>2. ASSUME NEW m \in Leads, NEW k \in Kinds
        PROVE  /\ crm'[m][k] <= lost'[m][k] + races'[m][k]
                                 + (IF k \in Recorded(m)' THEN 1 ELSE 0)
               /\ k \in Recorded(m)' => crm'[m][k] > 0
    <3>1. /\ crm[m][k] \in Nat /\ lost[m][k] \in Nat /\ races[m][k] \in Nat
          /\ crm[m][k] <= lost[m][k] + races[m][k]
                            + (IF k \in Recorded(m) THEN 1 ELSE 0)
          /\ k \in Recorded(m) => crm[m][k] > 0
      BY DEF TypeOK, Balance, RecordTellsTruth
    <3>2. k \in Recorded(m) <=> k \in sweep.notes[m].kinds \/ k \in Recorded(m)'
      BY <2>1 DEF Recorded
    <3>3. QED
      BY <2>1, <3>1, <3>2
  <2>3. QED
    BY <2>2 DEF Balance, RecordTellsTruth
<1>7. ASSUME NEW l \in Leads, FlipChecks(l) PROVE Balance' /\ RecordTellsTruth'
  <2>1. /\ UNCHANGED <<journal, sweep, ghosts>>
        /\ \A m \in Leads : flip'[m].note.kinds = flip[m].note.kinds
    BY <1>7, <1>s, <1>i DEF FlipChecks, Quiet, IdleFlip
  <2>2. QED
    BY <2>1, RecordStays DEF Recorded
<1>8. ASSUME NEW l \in Leads, FlipPushes(l) PROVE Balance' /\ RecordTellsTruth'
  <2>1. flip[l].note.kinds = {} /\ UNCHANGED <<journal, sweep>>
    BY <1>8, <1>i DEF FlipPushes, Quiet
  <2>2. CASE "wait_call" \in journal[l].kinds
    <3>1. \A m \in Leads : flip'[m].note.kinds = flip[m].note.kinds
      BY <1>8, <2>1, <2>2, <1>s, <1>i DEF FlipPushes
    <3>2. QED
      BY <1>8, <2>1, <2>2, <3>1, RecordStays DEF FlipPushes, Recorded
  <2>3. CASE "wait_call" \notin journal[l].kinds
    <3>1. PICK ok \in BOOLEAN, written \in BOOLEAN :
            /\ Calls(l, "wait_call", ok, written, sweep.notes[l].kinds)
            /\ flip' = [flip EXCEPT ![l] =
                 [pc |-> "called",
                  note |-> Note(Blank, "handoff", "wait_call", ok)]]
      BY <1>8, <2>3 DEF FlipPushes
    <3>2. /\ flip'[l].note.kinds = IF ok THEN {"wait_call"} ELSE {}
          /\ \A m \in Leads : m # l => flip'[m] = flip[m]
      <4>1. Note(Blank, "handoff", "wait_call", ok).kinds =
              IF ok THEN {"wait_call"} ELSE {}
        BY <1>i DEF Note, Merge, Success, Failure
      <4>2. QED
        BY <3>1, <4>1, <1>s
    <3>3. "wait_call" \in Kinds
      BY DEF Kinds
    <3>4. "wait_call" \in Recorded(l) <=> "wait_call" \in sweep.notes[l].kinds
      BY <2>1, <2>3 DEF Recorded
    <3>5. Recorded(l)' = IF ok THEN Recorded(l) \cup {"wait_call"} ELSE Recorded(l)
      BY <2>1, <3>2 DEF Recorded
    <3>6. \A m \in Leads : m # l => Recorded(m)' = Recorded(m)
      BY <2>1, <3>2 DEF Recorded
    <3>7. QED
      BY <3>1, <3>3, <3>4, <3>5, <3>6, RecordCalls
  <2>4. QED
    BY <2>2, <2>3
<1>9. ASSUME NEW l \in Leads, FlipCommits(l) PROVE Balance' /\ RecordTellsTruth'
  <2>1. /\ journal'[l].kinds = journal[l].kinds \cup flip[l].note.kinds
        /\ flip'[l].note.kinds = {} /\ UNCHANGED <<sweep, ghosts>>
        /\ \A m \in Leads : m # l => journal'[m] = journal[m] /\ flip'[m] = flip[m]
    BY <1>9, <1>s, <1>i DEF FlipCommits, Merge
  <2>2. \A m \in Leads : Recorded(m)' = Recorded(m)
    BY <2>1 DEF Recorded
  <2>3. QED
    BY <2>1, <2>2, RecordStays
<1>10. ASSUME NEW l \in Leads, FlipDies(l) PROVE Balance' /\ RecordTellsTruth'
  <2>1. /\ UNCHANGED <<journal, sweep, crm, races>>
        /\ flip'[l].note.kinds = {}
        /\ \A m \in Leads : m # l => flip'[m] = flip[m] /\ lost'[m] = lost[m]
        /\ \A k \in Kinds : lost'[l][k] =
             lost[l][k] + IF k \in flip[l].note.kinds THEN 1 ELSE 0
    BY <1>10, <1>s, <1>i DEF FlipDies, TypeOK
  <2>2. ASSUME NEW m \in Leads, NEW k \in Kinds
        PROVE  /\ crm'[m][k] <= lost'[m][k] + races'[m][k]
                                 + (IF k \in Recorded(m)' THEN 1 ELSE 0)
               /\ k \in Recorded(m)' => crm'[m][k] > 0
    <3>1. /\ crm[m][k] \in Nat /\ lost[m][k] \in Nat /\ races[m][k] \in Nat
          /\ crm[m][k] <= lost[m][k] + races[m][k]
                            + (IF k \in Recorded(m) THEN 1 ELSE 0)
          /\ k \in Recorded(m) => crm[m][k] > 0
      BY DEF TypeOK, Balance, RecordTellsTruth
    <3>2. CASE m = l
      <4>1. k \in Recorded(m) <=> k \in flip[l].note.kinds \/ k \in Recorded(m)'
        BY <2>1, <3>2 DEF Recorded
      <4>2. QED
        BY <2>1, <3>1, <3>2, <4>1
    <3>3. CASE m # l
      <4>1. k \in Recorded(m) <=> k \in Recorded(m)'
        BY <2>1, <3>3 DEF Recorded
      <4>2. QED
        BY <2>1, <3>1, <3>3, <4>1
    <3>4. QED
      BY <3>2, <3>3
  <2>3. QED
    BY <2>2 DEF Balance, RecordTellsTruth
<1>11. ASSUME NEW l \in Leads, Life(l) PROVE Balance' /\ RecordTellsTruth'
  <2>1. /\ UNCHANGED <<journal, sweep, ghosts>>
        /\ \A m \in Leads : flip'[m].note = flip[m].note
    BY <1>11, LifeFlip
  <2>2. QED
    BY <2>1, RecordStays DEF Recorded
<1>12. ASSUME NEW l \in Leads, RestEnds(l) PROVE Balance' /\ RecordTellsTruth'
  <2>1. \A m \in Leads : journal'[m].kinds = journal[m].kinds
    BY <1>12, <1>s DEF RestEnds, Entry
  <2>2. QED
    BY <1>12, <2>1, RecordStays DEF RestEnds, Recorded
<1>13. QED
  BY <1>1, <1>2, <1>3, <1>4, <1>5, <1>6, <1>7, <1>8, <1>9, <1>10, <1>11, <1>12
  DEF Next, SweepStep, FlipStep

\* The record never claims what the CRM has not heard, and one state of a lead
\* is told once, for any number of leads, batches, failures and kills.
THEOREM RecordSafe == Spec => [](RecordTellsTruth /\ ToldOnce)
<1> DEFINE IInv == TypeOK /\ Quiet /\ Balance /\ RecordTellsTruth
<1>1. Init => IInv
  BY InitAll
<1>2. IInv /\ [Next]_vars => IInv'
  <2>1. CASE Next
    BY <2>1, TypeStep, QuietStep, RecordStep
  <2>2. CASE UNCHANGED vars
    BY <2>2 DEF vars, ghosts, TypeOK, Quiet, Balance, RecordTellsTruth, Recorded
  <2>3. QED
    BY <2>1, <2>2
<1>3. IInv => RecordTellsTruth /\ ToldOnce
  <2> SUFFICES ASSUME TypeOK, Balance, NEW l \in Leads, NEW k \in Kinds
               PROVE  crm[l][k] <= 1 + lost[l][k] + races[l][k]
    BY DEF ToldOnce
  <2>1. crm[l][k] \in Nat /\ lost[l][k] \in Nat /\ races[l][k] \in Nat
    BY DEF TypeOK
  <2>2. QED
    BY <2>1 DEF Balance
<1>4. QED
  BY <1>1, <1>2, <1>3, PTL DEF Spec
------------------------------------------------------------------------------
(* The failures.                                                           *)

\* A lead that may be pushed has failures to spare, and one that the sweep
\* sees as pushable has no failure waiting in the sweep's notes.
LEMMA PushableTries ==
  ASSUME TypeOK, NEW l \in Leads, NEW x
  PROVE  /\ Pushable(x, journal[l]) => journal[l].failures < FailureCap
         /\ Pushable(x, Seen(l)) => /\ ~sweep.notes[l].resting
                                    /\ journal[l].failures < FailureCap
<1>1. journal[l] \in Entry /\ sweep.notes[l] \in Entry
  BY DEF TypeOK, SweepType
<1>2. journal[l].failures \in Nat /\ sweep.notes[l].failures \in Nat
  BY <1>1 DEF Entry
<1>3. Seen(l).failures = journal[l].failures + sweep.notes[l].failures
      /\ Seen(l).resting = (journal[l].resting \/ sweep.notes[l].resting)
  BY DEF Seen, Merge
<1>4. /\ Pushable(x, journal[l]) => journal[l].failures < FailureCap
      /\ Pushable(x, Seen(l)) => ~Seen(l).resting /\ Seen(l).failures < FailureCap
  BY Zenon DEF Pushable
<1>5. Seen(l).failures < FailureCap => journal[l].failures < FailureCap
  BY <1>2, <1>3, Bounds
<1>6. ~Seen(l).resting => ~sweep.notes[l].resting
  BY <1>3, Zenon
<1>7. QED
  BY <1>4, <1>5, <1>6, Zenon

\* Every step keeps the bound on the failures of each lead.
LEMMA AttemptsStep ==
  ASSUME TypeOK, Quiet, Attempts, Next
  PROVE  Attempts'
<1> USE DEF Attempts, SweepTries, FlipTries
<1>s. /\ sweep \in SweepType /\ \A m \in Leads : sweep.notes[m] \in Entry
      /\ journal \in [Leads -> Entry] /\ flip \in [Leads -> FlipType]
  BY DEF TypeOK, SweepType
<1>n. \A m \in Leads : /\ journal[m].failures \in Nat
                       /\ sweep.notes[m].failures \in Nat
                       /\ flip[m].note.failures \in Nat
                       /\ sweep.notes[m].resting \in BOOLEAN
  BY <1>s DEF Entry, FlipType
<1>b. Blank.failures = 0 /\ IdleFlip.pc = "idle" /\ IdleFlip.note = Blank
      /\ \A m \in Leads : IdleSweep.notes[m] = Blank /\ IdleSweep.todo[m] = "none"
  BY DEF Blank, IdleFlip, IdleSweep
<1>1. CASE ListWarm
  <2>1. PICK batch \in SUBSET {m \in Leads : WarmToPush(lead[m], journal[m])} :
          sweep' = [IdleSweep EXCEPT !.pc = "warm",
                      !.todo = List(batch, [m \in Leads |-> EventType(lead[m])])]
    BY <1>1 DEF ListWarm, FirstBy
  <2>2. /\ \A m \in Leads : sweep'.notes[m] = Blank
        /\ \A m \in Leads : sweep'.todo[m] # "none" => m \in batch
    BY <2>1, <1>b DEF List, IdleSweep
  <2>3. \A m \in batch : journal[m].failures < FailureCap
    BY PushableTries DEF WarmToPush
  <2>4. UNCHANGED <<journal, flip>>
    BY <1>1 DEF ListWarm
  <2>5. QED
    BY <2>2, <2>3, <2>4, <1>n, <1>b, Bounds
<1>2. CASE ListHandoffs
  <2>1. PICK batch \in SUBSET {m \in Leads : HandoffToPush(lead[m], Seen(m))} :
          sweep' = [sweep EXCEPT !.pc = "handoff",
                      !.todo = List(batch, [m \in Leads |-> "wait_call"])]
    BY <1>2 DEF ListHandoffs, FirstBy
  <2>2. /\ sweep'.notes = sweep.notes
        /\ \A m \in Leads : sweep'.todo[m] # "none" => m \in batch
    BY <2>1, <1>s DEF List, SweepType
  <2>3. \A m \in batch : ~sweep.notes[m].resting /\ journal[m].failures < FailureCap
    BY PushableTries DEF HandoffToPush
  <2>4. UNCHANGED <<journal, flip>>
    BY <1>2 DEF ListHandoffs
  <2>5. QED
    BY <2>2, <2>3, <2>4, <1>n, Bounds
<1>3. ASSUME NEW l \in Leads, SkipsPushed(l) PROVE Attempts'
  <2>1. /\ UNCHANGED <<journal, flip>> /\ sweep'.notes = sweep.notes
        /\ \A m \in Leads : sweep'.todo[m] \in {sweep.todo[m], "none"}
    BY <1>3, <1>s DEF SkipsPushed, SweepType
  <2>2. QED
    BY <2>1
<1>4. ASSUME NEW l \in Leads, SweepPushes(l) PROVE Attempts'
  <2> DEFINE kind == sweep.todo[l]
  <2>1. PICK ok \in BOOLEAN :
          sweep' = [sweep EXCEPT !.todo[l] = "none",
                         !.notes[l] = Note(sweep.notes[l], sweep.pc, kind, ok)]
    BY <1>4 DEF SweepPushes
  <2>2. /\ sweep'.notes[l] = Note(sweep.notes[l], sweep.pc, kind, ok)
        /\ sweep'.todo[l] = "none"
        /\ \A m \in Leads : m # l => /\ sweep'.notes[m] = sweep.notes[m]
                                     /\ sweep'.todo[m] = sweep.todo[m]
        /\ UNCHANGED <<journal, flip>>
    BY <1>4, <2>1, <1>s DEF SweepPushes, SweepType
  <2>3. sweep.todo[l] # "none" /\ sweep.notes[l].failures = 0
    BY <1>4, <1>n DEF SweepPushes
  <2>4. /\ Note(sweep.notes[l], sweep.pc, kind, ok).failures = IF ok THEN 0 ELSE 1
        /\ ~ok => Note(sweep.notes[l], sweep.pc, kind, ok).resting
    <3>1. CASE ok
      BY <2>3, <3>1 DEF Note, Merge, Success
    <3>2. CASE ~ok
      <4>1. Note(sweep.notes[l], sweep.pc, kind, ok) =
              Merge(sweep.notes[l], Failure)
        BY <3>2 DEF Note
      <4>2. Merge(sweep.notes[l], Failure).failures = 1
        BY <2>3 DEF Merge, Failure
      <4>3. Merge(sweep.notes[l], Failure).resting
        BY Zenon DEF Merge, Failure
      <4>4. QED
        BY <3>2, <4>1, <4>2, <4>3
    <3>3. QED
      BY <3>1, <3>2
  <2>5. QED
    BY <2>2, <2>3, <2>4
<1>5. CASE SweepCommits
  <2>1. /\ \A m \in Leads : journal'[m].failures =
             journal[m].failures + sweep.notes[m].failures
        /\ UNCHANGED flip /\ sweep' = IdleSweep
    BY <1>5 DEF SweepCommits, Seen, Merge
  <2>2. \A m \in Leads : sweep'.notes[m].failures = 0 /\ sweep'.todo[m] = "none"
    BY <2>1, <1>b
  <2>3. \A m \in Leads : FlipTries(m)' <=> FlipTries(m)
    BY <2>1
  <2>4. ASSUME NEW m \in Leads
        PROVE  /\ FlipTries(m) => journal'[m].failures <= FailureCap
               /\ journal'[m].failures <= FailureCap + 1
    <3>1. CASE sweep.notes[m].failures = 0
      BY <3>1, <2>1, <1>n
    <3>2. CASE sweep.notes[m].failures = 1
      BY <3>2, <2>1, <1>n, Bounds
    <3>3. QED
      BY <3>1, <3>2, <1>n
  <2>5. QED
    BY <2>1, <2>2, <2>3, <2>4
<1>6. CASE SweepDies
  <2>1. UNCHANGED <<journal, flip>> /\ sweep' = IdleSweep
    BY <1>6 DEF SweepDies
  <2>2. \A m \in Leads : sweep'.notes[m].failures = 0 /\ sweep'.todo[m] = "none"
    BY <2>1, <1>b
  <2>3. QED
    BY <2>1, <2>2
<1>7. ASSUME NEW l \in Leads, FlipChecks(l) PROVE Attempts'
  <2>1. /\ UNCHANGED <<journal, sweep>>
        /\ \A m \in Leads : m # l => flip'[m] = flip[m]
        /\ flip'[l].note = Blank
    BY <1>7, <1>s, <1>b DEF FlipChecks, IdleFlip
  <2>2. flip'[l].pc = "cleared" => journal[l].failures < FailureCap
    BY <1>7, <1>s, <1>b, PushableTries DEF FlipChecks
  <2>3. QED
    BY <2>1, <2>2, <1>b, <1>n, Bounds
<1>8. ASSUME NEW l \in Leads, FlipPushes(l) PROVE Attempts'
  <2>1. /\ UNCHANGED <<journal, sweep>> /\ flip[l].pc = "cleared"
        /\ \A m \in Leads : m # l => flip'[m] = flip[m]
    BY <1>8, <1>s DEF FlipPushes
  <2>2. flip'[l].pc # "cleared" /\ flip'[l].note.failures \in {0, 1}
    <3>1. \A ok \in BOOLEAN :
            Note(Blank, "handoff", "wait_call", ok).failures \in {0, 1}
      BY <1>b DEF Note, Merge, Success, Failure
    <3>2. QED
      BY <1>8, <3>1, <1>s, <1>b DEF FlipPushes
  <2>3. QED
    BY <2>1, <2>2
<1>9. ASSUME NEW l \in Leads, FlipCommits(l) PROVE Attempts'
  <2>1. /\ journal'[l].failures = journal[l].failures + flip[l].note.failures
        /\ flip'[l] = IdleFlip /\ UNCHANGED sweep
        /\ \A m \in Leads : m # l => journal'[m] = journal[m] /\ flip'[m] = flip[m]
    BY <1>9, <1>s DEF FlipCommits, Merge
  <2>2. flip'[l].pc # "cleared" /\ flip'[l].note.failures = 0
    BY <2>1, <1>b
  <2>3. /\ SweepTries(l) => journal'[l].failures <= FailureCap
        /\ journal'[l].failures <= FailureCap + 1
    <3>1. CASE flip[l].note.failures = 0
      BY <3>1, <2>1, <1>n
    <3>2. CASE flip[l].note.failures = 1
      BY <3>2, <2>1, <1>n, Bounds
    <3>3. QED
      BY <3>1, <3>2, <1>n
  <2>4. QED
    BY <2>1, <2>2, <2>3
<1>10. ASSUME NEW l \in Leads, FlipDies(l) PROVE Attempts'
  <2>1. /\ UNCHANGED <<journal, sweep>> /\ flip'[l] = IdleFlip
        /\ \A m \in Leads : m # l => flip'[m] = flip[m]
    BY <1>10, <1>s DEF FlipDies
  <2>2. QED
    BY <2>1, <1>b
<1>11. ASSUME NEW l \in Leads, Life(l) PROVE Attempts'
  <2>1. /\ UNCHANGED <<journal, sweep>>
        /\ \A m \in Leads : /\ flip'[m].note = flip[m].note
                            /\ flip'[m].pc = "cleared" => flip[m].pc = "cleared"
    BY <1>11, LifeFlip
  <2>2. QED
    BY <2>1
<1>12. ASSUME NEW l \in Leads, RestEnds(l) PROVE Attempts'
  <2>1. /\ \A m \in Leads : journal'[m].failures = journal[m].failures
        /\ UNCHANGED <<sweep, flip>>
    BY <1>12, <1>s DEF RestEnds, Entry
  <2>2. QED
    BY <2>1
<1>13. QED
  BY <1>1, <1>2, <1>3, <1>4, <1>5, <1>6, <1>7, <1>8, <1>9, <1>10, <1>11, <1>12
  DEF Next, SweepStep, FlipStep

\* The failures of a lead never exceed the cap by more than one, although the
\* two pushers count them separately.
THEOREM FailuresSafe == Spec => []FailuresBounded
<1> DEFINE IInv == TypeOK /\ Quiet /\ Attempts
<1>1. Init => IInv
  <2>1. Init => TypeOK /\ Quiet
    BY InitAll
  <2>2. Init => Attempts
    BY Bounds DEF Init, Attempts, SweepTries, FlipTries, IdleSweep, IdleFlip, Blank
  <2>3. QED
    BY <2>1, <2>2
<1>2. IInv /\ [Next]_vars => IInv'
  <2>1. CASE Next
    BY <2>1, TypeStep, QuietStep, AttemptsStep
  <2>2. CASE UNCHANGED vars
    BY <2>2 DEF vars, TypeOK, Quiet, Attempts, SweepTries, FlipTries
  <2>3. QED
    BY <2>1, <2>2
<1>3. IInv => FailuresBounded
  BY DEF Attempts, FailuresBounded
<1>4. QED
  BY <1>1, <1>2, <1>3, PTL DEF Spec

\* In particular an entry, committed or only flushed, always stands for an event
\* the CRM has heard (push_one: a failure leaves no marker).
THEOREM RecordTrue == Spec => []RecordTellsTruth
<1>1. RecordTellsTruth /\ ToldOnce => RecordTellsTruth
  OBVIOUS
<1>2. QED
  BY <1>1, RecordSafe, PTL
===============================================================================
