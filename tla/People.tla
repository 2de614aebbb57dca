--------------------------------- MODULE People ---------------------------------
(***************************************************************************)
(* Who a conversation belongs to.  A first message finds its lead by the   *)
(* phone or opens a new one; a number typed, or attached by the connector  *)
(* to a chat that is known already, is filled in; records with one phone   *)
(* are folded into one, by the ingest that learns of the phone or by the   *)
(* hourly sweep.  The desk takes leads and gives them back in between.     *)
(*                                                                         *)
(* Two kinds of job write the same stage and switch by what they have read *)
(* some time before: a touch of the reactivation, and a turn of the        *)
(* conversation that parks the lead as dormant.                            *)
(***************************************************************************)
EXTENDS Integers, FiniteSets

CONSTANTS
  Leads,        \* records a branch may hold
  Nobody,
  Threads,      \* a channel and an address on it
  PhoneChats,   \* those on a connector that is a manager's own phone
  Phones,
  NoPhone,
  Profiled,     \* leads with a dossier the needs cloud classifies
  MaxMoves      \* bound: what the desk does and jobs that read a lead, together

ASSUME PeopleAssumption ==
  /\ PhoneChats \subseteq Threads /\ Profiled \subseteq Leads /\ IsFiniteSet(Leads)
  /\ Nobody \notin Leads /\ NoPhone \notin Phones
  /\ MaxMoves \in Nat

VARIABLES
  owner,   \* ChannelThread.lead_id, Nobody before the first message
  card,    \* the lead: phone_e164, stage, agent_enabled, is_merged_into
  tagged,  \* leads with a row in need_lead_state, whose key is lead_id
  sweep,   \* what the running sweep has read of one phone's leads
  errands, \* touches and turns in flight, with the lead as they read it
  freed,   \* leads the desk has left to the bot, or a job has taken from a
           \* human, and nobody has silenced since
  moves    \* how much of MaxMoves is used

peopleVars == <<owner, card, tagged, sweep, errands, freed, moves>>
------------------------------------------------------------------------------
LeadStages == {"unborn", "funnel", "dormant", "handed_off", "manager"}
HumanLed   == {"handed_off", "manager"}
Cards == [phone : Phones \cup {NoPhone}, stage : LeadStages, on : BOOLEAN,
          into : Leads \cup {Nobody}]
Unborn == [phone |-> NoPhone, stage |-> "unborn", on |-> FALSE, into |-> Nobody]
NewLead(p) == [phone |-> p, stage |-> "funnel", on |-> TRUE, into |-> Nobody]

Born    == {l \in Leads : card[l].stage # "unborn"}
Live    == {l \in Born : card[l].into = Nobody}
Speaks(c) == c.on /\ c.stage \in {"funnel", "manager"}

\* LeadRepo.by_phone: any record with the number, retired ones too.
ByPhone(p) == {l \in Born : p # NoPhone /\ card[l].phone = p}

\* _claim_for_manager, apply_stage(MANAGER).  A slip: the stage alone.
ClaimedByStage(c) == [c EXCEPT !.stage = "manager"]
Claimed(c) == IF c.stage = "manager" THEN c
              ELSE [c EXCEPT !.stage = "manager", !.on = FALSE]
Opened(t, c) == IF t \in PhoneChats THEN Claimed(c) ELSE c

\* _revive_bot
Revived(c) == IF c.stage \in HumanLed THEN c ELSE [c EXCEPT !.stage = "funnel", !.on = TRUE]

\* Silenced by a human and not by a job.
Quieted(c) == c.stage \in HumanLed /\ ~c.on
StillFree(F) == {l \in F : ~Quieted(card'[l])}

\* backfill
Filled(c, p) == IF c.phone = NoPhone THEN [c EXCEPT !.phone = p] ELSE c
------------------------------------------------------------------------------
(* Folding.  The records are taken one after the other: the first that is  *)
(* not a manager's copy survives all that follow, and until there is one   *)
(* each swallows its predecessor.                                          *)
Orders(S) == {o \in [1..Cardinality(S) -> S] :
                \A i, j \in 1..Cardinality(S) : o[i] = o[j] => i = j}

\* _pick_survivor along o: where in it the survivor stands.
SurvivorAt(o, n, seen) ==
  CHOOSE i \in 1..n :
    /\ \A j \in 1..i-1 : seen[o[j]].stage = "manager"
    /\ i = n \/ seen[o[i]].stage # "manager"

\* _silence_bot, by what was read of the survivor.
Silenced(c, s) ==
  IF s.stage \in HumanLed THEN c
  ELSE [c EXCEPT !.stage = "handed_off", !.on = IF s.on THEN FALSE ELSE @]

\* A slip: it stays among the leads.
Muted(c, s, l) == [c EXCEPT !.on = IF s.on THEN FALSE ELSE @]
\* _absorb: the row is retired; only what changed since the read is written.
Retired(c, s, l) == [c EXCEPT !.into = l, !.on = IF s.on THEN FALSE ELSE @]

\* "UPDATE need_lead_state SET lead_id": the key is taken when two of those
\* folded have a row, and the error undoes the transaction.
Clash(S) == Cardinality(S \cap tagged) > 1

Fold(base, o, n, seen) ==
  LET m == SurvivorAt(o, n, seen)
      heir == [i \in 1..n |-> IF i < m THEN o[i + 1] ELSE o[m]]
      folded == {o[i] : i \in 1..n}
      At(l) == CHOOSE i \in 1..n : o[i] = l
  IN /\ card' = [l \in Leads |->
                   IF l \notin folded THEN base[l]
                   ELSE IF l = o[m] THEN Silenced(base[l], seen[l])
                   ELSE Retired(base[l], seen[l], heir[At(l)])]
     /\ owner' = [t \in Threads |-> IF owner[t] \in folded THEN o[m] ELSE owner[t]]
     /\ tagged' = IF folded \cap tagged = {} THEN tagged
                  ELSE (tagged \ folded) \cup {o[m]}
     /\ freed' = StillFree(freed)
------------------------------------------------------------------------------
(* Messages.                                                               *)

\* resolve_or_create of a thread nobody has seen: p came with the address, or
\* was typed.  What the lead has written revives the bot; what went out from
\* the phone does not.
FirstMessage(t, p) ==
  /\ owner[t] = Nobody
  /\ \E l \in Leads :
       /\ IF ByPhone(p) # {} THEN l \in ByPhone(p)
          ELSE l \notin Born /\ l = CHOOSE k \in Leads : k \notin Born
       /\ owner' = [owner EXCEPT ![t] = l]
       /\ LET c == Opened(t, IF l \in Born THEN Filled(card[l], p) ELSE NewLead(p))
          IN \E after \in {c, Revived(c)} : card' = [card EXCEPT ![l] = after]
       /\ freed' = StillFree(freed)
  /\ UNCHANGED <<tagged, sweep, errands, moves>>

\* The lead writes again.
WritesAgain(t) ==
  /\ owner[t] # Nobody
  /\ card' = [card EXCEPT ![owner[t]] = Revived(@)]
  /\ UNCHANGED <<owner, tagged, sweep, errands, freed, moves>>

\* A number typed in a known thread, and decision.phone of a reply: the number is
\* somebody's.  A slip: the number's owner gets the conversation.
PointsAtOwner(t, p) ==
  /\ owner[t] # Nobody
  /\ \E l \in ByPhone(p) : owner' = [owner EXCEPT ![t] = l]
  /\ UNCHANGED <<card, tagged, sweep, errands, freed, moves>>
TypesNumber(t, p) ==
  /\ owner[t] # Nobody /\ card[owner[t]].phone = NoPhone
  /\ card' = [card EXCEPT ![owner[t]] = Filled(@, p)]
  /\ UNCHANGED <<owner, tagged, sweep, errands, freed, moves>>

\* _refresh_identity: the connector names the number; merge_by_phone folds
\* every other record that has it, in no order the query promises.  A clash
\* undoes the batch, and the next poll meets it again.
NamesNumber(t, p) ==
  LET l == owner[t]
  IN /\ l # Nobody /\ card[l].phone = NoPhone
     /\ ByPhone(p) # {} /\ ~Clash(ByPhone(p) \cup {l})
     /\ LET base == [card EXCEPT ![l] = Filled(@, p)]
            n == Cardinality(ByPhone(p)) + 1
        IN \E o \in Orders(ByPhone(p) \cup {l}) :
             o[1] = l /\ Fold(base, o, n, card)
     /\ UNCHANGED <<sweep, errands, moves>>
------------------------------------------------------------------------------
(* The hourly sweep: one transaction, which reads first.                   *)
NoSweep == [group |-> {}, seen |-> [l \in Leads |-> Unborn]]
Idle    == sweep = NoSweep
GroupIn(c, p) == {l \in Leads : /\ c[l].stage # "unborn" /\ c[l].into = Nobody
                               /\ c[l].phone = p}
Group(p) == GroupIn(card, p)

SweepReads(p) ==
  /\ Idle /\ Cardinality(Group(p)) > 1
  /\ sweep' = [group |-> Group(p), seen |-> card]
  /\ UNCHANGED <<owner, card, tagged, errands, freed, moves>>

\* One phone's clash undoes what the sweep did for every other.
Blocked == \E p \in Phones : Clash(GroupIn(sweep.seen, p))
SweepFails ==
  /\ ~Idle /\ Blocked
  /\ sweep' = NoSweep
  /\ UNCHANGED <<owner, card, tagged, errands, freed, moves>>

SweepFolds ==
  /\ ~Idle /\ ~Blocked
  /\ \E o \in Orders(sweep.group) :
       Fold(card, o, Cardinality(sweep.group), sweep.seen)
  /\ sweep' = NoSweep
  /\ UNCHANGED <<errands, moves>>
------------------------------------------------------------------------------
(* Jobs that know the lead from before.                                    *)
\* The list of the reactivation has leads that nobody leads; each is read when
\* its turn comes, and whose it is by then is not asked.
ReadsLead(l, by) ==
  /\ moves < MaxMoves /\ moves' = moves + 1
  /\ \E t \in Threads : owner[t] = l
  /\ by = "touch" => card[l].stage \notin HumanLed
  /\ errands' = errands \cup {[by |-> by, of |-> l, seen |-> card[l]]}
  /\ UNCHANGED <<owner, card, tagged, sweep, freed>>
ReadsAnew(j) ==
  /\ j.by = "touch" /\ j.seen # card[j.of]
  /\ errands' = (errands \ {j}) \cup {[j EXCEPT !.seen = card[j.of]]}
  /\ UNCHANGED <<owner, card, tagged, sweep, freed, moves>>

\* _reactivate: NURTURING and on, of which the session writes what differs from
\* the lead it has read; that may have been in NURTURING before.
AfterTouch(c, s) ==
  {[c EXCEPT !.stage = x, !.on = @ \/ ~s.on] :
     x \in {"funnel"} \cup (IF s.stage = "funnel" THEN {c.stage} ELSE {})}
\* park_dormant: undeliverable, follow-ups exhausted, a hard stop.  Only the
\* first of these looks at who leads the lead that was read.
AfterParking(c, s) ==
  IF s.stage = "dormant" THEN {}
  ELSE {[c EXCEPT !.stage = "dormant", !.on = IF s.on THEN FALSE ELSE @]}

\* What a job comes to: this, or nothing.
WritesLead(j) ==
  /\ errands' = errands \ {j}
  /\ LET c == card[j.of]
         theirs == IF c.stage \in HumanLed THEN {j.of} ELSE {}
     IN \E after \in {c} \cup (IF j.by = "touch" THEN AfterTouch(c, j.seen)
                                ELSE AfterParking(c, j.seen)) :
          /\ card' = [card EXCEPT ![j.of] = after]
          /\ freed' = StillFree(IF after = c THEN freed ELSE freed \cup theirs)
  /\ UNCHANGED <<owner, tagged, sweep, moves>>
------------------------------------------------------------------------------
\* classify_branch, hourly: retired records are classified as well.
Classifies(l) ==
  /\ l \in Born \cap Profiled /\ l \notin tagged
  /\ tagged' = tagged \cup {l}
  /\ UNCHANGED <<owner, card, sweep, errands, freed, moves>>

(* The desk, on the leads its lists show.                                  *)
Moves(l, s) ==
  /\ moves < MaxMoves /\ moves' = moves + 1
  /\ l \in Live /\ card[l].stage # s
  /\ card' = [card EXCEPT ![l].stage = s,
                          ![l].on = IF s = "manager" THEN FALSE
                                    ELSE IF s = "funnel" THEN TRUE ELSE @]
  /\ freed' = StillFree(IF s \in HumanLed THEN freed ELSE freed \cup {l})
  /\ UNCHANGED <<owner, tagged, sweep, errands>>

SwitchesOn(l) ==
  /\ moves < MaxMoves /\ moves' = moves + 1
  /\ l \in Live /\ ~card[l].on
  /\ card' = [card EXCEPT ![l].on = TRUE]
  /\ freed' = freed \cup {l}
  /\ UNCHANGED <<owner, tagged, sweep, errands>>
------------------------------------------------------------------------------
PeopleInit ==
  /\ owner = [t \in Threads |-> Nobody]
  /\ card = [l \in Leads |-> Unborn] /\ tagged = {}
  /\ sweep = NoSweep /\ errands = {}
  /\ freed = {} /\ moves = 0

PeopleNext ==
  \/ \E t \in Threads, p \in Phones \cup {NoPhone} : FirstMessage(t, p)
  \/ \E t \in Threads : WritesAgain(t)
  \/ \E t \in Threads, p \in Phones : TypesNumber(t, p) \/ NamesNumber(t, p)
  \/ \E p \in Phones : SweepReads(p)
  \/ SweepFolds
  \/ SweepFails
  \/ \E l \in Leads : Classifies(l) \/ ReadsLead(l, "touch") \/ ReadsLead(l, "turn")
  \/ \E j \in errands : ReadsAnew(j) \/ WritesLead(j)
  \/ \E l \in Leads : SwitchesOn(l) \/ \E s \in LeadStages \ {"unborn"} : Moves(l, s)

PeopleSpec ==
  /\ PeopleInit /\ [][PeopleNext]_peopleVars
  /\ \A p \in Phones : WF_peopleVars(SweepReads(p))
  /\ WF_peopleVars(SweepFolds \/ SweepFails)
------------------------------------------------------------------------------
(* Shapes of the records, and the lead of a thread exists.                 *)
PeopleTypeOK ==
  /\ owner \in [Threads -> Leads \cup {Nobody}]
  /\ card \in [Leads -> Cards]
  /\ errands \subseteq [by : {"touch", "turn"}, of : Leads, seen : Cards]
  /\ \A t \in Threads : owner[t] # Nobody => owner[t] \in Born
  /\ tagged \subseteq Born /\ freed \subseteq Leads /\ moves \in 0..MaxMoves

(* Where a manager writes from their own phone the bot writes only if the  *)
(* desk has put it there (_claim_for_manager, _silence_bot), or a job has  *)
(* undone the claim: a touch by the lead it read before, or a parking by   *)
(* that or for a hard stop, which the next message of the lead revives.    *)
OneVoice ==
  \A t \in PhoneChats, l \in Leads :
    owner[t] = l /\ Speaks(card[l]) => l \in freed

(* A conversation changes its lead only to a record with the same number   *)
(* (identity.py: a typed number does not re-point it).                     *)
HistoryStays ==
  [][\A t \in Threads :
       owner[t] # Nobody /\ owner'[t] # owner[t] =>
         /\ card'[owner[t]].phone = card'[owner'[t]].phone
         /\ card'[owner[t]].phone # NoPhone]_peopleVars

(* The sweep makes of the leads with one number one lead at most, unless   *)
(* two of them are in the needs cloud for good.  (A fold whose survivor is *)
(* a retired record leaves none.)                                          *)
OneRecord == \A p \in Phones : Cardinality(Group(p)) <= 1
OnePerPhone ==
  <>[](\A p \in Phones : ~Clash(Group(p))) => <>[]OneRecord

(* Not so, though the worker says that the sweep "is what makes the rule   *)
(* true rather than mostly true" (main.py:1010): leads that share a phone  *)
(* are folded together in the end.                                         *)
EveryoneFolded == <>[]OneRecord
==================================================================================
