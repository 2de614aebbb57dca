-------------------------------- MODULE CrmGate --------------------------------
(***************************************************************************)
(* The read side of the CRM for one lead: the gate every automated line    *)
(* passes before it is sent, the pull that refreshes the cached state, and *)
(* the two hourly passes that write to a lead because of what the CRM      *)
(* says.  The CRM belongs to the managers; we know it by reads, each of    *)
(* which may fail as a whole (no opinion) or by one of its tools (an       *)
(* answer without facts).                                                  *)
(***************************************************************************)
EXTENDS Integers, FiniteSets

CONSTANTS
  Cases,       \* what the CRM may hold of the lead
  MaxHandBack  \* bound: switches and moves of the panel

Outcome == {"none", "think", "refused"}
Facts   == [result : Outcome,  \* the manager's last result of a contact
            called : BOOLEAN,  \* an answered call of the last 72 hours, or
                               \* a next contact that is still ahead
            won    : BOOLEAN,  \* a contract
            owned  : BOOLEAN]  \* owner = manager
NoFacts == [result |-> "none", called |-> FALSE, won |-> FALSE,
            owned |-> FALSE]
ASSUME GateAssumption == Cases \subseteq Facts /\ MaxHandBack \in Nat

Sources == {"agent", "followup", "call_failed", "crm_followthrough"}

VARIABLES
  crm,     \* what the CRM holds
  cached,  \* crm_lead_state, and whether it is younger than the TTL
  client,  \* the lead: stage, agent_enabled, agent_off_manual
  drafts,  \* sources with a line pending in the outbox
  acted,   \* results the follow-through has journalled
  picked,  \* the result the running pass has read for this lead
  lately,  \* a line went out in the last 48 hours
  rescued, \* a rescue was journalled in the last week
  handed   \* how much of MaxHandBack is used

gateVars == <<crm, cached, client, drafts, acted, picked, lately, rescued,
              handed>>
------------------------------------------------------------------------------
\* hold_kind.  A slip: ownership is looked at first.
OwnerFirstHold(f) ==
  CASE f.owned                         -> "initiative"
    [] ~f.owned /\ (f.result = "refused" \/ f.won) -> "silence"
    [] ~f.owned /\ f.result # "refused" /\ ~f.won /\ f.called -> "initiative"
    [] OTHER                           -> "none"
HoldKind(f) ==
  IF f.result = "refused" THEN "silence"
  ELSE IF f.owned THEN "initiative"
  ELSE IF f.won THEN "silence"
  ELSE IF f.called THEN "initiative"
  ELSE "none"

\* A slip: the row is dated and not marked as found.
DatedOnly(f) == [known |-> FALSE, fresh |-> TRUE, facts |-> f]
Unread     == [known |-> FALSE, fresh |-> FALSE, facts |-> NoFacts]
Answer(f)  == [known |-> TRUE, fresh |-> TRUE, facts |-> f]
\* What a read that gets an answer says: what the CRM holds, or, when one of
\* its tools has failed, a card without facts.
Answers == {crm, NoFacts}

Active  == {"qualifying"}
Stages  == Active \cup {"manager"}

\* A slip: the sweep leaves the switch alone.
StageOnly(c) == [c EXCEPT !.stage = "manager"]
StoodDown(c) == [c EXCEPT !.stage = "manager", !.on = FALSE]
------------------------------------------------------------------------------
(* The CRM and the panel.                                                  *)
ManagerRecords ==
  /\ crm' \in Cases \ {crm}
  /\ UNCHANGED <<cached, client, drafts, acted, picked, lately, rescued, handed>>

CacheAges ==
  /\ cached.fresh
  /\ cached' = [cached EXCEPT !.fresh = FALSE]
  /\ UNCHANGED <<crm, client, drafts, acted, picked, lately, rescued, handed>>

\* The switch, or a stage that re-arms the bot.
PanelDecides ==
  /\ handed < MaxHandBack /\ handed' = handed + 1
  /\ client' \in {[client EXCEPT !.on = TRUE, !.off = FALSE],
                  [client EXCEPT !.on = FALSE, !.off = TRUE],
                  [stage |-> "qualifying", on |-> TRUE, off |-> FALSE]} \ {client}
  /\ UNCHANGED <<crm, cached, drafts, acted, picked, lately, rescued>>

Quietens ==
  /\ lately' = FALSE
  /\ \/ lately /\ rescued' = rescued
     \/ ~lately /\ rescued /\ rescued' = FALSE
  /\ UNCHANGED <<crm, cached, client, drafts, acted, picked, handed>>
------------------------------------------------------------------------------
(* What writes: the reply job and the follow-ups of a lead whose bot is    *)
(* on, and the passes of CrmRescueService.                                 *)
Composes(s) ==
  /\ s \in {"agent", "followup"} /\ s \notin drafts /\ client.on
  /\ drafts' = drafts \cup {s}
  /\ UNCHANGED <<crm, cached, client, acted, picked, lately, rescued, handed>>

Engaged == lately \/ drafts # {}

\* _rescue_one and call_failed: the phone list is read from the CRM itself.
Rescues ==
  /\ picked = "none" /\ client.on
  /\ cached.facts.result # "refused" /\ ~rescued /\ ~Engaged
  /\ client' = [stage |-> "qualifying", on |-> TRUE, off |-> FALSE]
  /\ rescued' = TRUE
  /\ drafts' \in {drafts, drafts \cup {"call_failed"}}
  /\ UNCHANGED <<crm, cached, acted, picked, lately, handed>>

\* run_followthrough reads every candidate first and then writes to them one
\* by one, minutes apart.
PicksResult ==
  /\ picked = "none" /\ client.on /\ cached.facts.result = "think"
  /\ picked' = "think"
  /\ UNCHANGED <<crm, cached, client, drafts, acted, lately, rescued, handed>>

FollowsThrough ==
  /\ picked # "none"
  /\ picked' = "none"
  /\ IF picked \in acted \/ Engaged THEN UNCHANGED <<acted, drafts>>
     ELSE /\ acted' = acted \cup {picked}
          /\ drafts' \in {drafts, drafts \cup {"crm_followthrough"}}
  /\ UNCHANGED <<crm, cached, client, lately, rescued, handed>>
------------------------------------------------------------------------------
(* The gate.  A line is taken from the outbox and either sent or held.     *)
Leaves(s)  == drafts' = drafts \ {s}

CanceledByHand(s) ==
  /\ s \in drafts /\ client.off
  /\ Leaves(s)
  /\ UNCHANGED <<crm, cached, client, acted, picked, lately, rescued, handed>>

\* allow_send's verdict on what _state_for returns.  A slip: replies too.
HoldsAll(s, f) == HoldKind(f) # "none"
Holds(s, f) == \/ HoldKind(f) = "silence"
               \/ HoldKind(f) = "initiative" /\ s # "agent"

Enforced(c, f) == IF HoldKind(f) = "silence" THEN StoodDown(c) ELSE c

Judged(s, f) ==
  IF Holds(s, f) THEN client' = Enforced(client, f) /\ lately' = lately
  ELSE client' = client /\ lately' = TRUE

\* The row while it is younger than the TTL, a read when it is not, and no
\* opinion when the read fails.
Gated(s) ==
  /\ s \in drafts /\ ~client.off
  /\ Leaves(s)
  /\ \/ cached.fresh /\ Judged(s, cached.facts) /\ cached' = cached
     \/ ~cached.fresh /\ \E f \in Answers : Judged(s, f) /\ cached' = Answer(f)
     \/ ~cached.fresh /\ Judged(s, NoFacts) /\ cached' = cached
  /\ UNCHANGED <<crm, acted, picked, rescued, handed>>
------------------------------------------------------------------------------
(* The pull.  sync_active enforces, sync_outcomes only reads.              *)
SyncActive(f) ==
  /\ client.on /\ client.stage \in Active
  /\ cached' = Answer(f)
  /\ client' = Enforced(client, f)
  /\ UNCHANGED <<crm, drafts, acted, picked, lately, rescued, handed>>

SyncOutcomes(f) ==
  /\ client.stage \notin Active
  /\ cached' = Answer(f)
  /\ UNCHANGED <<crm, client, drafts, acted, picked, lately, rescued, handed>>
------------------------------------------------------------------------------
GateInit ==
  /\ crm \in Cases
  /\ cached = Unread
  /\ client = [stage |-> "qualifying", on |-> TRUE, off |-> FALSE]
  /\ drafts = {} /\ acted = {} /\ picked = "none"
  /\ lately = FALSE /\ rescued = FALSE /\ handed = 0

GateNext ==
  \/ ManagerRecords
  \/ CacheAges
  \/ PanelDecides
  \/ Quietens
  \/ Rescues
  \/ PicksResult
  \/ FollowsThrough
  \/ \E s \in Sources : Composes(s) \/ CanceledByHand(s) \/ Gated(s)
  \/ \E f \in Answers : SyncActive(f) \/ SyncOutcomes(f)

\* The pull ticks every ten minutes, stalest first, and the CRM answers it
\* again and again.
PullAnswers == SyncActive(crm)
GateSpec == GateInit /\ [][GateNext]_gateVars /\ WF_gateVars(PullAnswers)
------------------------------------------------------------------------------
(* Shapes of the lead, the row and the outbox.                             *)
GateTypeOK ==
  /\ crm \in Cases
  /\ cached \in [known : BOOLEAN, fresh : BOOLEAN, facts : Facts]
  /\ cached.fresh => cached.known
  /\ client \in [stage : Stages, on : BOOLEAN, off : BOOLEAN]
  /\ drafts \subseteq Sources
  /\ acted \subseteq Outcome \ {"none"} /\ picked \in {"none", "think"}
  /\ {lately, rescued} \subseteq BOOLEAN /\ handed \in 0..MaxHandBack

(* A lead who asks gets an answer (gate.py, the two kinds of hold): only a *)
(* refusal or a close holds a reply, or a person who took the thread.      *)
Closed(f) == f.result = "refused" \/ f.won
QuestionsAnswered ==
  [][("agent" \in drafts /\ "agent" \notin drafts' /\ lately' = lately /\ ~lately)
       => client.off \/ Closed(cached'.facts)]_gateVars

(* The bot is switched off in the very transaction that learns of a        *)
(* refusal or of a close nobody owns, whichever path reads it.             *)
SilenceStandsDown ==
  [][cached' # cached /\ cached'.fresh /\ client.stage \in Active
       /\ (\/ cached'.facts.result = "refused"
           \/ cached'.facts.won /\ ~cached'.facts.owned)
       => ~client'.on]_gateVars

(* A refusal that stands in the CRM ends with the bot off, whatever the    *)
(* panel, the passes and failed reads do in between (policy.py,            *)
(* REFUSED_STATUS).  A lead parked with the manager and switched on by     *)
(* hand is left to the gate: the pull does not visit it.                   *)
RefusalStands ==
  <>[](crm.result = "refused") => <>[](client.on => client.stage \notin Active)

(* Not so, though gate.py says it ("CRM unreachable: keep any cached row,  *)
(* report no opinion"): a refusal we have read is remembered until the CRM *)
(* itself says something else.                                             *)
RefusalRemembered ==
  [][cached.facts.result = "refused" /\ cached'.facts.result # "refused"
       => crm.result # "refused"]_gateVars
==============================================================================
