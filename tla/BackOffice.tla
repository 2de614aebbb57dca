------------------------------- MODULE BackOffice -------------------------------
(***************************************************************************)
(* Five jobs of the worker beside the conversation: the CRM gate with its  *)
(* pull and rescue, the public comments under one connector's caps, the    *)
(* merging of leads, the attachments that wait for words, and the waking   *)
(* of cold leads.  In a behaviour one of them moves and the others rest:   *)
(* where two of them write one column, each has the other's steps among    *)
(* its own.  The stage and the bot switch of a lead are three modules'     *)
(* business: in People a touch of the waking and the parking of a turn are *)
(* errands; in Waking taking a lead stands for whatever makes it a         *)
(* human's; and in CrmGate the panel's steps do, beside its own of the     *)
(* pull and of the rescue.                                                 *)
(***************************************************************************)
EXTENDS CrmGate, Account, People, Attachments, Waking

VARIABLE focus  \* the one that moves

officeVars == <<focus, gateVars, accountVars, peopleVars, mediaVars, wakingVars>>
------------------------------------------------------------------------------
InGate(A)    == focus = "gate" /\ A
                /\ UNCHANGED <<focus, accountVars, peopleVars, mediaVars, wakingVars>>
InAccount(A) == focus = "account" /\ A
                /\ UNCHANGED <<focus, gateVars, peopleVars, mediaVars, wakingVars>>
InPeople(A)  == focus = "people" /\ A
                /\ UNCHANGED <<focus, gateVars, accountVars, mediaVars, wakingVars>>
InMedia(A)   == focus = "media" /\ A
                /\ UNCHANGED <<focus, gateVars, accountVars, peopleVars, wakingVars>>
InWaking(A)  == focus = "waking" /\ A
                /\ UNCHANGED <<focus, gateVars, accountVars, peopleVars, mediaVars>>

\* A CRM that nobody looks at holds nothing, a chat no attachment, and the
\* comments are of one kind.
OfficeInit ==
  /\ focus \in {"gate", "account", "people", "media", "waking"}
  /\ GateInit /\ (focus = "gate" \/ crm = NoFacts)
  /\ MediaInit /\ (focus = "media" \/ \A m \in Media : line[m] = NoLine)
  /\ AccountInit /\ (focus = "account" \/ kindOf = CHOOSE cast \in Casts : TRUE)
  /\ PeopleInit /\ WakingInit

OfficeNext ==
  \/ InGate(GateNext)
  \/ InAccount(AccountNext)
  \/ InPeople(PeopleNext)
  \/ InMedia(MediaNext)
  \/ InWaking(WakingNext)

\* The fairness of GateSpec, AccountSpec, PeopleSpec, MediaSpec and WakingSpec.
\* As the others rest, one condition stands for one of each.
OfficeFairness ==
  /\ WF_officeVars(\/ InGate(PullAnswers) \/ InAccount(HourPasses)
                   \/ InPeople(SweepFolds \/ SweepFails)
                   \/ InMedia(BackfillGoesOn) \/ InWaking(HarvestGoesOn))
  /\ WF_officeVars(InAccount(PassGoesOn) \/ InMedia(\E m \in Media : WindowCloses(m)))
  /\ \A p \in Phones :
       WF_officeVars(InPeople(SweepReads(p)) \/ InMedia(\E m \in Media : ComesDue(m)))
  /\ SF_officeVars(InAccount(GrantedPass))

OfficeSpec == OfficeInit /\ [][OfficeNext]_officeVars /\ OfficeFairness

(* The type invariant of each.                                             *)
OfficeTypeOK == GateTypeOK /\ AccountTypeOK /\ PeopleTypeOK /\ MediaTypeOK /\ WakingTypeOK
==============================================================================
