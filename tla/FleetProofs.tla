------------------------------ MODULE FleetProofs ------------------------------
(***************************************************************************)
(* The cap on slow reply jobs, for any number of threads, any cap and any  *)
(* outages and kills.  A job passes only if whoever is marked, itself      *)
(* included, is within the cap, and whoever calls is marked: so the jobs   *)
(* that call are within the cap right after a job has passed, and no other *)
(* step adds one.                                                          *)
(***************************************************************************)
EXTENDS Fleet, FiniteSetTheorems, TLAPS

Callers == {t \in Crowd : job[t] \in Calling}

FleetShapes ==
  /\ job \in [Crowd -> {"none", "queued", "marked"} \cup Calling]
  /\ stale \in Nat

CapInvariant == FleetShapes /\ CapHolds

(* Of two sets of threads the smaller one counts no more.                  *)
LEMMA FewerCount ==
  ASSUME NEW S, NEW T, S \subseteq T, T \subseteq Crowd
  PROVE  Cardinality(S) \in Nat /\ Cardinality(T) \in Nat
           /\ Cardinality(S) <= Cardinality(T)
<1>1. IsFiniteSet(T)
  BY FleetAssumption, FS_Subset
<1>2. IsFiniteSet(S) /\ Cardinality(S) <= Cardinality(T)
  BY <1>1, FS_Subset
<1>. QED
  BY <1>1, <1>2, FS_CardinalityType

(* No step but Proceeds makes a caller of a job.                           *)
LEMMA NoNewCaller ==
  ASSUME FleetShapes, FleetNext, \A t \in Crowd : ~Proceeds(t)
  PROVE  Callers' \subseteq Callers
<1>. USE DEF FleetShapes, Callers, Calling
<1>1. ASSUME NEW t \in Crowd, LeadWrites(t) PROVE Callers' \subseteq Callers
  BY <1>1 DEF LeadWrites
<1>2. CASE Ticks
  BY <1>2 DEF Ticks
<1>3. ASSUME NEW t \in Crowd, Starts(t) \/ TurnsBack(t) \/ Answered(t) \/ Refused(t)
      PROVE  Callers' \subseteq Callers
  BY <1>3 DEF Starts, TurnsBack, Answered, Refused
<1>4. ASSUME NEW t \in Crowd,
             Misses(t) \/ Clears(t) \/ Commits(t) \/ Trips(t) \/ Killed(t)
      PROVE  Callers' \subseteq Callers
  BY <1>4 DEF Misses, Clears, Commits, Trips, Killed
<1>5. CASE Expires \/ AgesOut \/ GoesDown \/ ComesBack
  BY <1>5 DEF Expires, AgesOut, GoesDown, ComesBack
<1>. QED
  BY <1>1, <1>2, <1>3, <1>4, <1>5 DEF FleetNext

(* Right after a job has passed, the callers are among the marked.         *)
LEMMA PassedIsCounted ==
  ASSUME FleetShapes, NEW t \in Crowd, Proceeds(t)
  PROVE  Cardinality(Callers') <= MaxCalls
<1>1. Callers' \subseteq Marked /\ Marked \subseteq Crowd
  BY DEF Proceeds, FleetShapes, Callers, Marked, Calling
<1>2. Cardinality(Callers') \in Nat /\ Cardinality(Marked) \in Nat
        /\ Cardinality(Callers') <= Cardinality(Marked)
  BY <1>1, FewerCount
<1>3. Cardinality(Marked) + stale <= MaxCalls
  BY <1>2, FleetAssumption DEF Proceeds, Full, FleetShapes
<1>. QED
  BY <1>2, <1>3, FleetAssumption DEF FleetShapes

(* The shapes hold at every step.                                          *)
LEMMA ShapesKept ==
  ASSUME FleetShapes, [FleetNext]_fleetVars
  PROVE  FleetShapes'
<1>. USE DEF FleetShapes, Calling
<1>1. ASSUME NEW t \in Crowd, LeadWrites(t) PROVE FleetShapes'
  BY <1>1 DEF LeadWrites
<1>2. CASE Ticks
  BY <1>2 DEF Ticks
<1>3. ASSUME NEW t \in Crowd, Starts(t) \/ TurnsBack(t) \/ Proceeds(t) \/ Answered(t)
      PROVE  FleetShapes'
  BY <1>3 DEF Starts, TurnsBack, Proceeds, Answered
<1>4. ASSUME NEW t \in Crowd,
             Refused(t) \/ Misses(t) \/ Clears(t) \/ Commits(t) \/ Trips(t)
      PROVE  FleetShapes'
  BY <1>4 DEF Refused, Misses, Clears, Commits, Trips
<1>5. ASSUME NEW t \in Crowd, Killed(t) PROVE FleetShapes'
  BY <1>5 DEF Killed
<1>6. CASE Expires \/ AgesOut \/ GoesDown \/ ComesBack
  BY <1>6 DEF Expires, AgesOut, GoesDown, ComesBack
<1>7. CASE UNCHANGED fleetVars
  BY <1>7 DEF fleetVars
<1>. QED
  BY <1>1, <1>2, <1>3, <1>4, <1>5, <1>6, <1>7 DEF FleetNext

(* "max SLOW reply jobs running at once": the marker is set before the     *)
(* count is read, so however the jobs interleave no more than the cap pass.*)
THEOREM CapNeverPassed == FleetSpec => []CapHolds
<1>1. FleetInit => CapInvariant
  <2>. SUFFICES ASSUME FleetInit PROVE CapInvariant
    OBVIOUS
  <2>1. FleetShapes
    BY DEF FleetInit, FleetShapes
  <2>2. {t \in Crowd : job[t] \in Calling} = {}
    BY DEF FleetInit, Calling
  <2>3. CapHolds
    BY <2>2, FS_EmptySet, FleetAssumption DEF CapHolds
  <2>. QED
    BY <2>1, <2>3 DEF CapInvariant
<1>2. CapInvariant /\ [FleetNext]_fleetVars => CapInvariant'
  <2>. SUFFICES ASSUME CapInvariant, [FleetNext]_fleetVars PROVE CapInvariant'
    OBVIOUS
  <2>. USE DEF CapInvariant
  <2>1. Cardinality(Callers') <= MaxCalls
    <3>1. CASE \E t \in Crowd : Proceeds(t)
      BY <3>1, PassedIsCounted
    <3>2. CASE FleetNext /\ \A t \in Crowd : ~Proceeds(t)
      <4>1. Callers' \subseteq Callers /\ Callers \subseteq Crowd
        BY <3>2, NoNewCaller DEF Callers
      <4>2. Cardinality(Callers') \in Nat /\ Cardinality(Callers) \in Nat
              /\ Cardinality(Callers') <= Cardinality(Callers)
        BY <4>1, FewerCount
      <4>. QED
        BY <4>2, FleetAssumption DEF CapHolds, Callers
    <3>3. CASE UNCHANGED fleetVars
      BY <3>3 DEF CapHolds, Callers, fleetVars
    <3>. QED
      BY <3>1, <3>2, <3>3
  <2>. QED
    BY <2>1, ShapesKept DEF CapHolds, Callers
<1>. QED
  BY <1>1, <1>2, PTL DEF FleetSpec, CapInvariant
==============================================================================
