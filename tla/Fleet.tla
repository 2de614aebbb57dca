--------------------------------- MODULE Fleet ---------------------------------
(***************************************************************************)
(* The reply fleet of one branch: a tick hands the threads that wait to    *)
(* jobs, a sorted set of markers caps how many of them talk to the broker  *)
(* at once, and a flag in Redis holds the fleet back to one canary while   *)
(* the broker is down.  Jobs are killed, and the broker comes and goes.    *)
(***************************************************************************)
EXTENDS Integers, FiniteSets, Sequences, FiniteSetsExt, SequencesExt

CONSTANTS
  Crowd,        \* threads with somebody who may wait for an answer
  Quiet,        \* those whose turn needs no call and gets no answer: a second
                \* goodbye, a voice note that is not transcribed
  DispatchCap,  \* reply_dispatch_cap
  MaxCalls,     \* reply_max_concurrency
  MaxOutages,   \* bound: how often the broker goes down
  MaxKills,     \* bound: jobs that end without their finally block
  MaxRepeats    \* bound: lines of somebody who is already waiting

\* With as many quiet threads as the cap the others never get a job: the
\* quiet ones stay the oldest.
ASSUME FleetAssumption ==
  /\ Quiet \subseteq Crowd /\ IsFiniteSet(Crowd)
  /\ DispatchCap \in Nat /\ Cardinality(Quiet) < DispatchCap
  /\ MaxCalls \in Nat \ {0} /\ {MaxOutages, MaxKills, MaxRepeats} \subseteq Nat

VARIABLES
  up,       \* the broker answers
  guard,    \* the key broker:down
  waiting,  \* threads_awaiting_reply, the longest wait first
  job,      \* generate_one_reply of each thread
  stale,    \* markers in the set whose job was killed
  outages, kills, repeats

fleetVars == <<up, guard, waiting, job, stale, outages, kills, repeats>>
------------------------------------------------------------------------------
Calling == {"asks", "heard", "decided", "missed"}
Marked  == {t \in Crowd : job[t] \in Calling \cup {"marked"}}

\* zcard against the cap, the own marker included.  A slip: not included.
OthersFull(t) == Cardinality(Marked \ {t}) + stale > MaxCalls
Full(t)       == Cardinality(Marked) + stale > MaxCalls

\* What a tick hands out.
Canary(s) == IF guard THEN SubSeq(s, 1, 1) ELSE s
Oldest == SubSeq(waiting, 1, Min({DispatchCap, Len(waiting)}))
Picked == ToSet(Canary(Oldest))
------------------------------------------------------------------------------
\* A lead writes: last in the order of last_in_at, also when already waiting.
LeadWrites(t) ==
  /\ waiting' = Append(SelectSeq(waiting, LAMBDA u : u # t), t)
  /\ IF t \in ToSet(waiting) THEN repeats < MaxRepeats /\ repeats' = repeats + 1
     ELSE repeats' = repeats
  /\ UNCHANGED <<up, guard, job, stale, outages, kills>>

\* reply_pending_branch; enqueue_job refuses an id that is in flight.
Ticks ==
  /\ \E t \in Picked : job[t] = "none"
  /\ job' = [t \in Crowd |-> IF t \in Picked /\ job[t] = "none"
                             THEN "queued" ELSE job[t]]
  /\ UNCHANGED <<up, guard, waiting, stale, outages, kills, repeats>>

Starts(t) ==
  /\ job[t] = "queued"
  /\ job' = [job EXCEPT ![t] = "marked"]
  /\ UNCHANGED <<up, guard, waiting, stale, outages, kills, repeats>>

\* Over the cap: the job ends at once and takes its marker with it.
TurnsBack(t) ==
  /\ job[t] = "marked" /\ Full(t)
  /\ job' = [job EXCEPT ![t] = "none"]
  /\ UNCHANGED <<up, guard, waiting, stale, outages, kills, repeats>>
Proceeds(t) ==
  /\ job[t] = "marked" /\ ~Full(t)
  /\ job' = [job EXCEPT ![t] = IF t \in Quiet THEN "none" ELSE "asks"]
  /\ UNCHANGED <<up, guard, waiting, stale, outages, kills, repeats>>

\* decide: an answer; an error of this one request, or an answer that comes to
\* no decision, which lifts the guard (breaker.clear); a gateway that is down.
Answered(t) ==
  /\ job[t] = "asks" /\ up
  /\ job' = [job EXCEPT ![t] = "heard"]
  /\ UNCHANGED <<up, guard, waiting, stale, outages, kills, repeats>>
Refused(t) ==
  /\ job[t] = "asks" /\ up
  /\ job' = [job EXCEPT ![t] = "none"] /\ guard' \in {guard, FALSE}
  /\ UNCHANGED <<up, waiting, stale, outages, kills, repeats>>
Misses(t) ==
  /\ job[t] = "asks" /\ ~up
  /\ job' = [job EXCEPT ![t] = "missed"]
  /\ UNCHANGED <<up, guard, waiting, stale, outages, kills, repeats>>

\* breaker.clear, before anything of the decision is stored.
Clears(t) ==
  /\ job[t] = "heard" /\ guard' = FALSE
  /\ job' = [job EXCEPT ![t] = "decided"]
  /\ UNCHANGED <<up, waiting, stale, outages, kills, repeats>>
\* enqueue_reply, the commit and the marker.
Commits(t) ==
  /\ job[t] = "decided"
  /\ waiting' = SelectSeq(waiting, LAMBDA u : u # t)
  /\ job' = [job EXCEPT ![t] = "none"]
  /\ UNCHANGED <<up, guard, stale, outages, kills, repeats>>
\* breaker.trip
Trips(t) ==
  /\ job[t] = "missed"
  /\ guard' = TRUE
  /\ job' = [job EXCEPT ![t] = "none"]
  /\ UNCHANGED <<up, waiting, stale, outages, kills, repeats>>

\* BACKSTOP_TTL_S.  A slip: the flag has no time to live.
Persists == FALSE /\ UNCHANGED fleetVars
Expires ==
  /\ guard /\ guard' = FALSE
  /\ UNCHANGED <<up, waiting, job, stale, outages, kills, repeats>>

\* The worker dies, or the marker's removal does; zremrangebyscore takes it
\* out after reply_job_timeout_s.
Killed(t) ==
  /\ kills < MaxKills /\ kills' = kills + 1
  /\ t \in Marked
  /\ job' = [job EXCEPT ![t] = "none"] /\ stale' = stale + 1
  /\ UNCHANGED <<up, guard, waiting, outages, repeats>>
AgesOut ==
  /\ stale > 0 /\ stale' = stale - 1
  /\ UNCHANGED <<up, guard, waiting, job, outages, kills, repeats>>

GoesDown ==
  /\ up /\ outages < MaxOutages
  /\ up' = FALSE /\ outages' = outages + 1
  /\ UNCHANGED <<guard, waiting, job, stale, kills, repeats>>
ComesBack ==
  /\ ~up /\ up' = TRUE
  /\ UNCHANGED <<guard, waiting, job, stale, outages, kills, repeats>>
------------------------------------------------------------------------------
FleetInit ==
  /\ up = TRUE /\ guard = FALSE /\ waiting = <<>>
  /\ job = [t \in Crowd |-> "none"] /\ stale = 0 /\ outages = 0 /\ kills = 0
  /\ repeats = 0

FleetNext ==
  \/ \E t \in Crowd : LeadWrites(t)
  \/ Ticks
  \/ \E t \in Crowd : Starts(t) \/ TurnsBack(t) \/ Proceeds(t) \/ Answered(t)
                        \/ Refused(t) \/ Misses(t) \/ Clears(t) \/ Commits(t)
                        \/ Trips(t)
  \/ \E t \in Crowd : Killed(t)
  \/ Expires
  \/ AgesOut
  \/ GoesDown
  \/ ComesBack

Works(t) == Starts(t) \/ TurnsBack(t) \/ Proceeds(t) \/ Answered(t) \/ Refused(t)
              \/ Misses(t) \/ Clears(t) \/ Commits(t) \/ Trips(t)
\* Every minute a tick, every job ends, keys and markers age.  Jobs that meet
\* at the cap may all turn back, tick after tick: that a thread never once
\* finds room when it starts, or loses it each time before it counts, is
\* excluded, and so is a broker that refuses one thread for ever or never has
\* anything to say to it.
Room == Cardinality(Marked) + stale < MaxCalls
FleetFairness ==
  /\ WF_fleetVars(Ticks) /\ WF_fleetVars(Expires) /\ WF_fleetVars(AgesOut)
  /\ WF_fleetVars(ComesBack)
  /\ \A t \in Crowd : /\ WF_fleetVars(Works(t))
                      /\ SF_fleetVars(Room /\ Starts(t))
                      /\ SF_fleetVars(Proceeds(t)) /\ SF_fleetVars(Answered(t))
FleetSpec == FleetInit /\ [][FleetNext]_fleetVars /\ FleetFairness
------------------------------------------------------------------------------
(* "max SLOW reply jobs running at once": each counts itself and whoever   *)
(* came before it, so at no interleaving do more than the cap pass.        *)
CapHolds == Cardinality({t \in Crowd : job[t] \in Calling}) <= MaxCalls

(* Whoever waits is answered, whatever outages, killed jobs and quiet      *)
(* threads come between: the guard is lifted by a canary that got an       *)
(* answer, or, when the canary is a thread that never calls, by its TTL.   *)
EveryoneAnswered ==
  \A t \in Crowd \ Quiet : t \in ToSet(waiting) ~> t \notin ToSet(waiting)
==============================================================================
