\* Two threads that want an answer and one that never calls, one slot for a
\* call, one outage, one killed job, one lead who writes again while waiting.
CONSTANTS
  Crowd = {t, u, q}
  Quiet = {q}
  DispatchCap = 2
  MaxCalls = 1
  MaxOutages = 1
  MaxKills = 1
  MaxRepeats = 1
SPECIFICATION FleetSpec
CHECK_DEADLOCK FALSE
INVARIANT CapHolds
PROPERTIES EveryoneAnswered
