\* The dispatcher reads the queue before a job commits its answer and
\* enqueues the next job after.
CONSTANTS
  Rows = {r1, r2}
  NoRow = NoRow
  Ticks = {k1}
  ReplyJobs = {j1, j2}
  NudgeJobs = {}
  NoOne = NoOne
  MaxAttempts = 1
  StaleAfter = 0
  RetryAfter = 0
  StepDelay = 0
  Steps = 0
  BackOff = 0
  WindowLength = 0
  HasWindow = FALSE
  Confirms = TRUE
  Outreach = TRUE
  DefiniteErrors = TRUE
  CrmGated = FALSE
  MaxBubbles = 1
  MaxSaid = 1
  MaxMoves = 0
  DeskOps = {}
  MaxCrashes = 0
SPECIFICATION Spec
SYMMETRY Symmetry
CHECK_DEADLOCK FALSE
INVARIANTS OneAnswer
