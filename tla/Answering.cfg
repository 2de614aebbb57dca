\* A lead writes, a reply job answers, and a job or a run may die.
CONSTANTS
  Rows = {r1, r2, r3}
  NoRow = NoRow
  Ticks = {k1}
  ReplyJobs = {j1}
  NudgeJobs = {}
  NoOne = NoOne
  MaxAttempts = 1
  StaleAfter = 0
  RetryAfter = 0
  StepDelay = 0
  Steps = 0
  BackOff = 1
  WindowLength = 0
  HasWindow = FALSE
  Confirms = TRUE
  Outreach = TRUE
  DefiniteErrors = TRUE
  CrmGated = FALSE
  MaxBubbles = 1
  MaxSaid = 1
  MaxMoves = 0
  DeskOps = {}
  MaxCrashes = 1
SPECIFICATION FairSpec
CHECK_DEADLOCK FALSE
PROPERTIES AwaitingEnds
