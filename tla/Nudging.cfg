\* A lead is nudged along a schedule of two steps while it may answer, and a
\* nudge job or a run may be killed.
CONSTANTS
  Rows = {r1, r2}
  NoRow = NoRow
  Ticks = {k1}
  ReplyJobs = {}
  NudgeJobs = {n1}
  NoOne = NoOne
  MaxAttempts = 0
  StaleAfter = 0
  RetryAfter = 0
  StepDelay = 1
  Steps = 2
  BackOff = 1
  WindowLength = 0
  HasWindow = FALSE
  Confirms = TRUE
  Outreach = TRUE
  DefiniteErrors = TRUE
  CrmGated = FALSE
  MaxBubbles = 1
  MaxSaid = 1
  MaxMoves = 2
  DeskOps = {"send", "move"}
  MaxCrashes = 1
SPECIFICATION FairSpec
CHECK_DEADLOCK FALSE
PROPERTIES NudgesEnd
