\* Two overlapping runs of the sender, two lines, a manager who queues,
\* deletes and retries them, soft blocks, and one killed run.
CONSTANTS
  Rows = {r1, r2}
  NoRow = NoRow
  Ticks = {k1, k2}
  ReplyJobs = {}
  NudgeJobs = {}
  NoOne = NoOne
  MaxAttempts = 1
  StaleAfter = 0
  RetryAfter = 1
  StepDelay = 2
  Steps = 1
  BackOff = 1
  WindowLength = 2
  HasWindow = FALSE
  Confirms = TRUE
  Outreach = TRUE
  DefiniteErrors = FALSE
  CrmGated = FALSE
  MaxBubbles = 1
  MaxSaid = 0
  MaxMoves = 2
  DeskOps = {"send", "drop", "retry"}
  MaxCrashes = 1
SPECIFICATION FairSpec
CHECK_DEADLOCK FALSE
INVARIANTS StatusTellsTruth OneOwner AtMostOnce
PROPERTIES CourierSpec LinesSettle
