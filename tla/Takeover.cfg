\* A manager takes, blocks and gives back the lead, or switches the channel,
\* while two runs send through the platform's window and the CRM gate, the
\* connector only queues, and the lead and the platform's app write.
CONSTANTS
  Rows = {r1, r2}
  NoRow = NoRow
  Ticks = {k1, k2}
  ReplyJobs = {}
  NudgeJobs = {}
  NoOne = NoOne
  MaxAttempts = 1
  StaleAfter = 1
  RetryAfter = 0
  StepDelay = 0
  Steps = 1
  BackOff = 0
  WindowLength = 1
  HasWindow = TRUE
  Confirms = FALSE
  Outreach = FALSE
  DefiniteErrors = FALSE
  CrmGated = TRUE
  MaxBubbles = 1
  MaxSaid = 1
  MaxMoves = 2
  DeskOps = {"send", "bot", "block", "close", "call_failed", "channel", "app_reply"}
  MaxCrashes = 0
SPECIFICATION Spec
SYMMETRY Symmetry
CHECK_DEADLOCK FALSE
INVARIANTS DeliveryInv SilencedIsSilent MuteHolds
