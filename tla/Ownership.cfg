\* Reply and nudge jobs think and a run sends while the lead is moved about.
CONSTANTS
  Rows = {r1, r2}
  NoRow = NoRow
  Ticks = {k1}
  ReplyJobs = {j1}
  NudgeJobs = {n1}
  NoOne = NoOne
  MaxAttempts = 1
  StaleAfter = 0
  RetryAfter = 0
  StepDelay = 0
  Steps = 1
  BackOff = 0
  WindowLength = 0
  HasWindow = FALSE
  Confirms = TRUE
  Outreach = TRUE
  DefiniteErrors = TRUE
  CrmGated = FALSE
  MaxBubbles = 1
  MaxSaid = 1
  MaxMoves = 1
  DeskOps = {"bot", "move", "stage"}
  MaxCrashes = 0
SPECIFICATION Spec
SYMMETRY Symmetry
CHECK_DEADLOCK FALSE
INVARIANTS TypeOK
PROPERTIES HumanKeepsLead
