\* The two sweeps and the push at hand-off, over one lead that moves about,
\* with one pusher killed.
CONSTANTS
  Leads = {a}
  Batch = 1
  FailureCap = 2
  DefiniteErrors = FALSE
  MaxTurns = 4
  MaxCrashes = 1
SPECIFICATION FairSpec
CHECK_DEADLOCK FALSE
INVARIANTS TypeOK RecordTellsTruth ToldOnce FailuresBounded
PROPERTIES HandoffTold
