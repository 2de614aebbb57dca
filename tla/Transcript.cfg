\* Two texts or two photos and one line of ours at most, two readers at most, one
\* unsend, and one mishap: an erased row, an unsend that goes astray or a job
\* that dies.
CONSTANTS
  Links <- AllLinks
  Texts = {t, u}
  Photos = {p, q}
  Robots = {}
  Owns = {o}
  Hands = {}
  Poller = poller
  OffMinutes = {x}
  HookJobs = {h}
  Idle = Idle
  t = t
  u = u
  p = p
  q = q
  o = o
  poller = poller
  x = x
  h = h
  MaxClock = 3
  RevokeAge = 0
  MaxUnsends = 1
  MaxMishaps = 1
SPECIFICATION Spec
CHECK_DEADLOCK FALSE
INVARIANTS TypeOK StoredOnce RetractionTrue OwesAnswer
PROPERTIES NotFiledAgain NothingLost UnsendEnds
