\* Two chats of one person, both answered long enough to have a dossier.
CONSTANTS
  Cases <- MCCases
  MaxHandBack = 0
  Comments <- MCComments
  PostOf <- MCPostOf
  Casts <- MCCasts
  Targets = {x}
  AccountCap = 2
  CommentCap = 1
  PerPostCap = 1
  VisitCap = 1
  Share = 50
  Senders = 1
  MaxIrregular = 0
  Leads = {l1, l2}
  Nobody = Nobody
  Threads = {t1, t2}
  PhoneChats = {}
  Phones = {n1}
  NoPhone = NoPhone
  Profiled = {l1, l2}
  MaxMoves = 0
  Voices = {v}
  Pictures = {}
  MaxExtras = 0
  Sleepers = {s1, s2}
  Chats = {c1, c2, c3}
  SleeperOf <- MCSleeperOf
  ReactivationCap = 2
  BatchPerRun = 2
  Hopeless = {c2}
  MaxMishaps = 0
  MaxTurns = 0
  s1 = s1
  s2 = s2
  c1 = c1
  c2 = c2
  c3 = c3
SPECIFICATION OfficeSpec
CHECK_DEADLOCK FALSE
PROPERTY EveryoneFolded
