\* Every case of the CRM with one decision of the panel; two public actions an
\* hour, two runs that send, and one line by hand, hidden act or pass that dies;
\* three chats, two of them on managers' phones, two numbers and a move of the
\* desk or a job that knows a lead from before; a voice note and a picture; two
\* cold leads with three threads of which one may come to nothing each time, a
\* cap of two touches and lists of two.
CONSTANTS
  Cases <- MCCases
  MaxHandBack = 1
  Comments <- MCComments
  PostOf <- MCPostOf
  Casts <- MCCasts
  Targets = {x}
  AccountCap = 2
  CommentCap = 1
  PerPostCap = 1
  VisitCap = 1
  Share = 50
  Senders = 2
  MaxIrregular = 1
  Leads = {l1, l2, l3}
  Nobody = Nobody
  Threads = {t1, t2, t3}
  PhoneChats = {t2, t3}
  Phones = {n1, n2}
  NoPhone = NoPhone
  Profiled = {l1}
  MaxMoves = 1
  Voices = {v}
  Pictures = {i}
  MaxExtras = 1
  Sleepers = {s1, s2}
  Chats = {c1, c2, c3}
  SleeperOf <- MCSleeperOf
  ReactivationCap = 2
  BatchPerRun = 2
  Hopeless = {c2}
  MaxMishaps = 1
  MaxTurns = 1
  s1 = s1
  s2 = s2
  c1 = c1
  c2 = c2
  c3 = c3
SPECIFICATION OfficeSpec
CHECK_DEADLOCK FALSE
INVARIANTS OfficeTypeOK OneVoice NeverTwice CeilingHolds OneJob
PROPERTIES QuestionsAnswered SilenceStandsDown RefusalStands CommentsSettled HistoryStays OnePerPhone HoldEnds Sparing DueReached
