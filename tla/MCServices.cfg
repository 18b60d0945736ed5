CONSTANTS
  worker = worker
  api = api
  i1 = i1
  i2 = i2
  i3 = i3
  i4 = i4
  i5 = i5
  j1 = j1
  j2 = j2
  j3 = j3
  HandoffTtl = 2
  HandoffLease = 1
  ChallengeTtl = 2
  FormAge = 3
  MaxTime = 3
  MaxSessions = 2
  MaxForms = 2
  Runners = {worker, api}
  KindOf <- MCKindOf
  Models = {"m"}
  ClassLimit <- MCClassLimit
  DailyLimit = 2
  Protected = 1
  DayLength = 2
  ReservationTerm = 1
  Backoff = 1
  ReviewRequests = 2
  MaxHour = 2
  MaxReservations = 3
  Nodes <- MCNodes
  Items <- MCItems
  NodeTokens = 2
  GraphTokens = 3
  GraphRequests = 2
  WallTime = 2
  ActiveRuns = 1
  Spoiling = {i4}
  Invalid = {i2}
  Oversized = {i5}
  ContextItems = 3
  MaxCalls = 6
  BatchRequests = 5
  BatchTokens = 4
  RequestTokens = 2
  MaxTick = 2
  MaxRuns = 2
  Pollers = {"p1"}
  Postings = {"a", "b"}
  Poor = {"a"}
  Feeds <- MCFeeds
  PageSize = 1
  SliceReads = 2
  SourceLease = 1
  ScanTerm = 2
  VerifyTerm = 0
  ManualGap = 1
  PollInterval = 0
  BackoffLimit = 1
  RetryAfter = 1
  ClosesAfter = 1
  DropMinimum = 2
  MaxMinute = 1
  MaxRevision = 2
  Jobs = {j1, j2, j3}
  Listed = {j1}
  DraftsOverlap = FALSE
  Syncers = {"worker"}
  MailOf <- MCMailOf
  Aged = {3}
  BatchContexts = 2
  ScanMessages = 2
  ScanPages = 2
  MailFaults = {"stop", "network", "denied", "garbled"}
  MaxLeases = 3
  Enrollable = {1, 2}
  MaximumAssignments = 1
  Drafters = {"w1"}
  DraftAttempts = 2
  MaxGenerations = 2
  MaxPackets = 2
  MaxFences = 2
  Documents = {"d1", "d2"}
  Legacy = {"d1"}
  Backed <- MCBacked
  Limits <- MCLimits
  Portals <- MCPortals
  Scripted = {"visa"}
  MaxPasses = 3
  Mail = {1, 2}
  ReceivedAt <- MCReceivedAt
  Classified <- MCClassified
  OwnerKinds = {"UNKNOWN"}
  Windows <- MCWindows
  Observation = 1
  MaxDate = 2
  MaxHistory = 3
SPECIFICATION ServicesSpec
INVARIANTS
  ServicesTypeOK
  SubmittedFormIsCurrent
  WireWithinQuota
  WithinDeclaredBudget
  BatchIsolates
  IngestedIsVerified
  OnePerVacancy
  SweptIsObserved
  SentAsAssigned
  RecoveredIsWhole
  SentIsPrepared
  OutcomeIsTrue
  NewestIsCurrent
  CapturesCorrected
PROPERTIES
  EmptyIsReviewed
  ReportStands
VIEW Standing
CHECK_DEADLOCK FALSE
