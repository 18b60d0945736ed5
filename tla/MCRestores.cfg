CONSTANTS
  k1 = k1
  a1 = a1
  w1 = w1
  Apps = {a1}
  Keys = {k1}
  NoKey = NoKey
  AppOf <- OneApp
  AdapterOf <- OneAdapter
  Types <- AllTypes
  PollTypes <- WorkerPolls
  Budget <- OneTry
  Concurrency = 2
  LeaseTerm = 1
  MaxFence = 3
  Workers = {w1}
  Statuses = {"ready"}
  MaxPolicy = 0
  MaxPacket = 1
  Events = {"reopen", "generate", "inspect", "retry"}
  Overlapping = FALSE
  MaxCopies = 1
  MaxRuns = 2
SPECIFICATION RestoresSpec
INVARIANTS
  AtMostOneClick
  SubmittedIsHeld
PROPERTIES
  AssertedStays
VIEW UpToRevisions
CHECK_DEADLOCK FALSE
