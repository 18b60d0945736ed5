CONSTANTS
  k1 = k1
  a1 = a1
  w1 = w1
  Apps = {a1}
  Keys = {k1}
  NoKey = NoKey
  AppOf <- OneApp
  AdapterOf <- OneAdapter
  Types <- AllTypes
  PollTypes <- WorkerPolls
  Budget <- OneTry
  Concurrency = 2
  LeaseTerm = 1
  MaxFence = 4
  Workers = {w1}
  Statuses = {"ready"}
  MaxPolicy = 0
  MaxPacket = 1
  Events = {}
  Overlapping = TRUE
  MaxCopies = 0
  MaxRuns = 0
SPECIFICATION RestoresSpec
PROPERTIES
  AssertedIsNotSubmitted
VIEW UpToRevisions
CHECK_DEADLOCK FALSE
