CONSTANTS
  k1 = k1
  k2 = k2
  a1 = a1
  w1 = w1
  Apps = {a1}
  Keys = {k1, k2}
  NoKey = NoKey
  AppOf <- OneApp
  AdapterOf <- OneAdapter
  Types <- AllTypes
  PollTypes <- WorkerPolls
  Budget <- OneTry
  Concurrency = 2
  LeaseTerm = 1
  MaxFence = 4
  Workers = {w1}
  Statuses = {"ready"}
  MaxPolicy = 0
  MaxPacket = 2
  SkipsDrafts = FALSE
  Events = {}
SPECIFICATION ExcSpec
INVARIANTS
  ReviewIsActionable
SYMMETRY KeysAlike
VIEW UpToRevisions
CHECK_DEADLOCK FALSE
