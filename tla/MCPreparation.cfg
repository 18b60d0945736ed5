CONSTANTS
  k1 = k1
  k2 = k2
  a1 = a1
  w1 = w1
  w2 = w2
  Apps = {a1}
  Keys = {k1, k2}
  NoKey = NoKey
  AppOf <- OneApp
  AdapterOf <- OneAdapter
  Types <- AllTypes
  PollTypes <- WorkerPolls
  Budget <- OneTry
  Concurrency = 2
  LeaseTerm = 1
  MaxFence = 2
  Workers = {w1, w2}
  Statuses = {"ready", "needs_input"}
  MaxPolicy = 1
  MaxPacket = 1
  Events = {"publish", "generate", "retry", "inspect", "invalidate"}
SPECIFICATION PrepSpec
INVARIANTS
  LeasesStayAdmissible
  PreparedForProfile
SYMMETRY Interchangeable
VIEW UpToRevisions
CHECK_DEADLOCK FALSE
