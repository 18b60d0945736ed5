CONSTANTS
  k1 = k1
  k2 = k2
  a1 = a1
  w1 = w1
  w2 = w2
  Apps = {a1}
  Keys = {k1, k2}
  NoKey = NoKey
  AppOf <- OneApp
  AdapterOf <- OneAdapter
  Types <- AllTypes
  PollTypes <- WorkerPolls
  Budget <- OneTry
  Concurrency = 2
  LeaseTerm = 1
  MaxFence = 3
  Workers = {w1}
  Statuses = {"ready"}
  MaxPolicy = 0
  MaxPacket = 2
  Events = {"generate"}
SPECIFICATION PrepSpec
PROPERTIES
  InFlightIsSettled
SYMMETRY KeysAlike
VIEW UpToRevisions
CHECK_DEADLOCK FALSE
