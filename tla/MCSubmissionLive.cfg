CONSTANTS
  k1 = k1
  k2 = k2
  a1 = a1
  w1 = w1
  w2 = w2
  Apps = {a1}
  Keys = {k1}
  NoKey = NoKey
  AppOf <- OneKeyApp
  AdapterOf <- OneKeyAdapter
  Types <- SubmitTypes
  PollTypes <- WorkerPolls
  Budget <- RetryBudget
  Concurrency = 2
  LeaseTerm = 2
  MaxFence = 3
  Workers = {w1, w2}
  Statuses = {"ready"}
  MaxPolicy = 1
SPECIFICATION LiveSpec
PROPERTIES
  InFlightResolves
  UnknownResolves
