CONSTANTS
  k1 = k1
  k2 = k2
  a1 = a1
  w1 = w1
  w2 = w2
  Apps = {a1}
  Keys = {k1, k2}
  NoKey = NoKey
  AppOf <- OneApp
  AdapterOf <- OneAdapter
  Types <- SubmitTypes
  PollTypes <- WorkerPolls
  Budget <- RetryBudget
  Concurrency = 2
  LeaseTerm = 1
  MaxFence = 5
  Workers = {w1, w2}
  Statuses = {"ready", "unsupported"}
  MaxPolicy = 1
SPECIFICATION Spec
INVARIANTS
  TypeOK
  AtMostOneClick
  SingleLiveAttempt
  RecordNeverForgotten
  ConfirmedIsReal
  UncertainHasWork
PROPERTIES
  StaleWorkerWritesNothing
  OutcomeIsFinal
  ImplementsSubmitOnce
SYMMETRY Interchangeable
VIEW UpToRevisions
