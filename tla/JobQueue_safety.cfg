SPECIFICATION Spec
CONSTANTS
  j1 = j1
  j2 = j2
  Jobs = {j1, j2}
  Workers = {w1, w2}
  Sweeps = {s1}
  JobTypes <- OneJobType
  TypeOf <- SameType
  Tokens = {t1, t2, t3, t4}
  NoToken = NoToken
  NoJob = NoJob
  MaxAttempts = 2
  Lease = 1
  HeartbeatLease = 1
  RetryDelays = {1}
  MaxLag = 1
SYMMETRY Symmetry
INVARIANTS
  TypeOK
  OneEntitledWorker
  EntitledWorkerHoldsRow
  DeadLetterOnlyWhenUsedUp
PROPERTIES
  FinishedReopenedOnlyBySweep
  LiveLeaseLostOnlyToSweep
