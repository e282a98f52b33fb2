SPECIFICATION FairSpec
CONSTANTS
  j1 = j1
  j2 = j2
  Jobs = {j2}
  Workers = {w1, w2}
  Sweeps = {s1}
  JobTypes <- MCJobTypes
  TypeOf <- MCTypeOf
  Tokens = {t1, t2, t3}
  NoToken = NoToken
  NoJob = NoJob
  MaxAttempts = 2
  Lease = 1
  HeartbeatLease = 2
  RetryDelays = {1}
  MaxLag = 1
PROPERTIES
  EveryJobFinishes
