SPECIFICATION FairSpec
CONSTANTS
  Courses = {c1}
  Fingerprints = {f1, f2}
  NoFingerprint = NoFingerprint
  Spiders = {s1, s2}
  Reconcilers = {r1, r2}
  Limit = 2
  MaxCalls = 4
  MaxCrashes = 1
INVARIANTS
  TypeOK
  SentIsReceived
PROPERTIES
  EveryEventReceivedOnce
  ChangeAnnounced
  NoDuplicateEvent
