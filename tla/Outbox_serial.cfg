SPECIFICATION Spec
CONSTANTS
  Courses = {c1, c2}
  Fingerprints = {f1, f2}
  NoFingerprint = NoFingerprint
  Spiders = {s1}
  Reconcilers = {r1, r2}
  Limit = 2
  MaxCalls = 4
  MaxCrashes = 1
SYMMETRY Symmetry
INVARIANTS
  ReceivedInOrder
