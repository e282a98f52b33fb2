SPECIFICATION Spec
CONSTANTS
  Workers = {w1, w2}
  WF04 = wf04
  NoWorker = noWorker
  Sweeps = {s1}
  Lessons = {1, 2, 3}
  NoLesson = noLesson
  NoJob = noJob
  FirstJobs <- Either
  Parts = 1
  Videos = 1
  MaxAttempts = 2
  MaxDisturbances = 1
SYMMETRY Symmetry
INVARIANTS TypeOK StoredHadPass ReleaseComplete GateHolds
CHECK_DEADLOCK FALSE
