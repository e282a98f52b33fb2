SPECIFICATION FairSpec
CONSTANTS
  Workers = {w1, w2}
  WF04 = wf04
  NoWorker = noWorker
  Sweeps = {s1}
  Lessons = {1, 2}
  NoLesson = noLesson
  NoJob = noJob
  FirstJobs <- Both
  Parts = 2
  Videos = 1
  MaxAttempts = 2
  MaxDisturbances = 0
PROPERTY RemainingPartsDownloaded
CHECK_DEADLOCK FALSE
