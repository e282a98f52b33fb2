SPECIFICATION FairSpec
CONSTANTS
  Workers = {w1}
  WF04 = wf04
  NoWorker = noWorker
  Sweeps = {}
  Lessons = {1, 2, 3, 4}
  NoLesson = noLesson
  NoJob = noJob
  FirstJobs <- Either
  Parts = 1
  Videos = 2
  MaxAttempts = 2
  MaxDisturbances = 1
INVARIANT ReleaseHasAllLessons
PROPERTY CourseSettles
CHECK_DEADLOCK FALSE
