SPECIFICATION FairSpec
CONSTANTS
  Courses = {c1}
  Dispatchers = {d1, d2}
  Admins = {a1}
  NoCourse = NoCourse
  MaxFailures = 1
INVARIANTS TypeOK TransferHasParts EnqueuedHasJob
PROPERTIES EveryCourseSettles
