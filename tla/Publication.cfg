SPECIFICATION Spec
CONSTANTS
  Lessons = {l1, l2}
  NoLesson = noLesson
  Asset = asset
  Executions = {e1, e2}
  Releases = {r1, r2}
  NoRelease = noRelease
  AutoPublish = TRUE
  MaxRuns = 3
  MaxFailures = 1
SYMMETRY Symmetry
INVARIANTS TypeOK RecordsAgree StagedIsPlayable ServedWhole LockIsFinal
CHECK_DEADLOCK FALSE
