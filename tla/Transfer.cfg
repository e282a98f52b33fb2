SPECIFICATION FairSpec
CONSTANTS
  Workers = {w1, w2}
  Size <- ThreeThenTwo
  NoFile = noFile
  MaxAttempts = 3
  MaxEvents = 3
INVARIANTS TypeOK DestinationIsWhole
PROPERTY FileArrives
CHECK_DEADLOCK FALSE
