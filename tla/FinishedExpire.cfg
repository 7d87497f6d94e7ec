\* A cancelled job after its window.
CONSTANTS
  Jobs = {j1, j2}
  k1 = k1  k2 = k2
  Keys <- OneKey
  NoKey = NoKey
  Never = Never
  TTL = 2
  MaxTime = 5
  MaxCrashes = 0
SPECIFICATION FairSpec
\* The clock is bounded: once it has stopped and every job is over, so does the model.
CHECK_DEADLOCK FALSE
PROPERTY FinishedJobsExpire
