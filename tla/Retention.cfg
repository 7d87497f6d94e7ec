\* Two jobs, two keys, one restart: windows and files side by side.
CONSTANTS
  Jobs = {j1, j2}
  k1 = k1  k2 = k2
  Keys <- TwoKeys
  NoKey = NoKey
  Never = Never
  TTL = 2
  MaxTime = 5
  MaxCrashes = 1
SPECIFICATION FairSpec
\* The clock is bounded: once it has stopped and every job is over, so does the model.
CHECK_DEADLOCK FALSE
INVARIANTS
  TypeOK
  OnlyWholeVideosServed
  KeptSinceWritten
PROPERTIES
  WindowsClose
  FilesGo
