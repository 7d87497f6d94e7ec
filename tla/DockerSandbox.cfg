\* One job, three runs in a row, a cancel at any time.
CONSTANTS
  Jobs = {j1}
  MaxRuns = 3
SPECIFICATION FairSpec
INVARIANTS
  TypeOK
  NoContainerOutlivesItsRun
  VerdictIsOwn
PROPERTIES
  TimeoutEndsRunningScene
