\* Three submissions under each load shape, jobs that may hang, calls that may
\* fail, at most one poll that finds a job unfinished.
CONSTANTS
  N = 3
  Profiles <- AllShapes
  Seen <- FewStates
  Traces <- ShortTraces
  MaxPolls = 1
SPECIFICATION FairSpec
\* A run ends.
CHECK_DEADLOCK FALSE
INVARIANTS
  TypeOK
  LabelMatchesLoad
  RecordedOnce
  FinishIsLogged
PROPERTIES
  RunEnds
