\* A budget that elapses before the engine has created the container.
CONSTANTS
  Jobs = {j1}
  MaxRuns = 1
SPECIFICATION FairSpec
PROPERTY EveryRunEnds
