\* Two jobs polled, two URIs, three side channels and up to two runs that end,
\* each kind of observation as often as the budgets say.
CONSTANTS
  Jobs = {j1, j2}
  Seen = {"QUEUED", "RENDERING", "SUCCEEDED"}
  Tools = {"job_status", "job_result"}
  FastTools = {"job_status", "job_result"}
  Latencies = {1, 2, 3}
  Limit = 2
  Uris = {u1, u2}
  Wirings <- MCWirings
  Gauges <- MCGauges
  Steps = {0, 1}
  Base = 1
  None = None
  Budgets <- MCBudgets
  HandLabels = {"wrong-api", "manimgl-confusion", "semantic"}
  TotalVram = 2
  Slices <- MCSlices
  Traces <- MCTraces
  Concurrencies = {1, 2}
  j1 = j1  j2 = j2  u1 = u1  u2 = u2
SPECIFICATION MCSpec
\* A campaign ends with its budget.
CHECK_DEADLOCK FALSE
INVARIANTS
  TypeOK
  LogFaithful
  SideChannelsHonest
  RateNeverFlatters
  TailsAreBreaches
  HitRateTrue
  RepairAccounted
  AdviceBacked
  CurveHonest
