# A verification project for manima

manima is an MCP server that renders Manim animations in containers and,
optionally, generates the Manim source with a local model, repairing it until it
renders. Beside it stands a harness that drives the server under load. This
directory holds TLA+ models of the server, the TLC runs that check them, and
TLAPS proofs about them. Paths without a directory (`job_manager.py:171`) are
those of `manima_server/manima_server/core` and `.../adapters`; specs are those
of `openspec/specs`.

## 1. Inventory

| Component | State | Operations | Correct means |
|---|---|---|---|
| Job manager, `core/job_manager.py` | one asyncio task per job, two semaphores, `_containers`, `_cancelled`, `_tasks`, `receipts` | submit_render, submit_generate, cancel, get; two worker coroutines; `_guard` | permits never leak; a poll tells the truth; a cancel stops the work; SUCCEEDED means verified; the trace is complete; the prompt leaves only through the gates; every job ends |
| State machine, `core/state_machine.py`, `core/domain.py` | the state of a job | `assert_transition`, `can_transition` | rows only move along the table, whoever writes them |
| Escalation policy, `core/escalation.py` | receipts | `should_escalate` | deny by default, always a receipt |
| Job store, `adapters/sqlite_jobs.py` | the `jobs` table, durable | create, save, load, expired | the row is the worker's view |
| Artifact store, `adapters/fs_store.py`, `core/hashing.py` | one file per content key, its mtime | get, put, reap | only whole videos, one per key, as long as promised |
| Reaper, `core/reaper.py` | none | reap | paths never dangle; windows close |
| Docker sandbox, `adapters/docker_sandbox.py` | working directory, CLI process, container | run, kill, preflight | a run ends, and its container with it |
| Validator, `core/validator.py` | none | validate, scene_names | a pure function of the source |
| Generators, grounding | an HTTP client | generate, retrieve | answer, raise, or hang |
| MCP server, `server.py` | the wiring; the reaper's loop | five tools, main | tools never block; a restart is survived |
| Harness: client, profiles, sampler | one task per submitter, a limiter, a sampler task | submit, poll with a deadline, fetch, record | the load is what the label says; every job is recorded once, as it ended; a run ends |
| Harness: `instrument.py` | the notes of a run: polls, calls, artifacts, container and Apertus samples | observe_*, sample, the probes, the summaries | what is derived from the notes is true of what happened |
| Harness: `record.py`, `analysis/` | a directory per run: runs, attempts, metrics, manifest | record_result, success rates, convergence, taxonomy, curve, headroom, report | the tables agree with each other; advice is given only where the runs bear it out |
| Harness CLI, `__main__.py` | none | run, report | a run leaves its metrics however it ends |

How they interact. Everything of the server runs on one event loop. A tool call
writes a row and spawns a worker task; the worker takes a permit, calls the ports
(grounding, generator, sandbox, stores) and saves its `Job` object to the row at
every transition; `job_status` and `job_result` only read rows. `cancel_job` sets
a flag the worker looks at when it resumes, and kills the container registered
at the moment. The reaper's loop deletes files and rewrites rows beside the
workers. The harness talks to the server over stdio only.

What is hard: code between two awaits is atomic, but every await lets cancels,
sweeps and other workers in; there are two copies of a job (object and row) and
four readings of the clock for a result (mtime, `expires_at`, one `now` for the
rows and one for the files); container names repeat;
exceptions leave a worker from any await; the process may be restarted between
any two writes. The harness measures from outside, with side channels that may be
missing or fail for a while, a clock of its own, pollers that interleave and runs
that are aborted or killed; its report must be right about what it did not see.
`hazards` in PROJECT.json lists each of these at its line.

## 2. Modules

| Module | Models | Checked by |
|---|---|---|
| `JobLifecycle` | the transition table: what a poll may observe | refined by `JobManager` and `Retention` |
| `JobManager` | the job manager with rows, cancel and reaper | `MCJobManager` |
| `Retention` | rows, files, clocks, sweep, restart | `MCRetention` |
| `DockerSandbox` | successive `sandbox.run` calls of a job | itself |
| `Harness` | one run of the load harness against the table of `JobLifecycle` | `MCHarness` |
| `Metrics` | the notes of a run, and what `instrument.py` derives from them | through `Campaign` |
| `Analysis` | the report: operators on run directories | through `Campaign` |
| `Campaign` | runs one after another, their directories, failures, labels, the report | `MCCampaign` |
| `JobLifecycleProofs`, `JobManagerProofs`, `JobTraceProofs`, `RetentionProofs`, `DockerSandboxProofs`, `HarnessProofs`, `CampaignProofs`, `ReportProofs` | theorems | tlapm |

`JobManager` is shown to implement `JobLifecycle`; `Harness` and `Metrics` take the same `JobLifecycle` for the server they look at.
`Campaign` extends `Analysis`, which extends `Metrics`.

Definitions named like a neighbour with a suffix (`ReleaseNothing` before
`Release`, `CheckCancelNotInLoop` before `CheckCancel`) are deliberate slips no
behaviour uses. Replacing the neighbour by one of them must break the property
PROJECT.json pairs it with; this shows that the property looks at the code.

### JobManager

`task[j]` is the await job `j`'s worker is suspended at. An action carries a
worker from one await to the next with everything the code does on the way, so
one action often makes several table transitions and saves:

| Action | Code |
|---|---|
| `Submit` | submit_render / submit_generate: row saved, task spawned |
| `BeginRender` | `_process_render` from the semaphore to the sandbox call: cancel check, cache, validation, scene |
| `EndRender` | the outcome: attempt, cancel check, put, `_succeed` or `_fail` |
| `BeginGenerate`, `Grounded` | `_process_generate` to the first generator call |
| `Generated`, `Escalated` | a source came back: validation, then probe or the next try (`StartCandidate`) |
| `Probed`, `EndGenerate` | the two verdicts; a failure goes on in `Retry`: another try, the escalation, or `_fail` |
| `Raise` | an exception from a port, through `_guard` |
| `Cancel`, `KillDone` | `cancel` up to, and after, its await of `sandbox.kill` |
| `Reap` | `Reaper.reap`, with any subset of windows elapsed (`Retention` has the clock) |

`mem[j]` is the worker's `Job` object and `row[j]` the saved row: `Save` copies
one to the other, `_guard` and the reaper write the row alone. `line` and
`permits` are the FIFO semaphores; a spawned task that has not run yet stands in
line as well, because the event loop starts tasks in order. `history` and
`egress` are history variables: the renders each candidate really passed, and
the jobs whose prompt was sent.

Abstractions. Sources are model values that carry their quality, so a source is
also its cache key; the validator's verdict and the scene list of a source are
constants, because they are functions of the source. The sandbox's and
generators' answers are free. What a kill does to a container shows only in that
free verdict; when and whom it hits is `KillsHitTheirTarget`'s and
`DockerSandbox`'s subject. Two checkpoints with no await between them are one.
`phase`, messages and timestamps are left out. Database statements are atomic
and do not fail.

### Retention

Files have the time of their writing, rows have `expires`. A put is three steps
(`Copy` to the temporary file, `Replace`, `Record`) and a sweep as many as it
has files and rows, plus one for each of its two readings of the clock (`Wake`,
`ReapFiles`); no worker interleaves with them (they are synchronous
code), but `Crash` may happen after each, and time passes between any two
(`Tick`). So the mtime, `expires_at` and the two `now` of a sweep are four moments
in the order in which the code takes them, each as far from the next as it likes. `Crash` also forgets all
workers. The reaper's loop raising counts as a crash: it ends the task group.
Assumption: the wall clock is not set back. `shown` and `made` are histories: how
old the file was that a job's success led to, and which jobs made theirs.

What is promised of a path, then, is no more than `KeptSinceWritten`: it leads to
its video until the file is older than its retention. The window of the row is
always a little longer, even for the job that made the file, and much longer for
a job that found it (`NoDanglingPath`, which is violated, leaves the first case out).

### DockerSandbox

`phase` is the await of the run at hand, `client` the `docker run` process and
`box` the engine's containers by name. A container may be created before or
after the timeout, may run for ever, and is removed before its client exits
(what `docker run --rm` does; the engine is external and modelled from its use).
From the timeout on nobody reads the client's two pipes (`wait_for` has cancelled
`communicate`, `docker_sandbox.py:105`), so a client whose scene prints more than they hold may get
stuck (`Block`) and never exit, although its container is killed and removed.
`killed` is a history: the containers that a kill has ended.
Starting a process is assumed to succeed, as preflight has shown. The working
directory and the copy of the video out of it lie in one stretch without an await
and are left out.

### Harness

`profile` is the shape of the load: `limit` submitters at once (the limiter of
mixed, the size of a burst, one for soak, repair-heavy and control), in waves of
`wave`, `timed` when a soak may stop before its plan is done. `pc[i]` is the await
submitter `i` is at, `server[i]` what its job is doing meanwhile, `logged` its
latest entry in the history of states, `lines` and `runs` the files on disk.
The server is the table of `JobLifecycle`, so whatever `JobManager` is shown to
implement is all the harness relies on; jobs may hang. An action is a call at the
moment the server answers it, with what the submitter does up to its next await.
A call that fails, a deadline (`HarnessTimeout`) or a raising probe turns `phase`
to "aborting": the siblings get no further than their next await. So does a write
of `record_result` that raises (`RecordingFails`): it leaves the attempts before it,
and no run. What the other
instruments hold, and what an aborted run leaves of it, is the subject of
`Campaign`.

### Metrics, Analysis and Campaign

`Metrics` keeps two things side by side: what the instruments hold
(`transitions`, `calls`, `artifact_uris`, `container_samples`, `samples`), and
what is true (`polls`, `entry`, `answers`, `from_cache`), which no
operator of the code reads and the properties compare with. Its world is small:
the states the jobs are found in, the tokens vLLM
has generated (`served`) and how many of them its counter forgot in a restart
(`lost`). Whether the server rendered an artifact or found it in its cache is free:
a generate job never looks there (`job_manager.py:170-266`), two render jobs may
both miss (141), and the reaper takes files. The actions:

| Action | Code |
|---|---|
| `ObserveState` | `observe_state` at a poll; the pair is dropped if it is the last of the log, whoever polled |
| `TimedCall` | the client's timer around a call |
| `ObserveArtifact`, `ObserveNoArtifact` | `observe_artifact`, of an artifact that was rendered or found |
| `Tick` | a turn of the sampler: the composite probe (`Merge`) over vLLM's page and nvidia-smi, and the container probe, each wired up or not, answering or not, vLLM's page with either of its lines missing |
| `Restart` | vLLM begins its counters again |

Below them stand the derived figures as operators: nearest-rank percentiles
(`Rank` is Python's `round`, half to even, computed in integers), contract
violations, the cache-hit rate, the high-water marks, the tokens per second and
`Summary`, the two summary methods. In floats `pct / 100 * n` rounds to the same
rank as the integer form for all `n` up to 20,000 at 50, 95 and 99.
Rates are pairs of numbers, so nothing is rounded.

`Analysis` is the report over such directories: `SuccessRates`,
`AttemptDistribution`, `MarginalSuccess`, `Converges`, `RepairYield`,
`TaxonomyReport`, `ThroughputCurve`, `VramHeadroom`, `Advisories` and `Report`,
one operator per function of `analysis/`. Where the order of a Python dictionary
or the stability of a sort decides, it is in the operator (`Dominant`, `LeftOf`).

`Campaign` drives both. `RecordRun` is `record_result`; a run ends well
(`RunEndsWell`), by an exception (`RunRaises`: `_finalize` still writes, but the
calls were never drained), or its process dies before or between the files
(`ProcessDies`). A run that raised or was killed may have broken off in the middle of
recording a job (`Halfway`).
`HandLabel` is a human editing attempts.jsonl. The report may be asked for in
every state, so a property about it is an invariant. `fates` says what is true of
the runs that are over.

## 3. Runs

| Run | Question | States |
|---|---|---|
| `JobManagerCore` | 2 jobs of any kind, repair budgets 0 to 2: all safety and action properties, and refinement of `JobLifecycle` | 239 k |
| `JobManagerSettle` | 3 jobs on one permit per phase: load and liveness | 147 k |
| `Retention` | 2 jobs, 2 keys, TTL 2, clock to 5, 1 restart | 207 k |
| `DockerSandbox` | 1 job, 3 runs | 2 k |
| `HarnessRun` | 3 submissions in sequence, in waves of two, under a limiter of two | 202 k |
| `CampaignReport` | two pollers, calls around the limit, three side channels, two runs that end and a third, three jobs, labels: the notes, the figures and the report | 848 k |

Why the bounds are enough. Jobs interact only through the semaphores, the store
and the reaper: two jobs on one permit give every hand-over, a third one gives a
queue with somebody in the middle. Budget 2 with a budget-1 neighbour gives a
first try, a repair, an escalation and a job that may not escalate; budget 0 gives
the `max(1, ...)` of `job_manager.py:185` something to do; sources
`good` and `bad` give every verdict of the validator. The ambiguous-scene branch
ends a job exactly as a rejected source does. In `Retention` two jobs on one or
two keys give sharing and its absence; TTL 2 tells "just due" from "overdue",
a clock to 5 lets a file age for a whole window and a step more after a put that took
time, and the sweep's two readings lie apart. In `DockerSandbox` jobs share nothing, and
three runs give a name used twice with another in between. In `HarnessRun` three
submissions give a second wave and a submitter that waits for a slot; the client
tells only live states from ends, so two of each kind (and expiry) stand for all
(`FewStates`), one unfinished poll (`MaxPolls`) for any number, and a job is
followed only while the run waits for it. In `CampaignReport` one kind of
observation reaches another only through the report, so instead of everything at
once `MCBudgets` lists ten mixtures, and each bounds how many steps of a kind a
behaviour takes: six polls of two jobs (an entry, its repetition, another job in
between, and back), five calls on both sides of the limit and on it, six artifacts of
two URIs, each rendered or found, four ticks with a restart over two runs that end and a
third, three jobs of one condition or two with every outcome and up to three
attempts, two jobs with labels, and each measurement with the ends of a run.
`MCNext` keeps down what multiplies without meeting: along a sweep of several runs vLLM
always answers, time stands still between two ticks only where vLLM alone is asked
in a single run, and recordings break off only where jobs are left and the run has no label.
Symmetry is used only where no liveness is checked.

Fairness. `JobManager` assumes that a started worker resumes when its port
answers: `OnlySandboxAnswers` (a render is bounded by the budget of
`docker_sandbox.py:105`) for `RenderNeedsNoGenerator`, and in addition
`AllPortsAnswer` (HTTP clients have timeouts) for `AllSettleIfPortsAnswer`.
Nothing makes a client call a tool. `Retention` assumes that time passes, that a
synchronous call returns and that the reaper's loop wakes up (`server.py:180`).
`DockerSandbox` assumes that the engine serves requests and the loop resumes;
nothing makes a scene end, and nothing frees a client that is stuck. `HarnessRun` assumes that every call is answered (no tool
of the server waits for a job) and that tasks run and get their cancellations; no
job has to move, so `RunEnds` rests on the deadline. `Retention` switches the
deadlock check off because its clock is bounded and stops, `HarnessRun` because a
run ends, `CampaignReport` because its budgets do (it states no fairness: all it
checks is safety); the other passing runs check it, with an explicit `Terminating` step
for the idle server.

What the passing runs show is in each property's comment. In short: permits are
exact, the reported state is the real one, rows are fresh, cancel is final,
never turns into success and never kills a later container, success is verified,
traces are complete, escalation is gated, tries are bounded, rows follow the
table, everything settles, videos are whole and kept until they are due, windows
close and files go, containers do not outlive their runs, no verdict is another
kill's, a timeout ends the run unless its client is stuck, and a run of the harness
never loads the server more than its label says, records every job once as it
ended, with all its attempts on disk first, and ends. Of a campaign: the log holds
every poll in order, and only what another job's entry separates is held twice;
a side channel that was silent is None and one that spoke is in the summary,
whichever other failed; the tokens per second are never flattering; the
percentiles and the list of contract breaches agree to half a call; the cache-hit rate differs
from the true one by exactly the repeated renders and the URIs that were only ever found; the three accounts of
the same jobs (tiers, histogram, curve) agree; the advice of section 6 is backed by the
directories; a point of the curve is compared if and only if it
has a rate and some point has one other than 0.

### Where the documents and the code disagree

Each of these runs violates one property taken from a document or comment
(quoted in PROJECT.json):

* `CancelAcknowledged`: an acknowledged cancel may end FAILED, when the last try
  fails in validation or probe while the flag is set.
* `EscalationReceipt`: a hosted call that raises leaves no receipt.
* `SceneServed`: the cache key has no scene name, so the other scene's video is served.
* `DanglingPath`: a cache hit's window outlives the file. (By a moment so does that
  of the job that made it: `expires_at` is taken after the mtime, and a sweep in between
  deletes the file and leaves the row to the next one.)
* `FinishedExpire`: cancelled and guard-failed jobs never expire.
* `TimeoutUnbounded`: after a timeout run waits without a bound for a client whose output
  nobody reads: for ever if the scene prints more than the pipes hold, or if the kill came before
  the container existed. `OnlySandboxAnswers` and `AllPortsAnswer` therefore rest on scenes that print
  little after their budget and on the engine starting containers within it.

Smaller things met on the way, which need no run to be seen:

* Rows of jobs that were running stay live for ever after a restart: `main`
  starts no worker for them (`server.py:178`), and `Retention`'s `Crash` leaves them so.
* With a repair budget of 0 one try is made all the same, and an escalated one
  is numbered like it (`job_manager.py:222`); `HonestTrace` states the attempt
  count for every other budget.
* `converges` compares the last attempt with the first and no other
  (`success.py`); `RepairAccounted` says what follows from it, not more.
* A label on an attempt without a traceback is never counted
  (`taxonomy.py:123`): the semantic failures it asks a human to label are
  among them.
* `samples` in the Apertus summary counts failed ticks, the container count's
  `samples` does not.
* An aborted run drains no calls, so its contract breaches are not in its
  metrics: `AdviceBacked` says "a run whose calls were drained".
* "Repeated URIs across jobs are the observable signature of a cache hit"
  (`instrument.py:192-194`): a repeated URI may be a second render and a first one a hit;
  `HitRateTrue` says how far the count is off.
* "The baseline is the lowest concurrency that actually produced a tok/s reading"
  and `None` means "unmeasured" (`throughput.py:24-25,31-34`): a measured 0.0 is no baseline
  (`throughput.py:48`), and if nothing else was measured, no point is compared. `CurveHonest` states what the
  code does.
* The log of polls is meant to hold "transitions" (`instrument.py:142-146`): a state polled
  again after another job's poll is entered again. `LogFaithful` asks only that no poll is lost or invented.
* The pre-classifier of `taxonomy.py` is called by nobody.

## 4. Proofs

`JobManagerProofs` proves for any number of jobs, sources and scenes, any
limits and any requests (from `ConstantsOK` alone): `TypeOK`, `PermitsExact`,
`StatusMatchesWork`, `RowsFresh`, `ResultsOnFinished`, `CancelNeverSucceeds`,
`ContainersBounded`, the action property `CancelStopsWork`, and that
`JobManager` implements `JobLifecycle`.

The argument. None of the five invariants is inductive alone. The reaper keeps
`RowsFresh` only because windows belong to finished jobs (`ResultsOnFinished`),
which holds only because a worker's object is the row it saved (`RowsFresh`) and
its state is that of its await (`StatusMatchesWork`). `IInv` is their
conjunction with `TypeOK`. A worker's step has one of three shapes
(`WorkerStep`): it suspends at an await with a saved row in that await's state,
it ends with a row of its own, or the guard ends it. `RetryStep`,
`StartCandidateStep`, `RenderStepStep` and `GenerateStepStep` bring every action
into a shape; `StepPermits` and `StepStatus` show that a shape preserves the
invariant, one part at a time; `SubmitStep`, `CancelStep` and `ReapStep` deal with
the others. Cardinalities of permit sets come from `FiniteSetTheorems`. The
refinement follows from the shapes: `WorkerEdges` shows that any await's state
reaches any other, or an end, in at most three edges of the table.

`JobTraceProofs` builds on that invariant and proves the rest of `JobManager`'s
safety, for any repair budgets: `TriesBounded`, `EscalationGated`, `HonestTrace`,
`VerifiedSuccess`, `KillsHitTheirTarget` and `RenderCancelExact`. The first four
relate a finished row to all the candidates its job ever had, which only an
invariant about every await says: `Asking` (the next candidate is awaited: every
one so far is in the trace, and failed) and `Trying` (one is in its container and
not in the trace yet), both with the loop index as the length of the trace and the
prompt sent exactly when the local tries are used up. `Tried` is the instant
between a verdict and what becomes of it; from there `RetryTold` leads back to
`Asking`, and `TriedOver` and `CountedOver` to `Over`, what is left when the worker
has ended. `OtherJobs` and `SameJobTold` keep the other jobs and the reaper out of
it, and the store holds only what has been rendered (`StoreTold`). The last two
follow from `FlagInv`: every kill under way has its job flagged, and a flagged
worker's next step ends it.

`JobLifecycleProofs` proves what the table alone guarantees.

`RetentionProofs` proves, for any window, jobs, keys and number of restarts,
`TypeOK`, `OnlyWholeVideosServed` and `KeptSinceWritten`. Its invariant
`RetentionInv` adds what a put in progress has done so far and that a sweep has not
read a time to come (`CallInv`: nothing is stored under the key while a put copies, and
the file is there until its success is recorded, because the two are one call), and that a
path leads to a file no older than the one it was handed out for, or that one is past its
retention (`KeptInv`): a key may have been unlinked and stored again.
`RowsFollowTheTable` shows that these rows, too, implement `JobLifecycle`, through
failed puts, sweeps cut short and restarts: it needs `CallInv`, so that a put that
returns finds its job RENDERING as it left it, and `NoWindowYet`, so that no sweep
finds a job due that was never submitted. It is proved only; no run repeats it.

`DockerSandboxProofs` proves, for any jobs and any number of runs, `TypeOK`,
`NoContainerOutlivesItsRun` and `VerdictIsOwn`. The first needs `Attached`:
every container there is has a holder, the client process of the run that uses its
name, a job at rest has no client that could still hold one, and no run finds its
name taken. The
second needs `VerdictInv`: the kill of a timeout is over before its run leaves
"killing", because run waits for it (`KillsKept`), and every other kill names a flagged
job, so none is left to end a later container of the name (`OwnVerdicts`).

`HarnessProofs` proves, for any number of submissions and any profile, `TypeOK`,
`FinishIsLogged`, `RecordedOnce` and `LabelMatchesLoad`. `Followed` ties what a
submitter waits for to the state of its job and of the log; `OnDisk` to the lines
and records written (`BrokenOff`: a recording that raises leaves lines, no record, and no submitter
that could come back); `Within` bounds the submitters under way by the limiter, with
a cardinality argument from `FiniteSetTheorems`.

`CampaignProofs` proves, for campaigns of any length and any budgets, five
properties of `Metrics`. `TailsAreBreaches` is about the algorithm: `RankBounds` and
`SmallestExists` show that the rank is one of the values', hence the look-up is
defined; `SmallestMonotone` and `SmallestOver` that percentiles grow with their
rank and how many values lie over one, `RankIsShare` what share of them a rank is. The least and the greatest element of a finite set,
which these need, come from the well-foundedness of strict inclusion, because no
induction over the data is available. `LogFaithful` is inductive once the three sequences have their
types. `HitRateTrue` follows from `HitInv`: repeats and
unseen URIs together are as many as hits and renders of something rendered before, whichever
artifact comes next (`OneMore`). `RateNeverFlatters` follows from `TickInv` (each sample tells what
its tick was answered, and clock, tokens and losses only grow along the ticks), and
`SideChannelsHonest` from `DockerInv` (as many container samples, with the same
values, as the probe got).

`ReportProofs` proves the rest of `Campaign`, for any number of runs, jobs, attempts
and labels: `TypeOK`, `CurveHonest`, `AdviceBacked` and `RepairAccounted`. The
report reads nothing but the directories, so what it takes is an invariant of
those, `ReportInv`: a job's record is a first pass exactly if it succeeded within
one attempt (`JobRun`), the directory of the run under way has neither metrics nor a
label, and each earlier one shows what became of its run (`Shows`): its metrics
hold a breach iff the calls of the run were drained and one was slow, its rate is negative only if
vLLM was restarted, and it has a concurrency only if its process lived and its metrics are there. None of it follows from the types, and the last part is not
inductive without what `CampaignProofs` knows of the rate (`RateRises`), because a
directory is filled from the notes in the step that wipes them. From `ReportInv`
each property follows in every single state:

* `CurveHonest`: a leftmost usable point exists (`LeftmostPoint`), so the baseline
  is one (`BaselineIs`), and ratios of rates that are not negative are not either.
* `AdviceBacked`: counting over the concatenation of all files is counting over the
  files (`FlattenCount`), the order of the counts leaves no label out
  (`CountsCover`, which needs the hand labels to be finitely many), and the dominant label is one of
  the most frequent (`DominantIsHighest`).
* `RepairAccounted`: rows, histogram and curve each divide the jobs of a condition
  into groups, whose sizes add up to the whole (`GroupsAddUp`); the yield is a
  difference of sets (`YieldIsLift`); and if every job with the most attempts had
  succeeded, the last rate would be 1 (`RepairInVain`).

Sums and concatenations are recursive functions of the community modules. That
such a function satisfies its equations, and that a sum is the only function to
satisfy the sum's (`FlattenChain`, `SumIs`), is shown without an
induction theorem: the arguments at which it fails would have a least one
(`CountUp`, `SmallestSegment`), which is the well-foundedness of strict inclusion again. The
constants' assumptions this rests on: `None` is neither a number, a pair of them, a truth
value, a label nor a metrics file, as Python's is not.

Every safety invariant and every action property the passing runs check is a
theorem. Only model-checked is liveness, which is out of the prover's reach:
`RenderNeedsNoGenerator`, `AllSettleIfPortsAnswer`, `WindowsClose`, `FilesGo`,
`TimeoutEndsRunningScene` and `RunEnds`. What the recursive functions return for
given data (a particular sum) is what TLC evaluates.

## 5. Not modelled, and the plan

Not modelled, and why:

* The validator: a pure function of a Python AST. `JobManager` takes its verdict
  and its scene list as constants, so nothing but the function itself is left out.
* Prompts, HTTP adapters, configuration parsing, contract payloads, argument
  parsing: text in, text out. The adapters' answers, errors and hanging are
  modelled where they are called.
* The pre-classifier: a text heuristic that nobody calls.
* Two server processes on one store: the deployment has one. Two would share one
  temporary file per key and trip each other's sweeps (`fs_store.py:59`).
* Database errors, and the guard's own save failing (`job_manager.py:335`).
* Process shutdown (`server.py:191`): the reaper's loop keeps the task group open.
* Growth without a bound: `_cancelled`, `_tasks` (`job_manager.py:61`) and the
  copies of `_persist` (`docker_sandbox.py:204`); a bounded instance says nothing of it.
* Time inside the harness's own calls: its probes block the event loop for up to
  two seconds (`instrument.py:116`), which shifts the latencies it measures; the
  models have latencies as given numbers.

What is left of the plan:

1. `JobManager` on top of `DockerSandbox` and `Retention`: the free verdict and
   the free sweep shown to be what the two modules allow.
2. `Validator` over small trees: the allowlist walk against a declarative
   definition of an allowed tree.
3. Proofs of what items 1 and 2 add; of the present modules nothing the prover can
   reach is left.
