------------------------------- MODULE Metrics -------------------------------
(***************************************************************************)
(* instrument.py: what the load harness notes during a run (the polls, the *)
(* calls, the artifacts and the ticks of the background sampler), what it  *)
(* derives from its notes, and beside them what really happened: the       *)
(* histories under "what is true", which no operator of the code reads.    *)
(*                                                                         *)
(* Latencies, gauges and counters are natural numbers, a rate is a pair    *)
(* <<numerator, denominator>>, and None is Python's None.                  *)
(*                                                                         *)
(* A definition that stands right before another and shares its name's     *)
(* beginning is a slip the second one could have had; no behaviour uses it.*)
(***************************************************************************)
EXTENDS Integers, Sequences, FiniteSets

CONSTANTS
  Jobs,
  Seen,        \* states in which jobs are found, QUEUED among them
  Tools,       \* tools the client calls
  FastTools,   \* FAST_TOOLS
  Latencies,   \* latencies a call may have
  Limit,       \* LATENCY_CONTRACT_S
  Uris,
  Wirings,     \* side channels an operator may wire up
  Gauges,      \* what docker ps, nvidia-smi and vLLM's queue gauge may say, by source
  Steps,       \* time between two ticks
  Base,        \* tokens vLLM had generated before the run
  None,
  Budgets      \* bound: how many steps of each kind a behaviour takes

Sources == {"docker", "vllm", "nvidia"}
Kinds   == {"polls", "calls", "artifacts", "ticks", "restarts", "jobs", "ends", "labels"}

ASSUME MetricsConstantsOK ==
  /\ "QUEUED" \in Seen
  /\ FastTools \subseteq Tools
  /\ Latencies \subseteq Nat /\ Limit \in Nat
  /\ Wirings \subseteq SUBSET Sources
  /\ Gauges \in [Sources -> SUBSET Nat] /\ Steps \subseteq Nat /\ Base \in Nat
  /\ None \notin Nat /\ None \notin Int \X Int /\ None \notin Uris
  /\ Budgets \subseteq [Kinds -> Nat]

VARIABLES
  \* what the instruments hold
  transitions,        \* ManimaMetrics._transitions
  calls,              \* ManimaClient.calls, drained at the end of a run
  artifact_uris,      \* ManimaMetrics._artifact_uris
  container_samples,  \* ManimaMetrics._container_samples, without their times
  samples,            \* ApertusMetrics._samples
  \* the world around them
  wired,              \* the side channels wired up for the run
  clock,              \* time since the run began
  served,             \* tokens vLLM has generated
  lost,               \* of these, the ones its counter forgot in a restart
  seen,               \* the state each job was last found in
  \* what is true
  polls,              \* every poll, <<job, state>>
  entry,              \* for each poll, where the log holds it
  answers,            \* for each tick, what the sources said
  from_cache,         \* for each artifact, whether the server found it in its cache
  left                \* of the budget

notes == <<transitions, calls, artifact_uris, container_samples, samples>>
world == <<wired, clock, served, lost, seen>>
truth == <<polls, entry, answers, from_cache>>
metricsVars == <<notes, world, truth, left>>

LC == INSTANCE JobLifecycle WITH state <- seen

Fields == {"vram_mb", "queue_depth", "generation_tokens_total"}
Empty  == [f \in Fields |-> None]    \* ApertusSample()

Spend(kind) == left[kind] > 0 /\ left' = [left EXCEPT ![kind] = @ - 1]

MetricsInit ==
  /\ wired \in Wirings
  /\ clock = 0 /\ served = Base /\ lost = 0
  /\ seen = [j \in Jobs |-> LC!NoJob]
  /\ transitions = <<>> /\ calls = <<>> /\ artifact_uris = <<>>
  /\ container_samples = <<>> /\ samples = <<>>
  /\ polls = <<>> /\ entry = <<>> /\ answers = <<>> /\ from_cache = <<>>
  /\ left \in Budgets

-----------------------------------------------------------------------------
(***************************************************************************)
(* What is noted.                                                          *)
(***************************************************************************)
NotedPerState(job, state) ==
  IF transitions = <<>> \/ transitions[Len(transitions)][2] # state
  THEN Append(transitions, <<job, state>>) ELSE transitions
\* observe_state: a pair is dropped if it is the last of the log, whoever polled.
Noted(job, state) ==
  IF transitions = <<>> \/ transitions[Len(transitions)] # <<job, state>>
  THEN Append(transitions, <<job, state>>) ELSE transitions

\* A poll of one of the jobs the harness waits for: it may be as it was, and
\* the table leads from everything live to everything but QUEUED.
ObserveState(j, s) ==
  /\ Spend("polls")
  /\ seen[j] \notin LC!Terminal
  /\ seen[j] \notin {LC!NoJob, s} => s # "QUEUED"
  /\ seen' = [seen EXCEPT ![j] = s]
  /\ transitions' = Noted(j, s)
  /\ polls' = Append(polls, <<j, s>>)
  /\ entry' = Append(entry, Len(transitions'))
  /\ UNCHANGED <<calls, artifact_uris, container_samples, samples,
                 wired, clock, served, lost, answers, from_cache>>

\* The client times a call.
TimedCall(tool, latency) ==
  /\ Spend("calls")
  /\ calls' = Append(calls, [tool |-> tool, latency |-> latency])
  /\ UNCHANGED <<transitions, artifact_uris, container_samples, samples, world, truth>>

\* observe_artifact: the result of a job that has one, which the server rendered
\* or found in its cache.  It may find what this run never saw rendered, and
\* render what it has rendered before: generate jobs do not look in the cache,
\* two jobs that look at the same time both miss, and the reaper takes files.
ObserveArtifact(uri, found) ==
  /\ Spend("artifacts")
  /\ artifact_uris' = Append(artifact_uris, uri)
  /\ from_cache' = Append(from_cache, found)
  /\ UNCHANGED <<transitions, calls, container_samples, samples, world, polls, entry, answers>>

\* ... and of a job that has none.
ObserveNoArtifact ==
  /\ Spend("artifacts")
  /\ UNCHANGED <<notes, world, truth>>

\* _parse_prometheus and a look-up: of the lines with that name and a number
\* the last one counts.
Get(page, name) ==
  LET found == {i \in DOMAIN page : page[i].name = name /\ page[i].value # None}
  IN IF found = {} THEN None
     ELSE page[CHOOSE i \in found : \A k \in found : k <= i].value

\* VllmPrometheusProbe.sample: a line the page lacks, or all of them if the
\* scrape fails, is None.
Page(queue, tokens) ==
  << [name |-> "vllm:num_requests_waiting", value |-> queue],
     [name |-> "vllm:generation_tokens_total", value |-> tokens] >>
VllmSample(queue, tokens) ==
  [Empty EXCEPT !.queue_depth = Get(Page(queue, tokens), "vllm:num_requests_waiting"),
                !.generation_tokens_total = Get(Page(queue, tokens), "vllm:generation_tokens_total")]

\* NvidiaSmiVramProbe.sample
NvidiaSample(vram) == [Empty EXCEPT !.vram_mb = vram]

MergeAll(earlier, later) == later
\* CompositeApertusProbe: a later probe overrides what it has a value for.
Merge(earlier, later) ==
  [f \in Fields |-> IF later[f] # None THEN later[f] ELSE earlier[f]]

\* One probe, both in the order of _apertus_probe, or the null probe.
ApertusSample(queue, tokens, vram) ==
  Merge(IF "vllm" \in wired THEN VllmSample(queue, tokens) ELSE Empty,
        IF "nvidia" \in wired THEN NvidiaSample(vram) ELSE Empty)

\* DockerContainerProbe.count: None if docker ps fails; sample_containers keeps
\* the others.
SampleContainers(count) ==
  container_samples' =
    IF "docker" \in wired /\ count # None THEN Append(container_samples, count)
    ELSE container_samples

\* vLLM is restarted: its counters begin again.
Restart ==
  /\ Spend("restarts")
  /\ lost' = served
  /\ UNCHANGED <<notes, wired, clock, served, seen, truth>>

\* A turn of the sampler's loop.  vLLM may have generated a little more by then.
Tick(queue, counted, vram, count) ==
  /\ Spend("ticks")
  /\ \E step \in Steps : clock' = clock + step
  /\ served' \in {served, served + 1}
  /\ LET tokens == IF counted THEN served' - lost ELSE None IN
     /\ samples' = Append(samples, [time |-> clock', sample |-> ApertusSample(queue, tokens, vram)])
     /\ answers' = Append(answers, [docker |-> count, vram |-> vram, queue |-> queue, tokens |-> tokens,
                                    served |-> served', lost |-> lost])
  /\ SampleContainers(count)
  /\ UNCHANGED <<transitions, calls, artifact_uris, wired, lost, seen, polls, entry, from_cache>>

\* What the tool behind a side channel may say if it is there to be asked.
Says(source) == IF source \in wired THEN Gauges[source] \cup {None} ELSE {None}
Counts == IF "vllm" \in wired THEN BOOLEAN ELSE {FALSE}

\* All of them, with the inputs they may get.
Measure ==
  \/ \E j \in Jobs, s \in Seen : ObserveState(j, s)
  \/ \E tool \in Tools, latency \in Latencies : TimedCall(tool, latency)
  \/ \E uri \in Uris, found \in BOOLEAN : ObserveArtifact(uri, found)
  \/ ObserveNoArtifact
  \/ Restart
  \/ \E queue \in Says("vllm"), counted \in Counts, vram \in Says("nvidia"), count \in Says("docker") :
       Tick(queue, counted, vram, count)

\* A new process: its own instruments, and its own jobs on the same server.
NewProcess ==
  /\ seen' = [j \in Jobs |-> LC!NoJob]
  /\ transitions' = <<>> /\ calls' = <<>> /\ artifact_uris' = <<>>
  /\ container_samples' = <<>> /\ samples' = <<>>
  /\ polls' = <<>> /\ entry' = <<>> /\ answers' = <<>> /\ from_cache' = <<>>
  /\ clock' = 0
  /\ UNCHANGED <<wired, served, lost>>

-----------------------------------------------------------------------------
(***************************************************************************)
(* What is derived.                                                        *)
(***************************************************************************)
Highest(S) == IF S = {} THEN None ELSE CHOOSE n \in S : \A m \in S : m <= n

\* round(num / den), half to even; rank is the index percentile looks up in the
\* sorted values, counted from 1.
RoundDown(num, den) == num \div den
Round(num, den) ==
  LET whole == num \div den
      twice == 2 * (num % den)
  IN IF twice > den \/ (twice = den /\ whole % 2 = 1) THEN whole + 1 ELSE whole
Rank(pct, n) ==
  CASE pct <= 0   -> 1
    [] pct >= 100 -> n
    [] OTHER      -> IF Round(pct * n, 100) < 1 THEN 1 ELSE Round(pct * n, 100)

\* values[rank - 1] of the sorted values; values is a function on a finite set.
Below(values, v)  == Cardinality({i \in DOMAIN values : values[i] < v})
AtMost(values, v) == Cardinality({i \in DOMAIN values : values[i] <= v})
Smallest(values, rank) ==
  CHOOSE v \in {values[i] : i \in DOMAIN values} : Below(values, v) < rank /\ rank <= AtMost(values, v)

\* percentile
Percentile(values, pct) ==
  IF DOMAIN values = {} THEN None ELSE Smallest(values, Rank(pct, Cardinality(DOMAIN values)))

\* LatencyStats.of, latency_by_tool
LatenciesOf(cs, tool) == [i \in {k \in DOMAIN cs : cs[k].tool = tool} |-> cs[i].latency]
LatencyStats(values) ==
  [count |-> Cardinality(DOMAIN values),
   p50 |-> Percentile(values, 50), p95 |-> Percentile(values, 95), p99 |-> Percentile(values, 99),
   max |-> Highest({values[i] : i \in DOMAIN values})]
LatencyByTool(cs) ==
  [tool \in {cs[i].tool : i \in DOMAIN cs} |-> LatencyStats(LatenciesOf(cs, tool))]

Slow(call) == call.latency > Limit
\* latency_contract_violations
ContractViolations(cs) == {i \in DOMAIN cs : cs[i].tool \in FastTools /\ Slow(cs[i])}

CacheHitsSinceLast ==
  Cardinality({i \in 2..Len(artifact_uris) : artifact_uris[i] = artifact_uris[i - 1]})
\* cache_hit_rate, its numerator: what has been seen before.
CacheHits ==
  Cardinality({i \in DOMAIN artifact_uris : \E k \in 1..(i - 1) : artifact_uris[k] = artifact_uris[i]})
CacheHitRate == IF artifact_uris = <<>> THEN None ELSE <<CacheHits, Len(artifact_uris)>>

PeakContainerCount == Highest({container_samples[i] : i \in DOMAIN container_samples})

\* vram_high_water_mb, peak_queue_depth
Measured(field) == {i \in DOMAIN samples : samples[i].sample[field] # None}
HighWater(field) == Highest({samples[i].sample[field] : i \in Measured(field)})

Reading(i) == samples[i].sample.generation_tokens_total
Readings == Measured("generation_tokens_total")
First    == CHOOSE i \in Readings : \A k \in Readings : i <= k
Latest   == CHOOSE i \in Readings : \A k \in Readings : k <= i
ElapsedOfRun == clock - samples[1].time
Elapsed == samples[Latest].time - samples[First].time
\* mean_generation_tok_per_s: between the first and the last reading.
MeanRate ==
  IF Cardinality(Readings) >= 2 /\ Elapsed > 0
  THEN <<samples[Latest].sample.generation_tokens_total - samples[First].sample.generation_tokens_total,
         Elapsed>>
  ELSE None

\* The two summary methods, as _finalize writes them; cs are the calls drained.
ApertusObservable == wired \cap {"vllm", "nvidia"} # {}
Summary(cs) ==
  [latency_by_tool |-> LatencyByTool(cs),
   violations |-> Cardinality(ContractViolations(cs)),
   cache_hit_rate |-> CacheHitRate,
   states_seen |-> {transitions[i][2] : i \in DOMAIN transitions},
   transition_count |-> Len(transitions),
   container_count |->
     IF "docker" \in wired
     THEN [observable |-> TRUE, samples |-> Len(container_samples), peak |-> PeakContainerCount]
     ELSE [observable |-> FALSE],
   apertus |->
     IF ApertusObservable
     THEN [observable |-> TRUE, samples |-> Len(samples), vram_high_water_mb |-> HighWater("vram_mb"),
           peak_queue_depth |-> HighWater("queue_depth"), mean_tok_per_s |-> MeanRate]
     ELSE [observable |-> FALSE]]

\* What a summary may be, with a table for these tools.
Number == Nat \cup {None}
Rate   == (Int \X (Nat \ {0})) \cup {None}
Latency == [count : Nat \ {0}, p50 : Nat, p95 : Nat, p99 : Nat, max : Nat]
MetricsFile(tools) ==
  [latency_by_tool : [tools -> Latency],
   violations : Nat, cache_hit_rate : Rate, states_seen : SUBSET Seen, transition_count : Nat,
   container_count : [observable : {TRUE}, samples : Nat, peak : Number] \cup [observable : {FALSE}],
   apertus : [observable : {TRUE}, samples : Nat, vram_high_water_mb : Number, peak_queue_depth : Number,
              mean_tok_per_s : Rate] \cup [observable : {FALSE}]]

ASSUME MetricsFileOK == \A tools \in SUBSET Tools : None \notin MetricsFile(tools)

-----------------------------------------------------------------------------
MetricsTypeOK ==
  /\ transitions \in Seq(Jobs \X Seen)
  /\ calls \in Seq([tool : Tools, latency : Nat])
  /\ artifact_uris \in Seq(Uris)
  /\ container_samples \in Seq(Nat)
  /\ samples \in Seq([time : Nat, sample : [Fields -> Nat \cup {None}]])
  /\ wired \in Wirings
  /\ clock \in Nat /\ served \in Nat /\ lost \in Nat /\ lost <= served
  /\ seen \in [Jobs -> Seen \cup {LC!NoJob}]
  /\ polls \in Seq(Jobs \X Seen)
  /\ entry \in Seq(Nat)
  /\ answers \in Seq([docker : Nat \cup {None}, vram : Nat \cup {None}, queue : Nat \cup {None},
                      tokens : Nat \cup {None}, served : Nat, lost : Nat])
  /\ from_cache \in Seq(BOOLEAN)
  /\ left \in [Kinds -> Nat]

\* "Record a job-state transition seen while polling" (instrument.py:142-146),
\* with pollers that interleave: every poll has its entry, entries stand in the
\* order of the polls, nothing else is in the log, and only what another job's
\* entry separates is entered twice.
LogFaithful ==
  /\ Len(entry) = Len(polls)
  /\ \A i \in DOMAIN polls : entry[i] \in DOMAIN transitions /\ transitions[entry[i]] = polls[i]
  /\ \A i, k \in DOMAIN polls : i <= k => entry[i] <= entry[k]
  /\ \A e \in DOMAIN transitions : \E i \in DOMAIN polls : entry[i] = e
  /\ \A e \in DOMAIN transitions : e > 1 => transitions[e] # transitions[e - 1]

\* "A finding, not a zero" (instrument.py:15): what a source has said reaches
\* the summary whichever other source is silent, a source that never spoke is
\* None, and a zero it did report counts (instrument.py:157-166,344-381).
SideChannelsHonest ==
  LET said(source) == {answers[i][source] : i \in DOMAIN answers} \ {None}
      times(source) == Cardinality({i \in DOMAIN answers : answers[i][source] # None})
  IN /\ PeakContainerCount = Highest(said("docker"))
     /\ Len(container_samples) = times("docker")
     /\ HighWater("vram_mb") = Highest(said("vram"))
     /\ HighWater("queue_depth") = Highest(said("queue"))
     /\ Cardinality(Readings) = times("tokens")

\* The tokens per second reported are never more than vLLM generated between
\* the two ticks they come from, and exactly that unless vLLM was restarted
\* between them (instrument.py:383-395); scrapes that fail do not matter.
RateNeverFlatters ==
  MeanRate # None =>
    LET made == answers[Latest].served - answers[First].served IN
    /\ First < Latest
    /\ MeanRate[2] = samples[Latest].time - samples[First].time
    /\ MeanRate[1] <= made
    /\ answers[Latest].lost = answers[First].lost => MeanRate[1] = made

\* The latency table and the list of breaches agree on every tool
\* (instrument.py:39-50,170-187): the p-th percentile is over the limit only if
\* at least (100 - p) % of the calls and half a call more breach it, and within
\* it only if at most as many do, however few the calls; and the percentiles
\* are in order.
TailsAreBreaches ==
  \A tool \in FastTools :
    LET values   == LatenciesOf(calls, tool)
        n        == Cardinality(DOMAIN values)
        stats    == LatencyStats(values)
        breaches == Cardinality(ContractViolations(calls) \cap DOMAIN values)
    IN n > 0 =>
         /\ stats.p50 <= stats.p95 /\ stats.p95 <= stats.p99 /\ stats.p99 <= stats.max
         /\ \A pct \in {50, 95, 99} :
              IF Percentile(values, pct) > Limit THEN 100 * breaches >= (100 - pct) * n + 50
                                                 ELSE 100 * breaches <= (100 - pct) * n + 50

\* What the hit rate made of repeated URIs is worth (instrument.py:189-206): it
\* counts too many hits by the jobs that rendered a URI another had rendered, and
\* too few by the URIs that came from the cache and were never rendered here.
HitRateTrue ==
  LET hits    == {i \in DOMAIN from_cache : from_cache[i]}
      renders == DOMAIN from_cache \ hits
      again   == {i \in renders : \E k \in renders : k < i /\ artifact_uris[k] = artifact_uris[i]}
      unseen  == {artifact_uris[i] : i \in hits} \ {artifact_uris[i] : i \in renders}
  IN /\ Len(from_cache) = Len(artifact_uris)
     /\ CacheHits = Cardinality(hits) + Cardinality(again) - Cardinality(unseen)
=============================================================================
