------------------------------ MODULE Campaign ------------------------------
(***************************************************************************)
(* A measurement campaign: runs of the harness one after another, each     *)
(* with new instruments and a directory of its own, processes that end     *)
(* well, with an exception or not at all, a human who labels attempts, and *)
(* the report, which may be asked for at any time.                         *)
(*                                                                         *)
(* A definition that stands right before another and shares its name's     *)
(* beginning is a slip the second one could have had; no behaviour uses it.*)
(***************************************************************************)
EXTENDS Analysis

CONSTANTS
  Slices,        \* [condition, tier] of the jobs
  Traces,        \* of a job: for each attempt, whether it has a traceback
  Concurrencies  \* labels of burst and mixed runs

ASSUME CampaignConstantsOK ==
  /\ Traces \subseteq Seq(BOOLEAN) \ {<<>>}
  /\ Concurrencies \subseteq Nat

VARIABLES
  dirs,    \* the run directories; the last is that of the run under way
  fates    \* what is true of the runs that are over

vars == <<metricsVars, dirs, fates>>

Now == Len(dirs)
NewDir == [runs |-> <<>>, attempts |-> <<>>, metrics |-> None, concurrency |-> None]

Init ==
  /\ MetricsInit
  /\ dirs = <<NewDir>>
  /\ fates = <<>>

UnlabelledByName(trace) == [i \in DOMAIN trace |-> [failed |-> trace[i], class |-> "unclassified"]]
\* failure_class "starts unset"
Unlabelled(trace) == [i \in DOMAIN trace |-> [failed |-> trace[i], class |-> None]]

\* record_result of one job.  A success ends the trace; without a success its
\* last attempt may still be a good one (an expired job has no trace any more,
\* and an artifact may be lost after the render).
RecordRun(slice, trace, ok) ==
  /\ Spend("jobs")
  /\ ok => ~trace[Len(trace)]
  /\ dirs' = [dirs EXCEPT
       ![Now].attempts = @ \o Unlabelled(trace),
       ![Now].runs = Append(@, [condition |-> slice.condition, tier |-> slice.tier, succeeded |-> ok,
                                attempts |-> Len(trace), first |-> ok /\ Len(trace) <= 1])]
  /\ UNCHANGED <<notes, world, truth, fates>>

\* vLLM was restarted while the run watched it.
Restarted == \E i, k \in DOMAIN answers : answers[i].lost # answers[k].lost

\* The next run.  Of this one it is known how it ended, and whether its calls
\* were drained.
NextRun(how, drained) ==
  /\ NewProcess
  /\ fates' = Append(fates, [how |-> how, drained |-> drained,
                            slow |-> ContractViolations(calls) # {}, restarted |-> Restarted])

\* What a record_result that broke off has written: some attempts and no run.
Halfway(dir, lines) == [dir EXCEPT !.attempts = @ \o Unlabelled(lines)]

\* _finalize: metrics.json, then run.json.
Finalize(lines, cs, concurrency) ==
  dirs' = Append([dirs EXCEPT ![Now] = [Halfway(@, lines) EXCEPT !.metrics = Summary(cs),
                                                                !.concurrency = concurrency]], NewDir)

\* The profile returns and its calls are drained.
RunEndsWell(concurrency) ==
  /\ Spend("ends")
  /\ Finalize(<<>>, calls, concurrency)
  /\ NextRun("well", TRUE)

\* An exception passes _drain_calls, but not the `finally` around the run.
RunRaises(lines, concurrency) ==
  /\ Spend("ends")
  /\ Finalize(lines, <<>>, concurrency)
  /\ NextRun("raised", FALSE)

\* The process dies between the two files of _finalize, after a run that ended
\* well or raised, or before the first one.
ProcessDies(lines) ==
  /\ Spend("ends")
  /\ \/ Finalize(<<>>, calls, None) /\ NextRun("killed", TRUE)
     \/ Finalize(lines, <<>>, None) /\ NextRun("killed", FALSE)
     \/ dirs' = Append([dirs EXCEPT ![Now] = Halfway(@, lines)], NewDir) /\ NextRun("killed", FALSE)

\* A human edits attempts.jsonl.
HandLabel(d, i, class) ==
  /\ Spend("labels")
  /\ dirs' = [dirs EXCEPT ![d].attempts[i].class = class]
  /\ UNCHANGED <<notes, world, truth, fates>>

Next ==
  \/ Measure /\ UNCHANGED <<dirs, fates>>
  \/ \E slice \in Slices, trace \in Traces, ok \in BOOLEAN : RecordRun(slice, trace, ok)
  \/ \E c \in Concurrencies \cup {None} : RunEndsWell(c)
  \/ \E lines \in Traces \cup {<<>>}, c \in Concurrencies \cup {None} : RunRaises(lines, c)
  \/ \E lines \in Traces \cup {<<>>} : ProcessDies(lines)
  \/ \E d \in DOMAIN fates : \E i \in DOMAIN dirs[d].attempts, class \in HandLabels : HandLabel(d, i, class)

Spec == Init /\ [][Next]_vars

-----------------------------------------------------------------------------
\* runs.jsonl, attempts.jsonl and the whole directory
RunRecord == [condition : {s.condition : s \in Slices}, tier : {s.tier : s \in Slices},
              succeeded : BOOLEAN, attempts : Nat \ {0}, first : BOOLEAN]
AttemptRecord == [failed : BOOLEAN, class : HandLabels \cup {None}]
RunDirectory(tools) == [runs : Seq(RunRecord), attempts : Seq(AttemptRecord),
                        metrics : MetricsFile(tools) \cup {None}, concurrency : Concurrencies \cup {None}]
Fate == [how : {"well", "raised", "killed"}, drained : BOOLEAN, slow : BOOLEAN, restarted : BOOLEAN]

TypeOK ==
  /\ MetricsTypeOK
  /\ fates \in Seq(Fate)
  /\ DOMAIN dirs = 1..(Len(fates) + 1)
  /\ \A d \in DOMAIN dirs : \E tools \in SUBSET Tools : dirs[d] \in RunDirectory(tools)

\* success.py computes the same jobs three ways, and they agree for every
\* condition: the tiers, the histogram and the curve each account for all of
\* them, attempt 1 of the curve is the first-pass rate, and the repair yield is
\* the repair lift over the first-pass failures.  "Cut the repair budget" is
\* advised only if a job has used the most attempts of all in vain.
RepairAccounted ==
  LET report == Report(dirs)
      runs   == AllRuns(dirs)
  IN \A c \in Conditions(runs) :
       LET rows     == {row \in DOMAIN report.success : row[1] = c}
           n        == SumFunction([row \in rows |-> report.success[row].n])
           first    == SumFunction([row \in rows |-> report.success[row].first_pass])
           post     == SumFunction([row \in rows |-> report.success[row].post_repair])
           hist     == report.distribution[c]
           marginal == report.convergence[c].marginal
       IN /\ n = Size(Of(runs, c))
          /\ n = SumFunction(hist)
          /\ marginal[1] = <<first, n>>
          /\ post = SumFunction([k \in DOMAIN marginal |-> marginal[k][1]])
          /\ report.convergence[c].yield = (IF n = first THEN None ELSE <<post - first, n - first>>)
          /\ <<"6.3", c>> \in report.advice =>
               \E i \in Of(runs, c) : ~runs[i].succeeded /\ runs[i].attempts = Len(marginal)

\* Section 6 advises what the directories bear out, whichever runs failed,
\* whatever is labelled and in which order (report.py:196-238): the contract is
\* called broken iff a run whose calls were drained has seen it broken; corpus
\* and ceiling are never both the lever, and one is only if every attempt with
\* a traceback is labelled and none of their labels is more frequent than its own.
AdviceBacked ==
  LET advice == Advisories(dirs)
      failed == UNION {{<<d, i>> : i \in FailedAttempts(dirs[d].attempts)} : d \in DOMAIN dirs}
      Class(a) == dirs[a[1]].attempts[a[2]].class
      Share(class) == Size({a \in failed : Class(a) = class})
  IN /\ <<"6.4", "fix MANIMA">> \in advice <=> \E d \in DOMAIN fates : fates[d].drained /\ fates[d].slow
     /\ Size({a \in advice : a[1] \in {"6.1", "6.2", "6.1/6.2"}}) <= 1
     /\ \A a \in advice : a[1] \in {"6.1", "6.2"} =>
          /\ \A f \in failed : Class(f) # None
          /\ Share(a[2]) > 0
          /\ \A class \in HandLabels : Share(class) <= Share(a[2])

\* "An unobservable metric is a finding, not a zero" (throughput.py:5-6), along
\* the sweep.  A run whose process died is no point of the curve, a point has
\* its metrics, and one that raised has no latency.  A point is compared iff it
\* has a rate and some point has one other than 0 (a rate of 0 counts as none,
\* throughput.py:48-49); the baseline is such a point with none to its left,
\* and only a restart of vLLM in one of the two runs makes a comparison negative.
CurveHonest ==
  LET curve    == ThroughputCurve(dirs)
      measured == {d \in DOMAIN curve : curve[d].tok # None}
      usable   == {d \in measured : curve[d].tok[1] # 0}
      ratio(d) == curve[d].degradation
  IN /\ \A d \in DOMAIN curve :
          /\ fates[d].how # "killed" /\ dirs[d].metrics # None
          /\ fates[d].how = "raised" => curve[d].p95 = None
          /\ ratio(d) # None <=> (d \in measured /\ usable # {})
     /\ usable # {} =>
          \E b \in usable :
            /\ ratio(b)[1] = ratio(b)[2]
            /\ \A e \in usable : curve[b].concurrency <= curve[e].concurrency
            /\ \A e \in measured :
                 ~fates[b].restarted /\ ~fates[e].restarted => ratio(e)[1] * ratio(e)[2] >= 0
=============================================================================
