------------------------------ MODULE Analysis ------------------------------
(***************************************************************************)
(* analysis/: what the report makes of the run directories it is given.    *)
(* A directory is [runs, attempts, metrics, concurrency]: the two .jsonl   *)
(* files, metrics.json and the concurrency run.json names; the last two    *)
(* are None when there is no such file or entry.  An attempt is [failed,   *)
(* class]: whether it has a traceback, and its hand label.  Rates are      *)
(* pairs <<numerator, denominator>>; percentages, tables and wording are   *)
(* left out.                                                               *)
(*                                                                         *)
(* A definition that stands right before another and shares its name's     *)
(* beginning is a slip the second one could have had; no behaviour uses it.*)
(***************************************************************************)
EXTENDS Metrics, SequencesExt

CONSTANTS
  HandLabels,  \* what a human may write into failure_class
  TotalVram    \* DEFAULT_TOTAL_VRAM_MB

\* FailureClass without UNCLASSIFIED, in the order the report's counts have;
\* any other label comes after them.
FailureClass == <<"wrong-api", "manimgl-confusion", "syntax", "import", "semantic">>
CountsOrder  == FailureClass \o SetToSeq(HandLabels \ ToSet(FailureClass))

ASSUME AnalysisConstantsOK ==
  None \notin HandLabels /\ None \notin BOOLEAN /\ IsFiniteSet(HandLabels) /\ TotalVram \in Nat

Size(S) == Cardinality(S)

-----------------------------------------------------------------------------
(***************************************************************************)
(* success.py: runs is a sequence of RunRecords.                           *)
(***************************************************************************)
Conditions(runs) == {runs[i].condition : i \in DOMAIN runs}
Of(runs, condition) == {i \in DOMAIN runs : runs[i].condition = condition}

FirstPass(runs, group)  == {i \in group : runs[i].first}
PostRepair(runs, group) == {i \in group : runs[i].succeeded}

\* success_rates: one row per condition and tier.
Rows(runs) == {<<runs[i].condition, runs[i].tier>> : i \in DOMAIN runs}
SuccessRates(runs) ==
  [row \in Rows(runs) |->
     LET group == {i \in Of(runs, row[1]) : runs[i].tier = row[2]}
     IN [n |-> Size(group), first_pass |-> Size(FirstPass(runs, group)),
         post_repair |-> Size(PostRepair(runs, group))]]

\* attempt_distribution
AttemptDistribution(runs) ==
  [c \in Conditions(runs) |->
     [k \in {runs[i].attempts : i \in Of(runs, c)} |->
        Size({i \in Of(runs, c) : runs[i].attempts = k})]]

\* convergence: P(succeed at attempt k | reached it), for every k that occurs.
MaxAttempts(runs, c) == Highest({runs[i].attempts : i \in Of(runs, c)})
Reached(runs, c, k)     == {i \in Of(runs, c) : k <= runs[i].attempts}
SucceededAt(runs, c, k) == {i \in Of(runs, c) : runs[i].succeeded /\ runs[i].attempts = k}
MarginalSuccess(runs, c) ==
  [k \in 1..MaxAttempts(runs, c) |-> <<Size(SucceededAt(runs, c, k)), Size(Reached(runs, c, k))>>]

Higher(rate, than) == rate[1] * than[2] > than[1] * rate[2]
\* converges: only the last attempt is compared with the first.
Converges(runs, c) ==
  LET marginal == MarginalSuccess(runs, c) IN
  IF Len(marginal) < 2 THEN None ELSE Higher(marginal[Len(marginal)], marginal[1])

RepairYieldOfAll(runs, c) == <<Size(PostRepair(runs, Of(runs, c))), Size(Of(runs, c))>>
RepairYield(runs, c) ==
  LET failures == Of(runs, c) \ FirstPass(runs, Of(runs, c))
  IN IF failures = {} THEN None ELSE <<Size(PostRepair(runs, failures)), Size(failures)>>

-----------------------------------------------------------------------------
(***************************************************************************)
(* taxonomy.py                                                             *)
(***************************************************************************)
FailedAttempts(attempts) == {i \in DOMAIN attempts : attempts[i].failed}

\* taxonomy_report: labels count where there is a traceback.
TaxonomyReport(attempts, runs) ==
  LET failed   == FailedAttempts(attempts)
      labelled == {i \in failed : attempts[i].class # None}
  IN [counts |-> [c \in ToSet(CountsOrder) |-> Size({i \in labelled : attempts[i].class = c})],
      total_failed |-> Size(failed),
      hand_labelled |-> Size(labelled),
      unclassified |-> Size(failed \ labelled),
      needs_semantic_review |-> Size(PostRepair(runs, DOMAIN runs))]

\* max(counts.items()): the first of the highest.
Dominant(counts) ==
  LET best == CHOOSE i \in DOMAIN CountsOrder :
                \A k \in DOMAIN CountsOrder :
                  counts[CountsOrder[k]] < counts[CountsOrder[i]]
                    \/ (counts[CountsOrder[k]] = counts[CountsOrder[i]] /\ i <= k)
  IN CountsOrder[best]

-----------------------------------------------------------------------------
(***************************************************************************)
(* throughput.py and what report.py feeds it.                              *)
(***************************************************************************)
\* lr.metrics.get(...): no file, no entry.
Apertus(dir, field) ==
  IF dir.metrics # None /\ dir.metrics.apertus.observable THEN dir.metrics.apertus[field] ELSE None

OverallP95(dir) ==
  IF dir.metrics = None THEN None
  ELSE LET table == dir.metrics.latency_by_tool
       IN Highest({table[tool].p95 : tool \in DOMAIN table} \ {None})
SuccessRate(runs) ==
  IF runs = <<>> THEN None ELSE <<Size(PostRepair(runs, DOMAIN runs)), Len(runs)>>

\* The points of the curve, by directory.
Labelled(loaded) == {d \in DOMAIN loaded : loaded[d].concurrency # None}
MeanTok(dir) == Apertus(dir, "mean_tok_per_s")

LeftOfAsGiven(loaded, d, e) == d <= e
\* sort(key=concurrency) is stable.
LeftOf(loaded, d, e) ==
  loaded[d].concurrency < loaded[e].concurrency
    \/ (loaded[d].concurrency = loaded[e].concurrency /\ d <= e)
\* A rate of 0 is as good as none.
Truthy(rate) == rate # None /\ rate[1] # 0
Baseline(loaded) ==
  LET usable == {d \in Labelled(loaded) : Truthy(MeanTok(loaded[d]))} IN
  IF usable = {} THEN None
  ELSE MeanTok(loaded[CHOOSE d \in usable : \A e \in usable : LeftOf(loaded, d, e)])
Degradation(loaded, d) ==
  LET tok == MeanTok(loaded[d])
      base == Baseline(loaded)
  IN IF base = None \/ tok = None THEN None ELSE <<tok[1] * base[2], base[1] * tok[2]>>
Point(loaded, d) ==
  [concurrency |-> loaded[d].concurrency, tok |-> MeanTok(loaded[d]), p95 |-> OverallP95(loaded[d]),
   success |-> SuccessRate(loaded[d].runs), degradation |-> Degradation(loaded, d)]
ThroughputCurve(loaded) == [d \in Labelled(loaded) |-> Point(loaded, d)]

\* vram_headroom of the highest mark of all runs
VramHeadroom(loaded) ==
  LET high == Highest({Apertus(loaded[d], "vram_high_water_mb") : d \in DOMAIN loaded} \ {None})
  IN IF high = None THEN [observable |-> FALSE]
     ELSE [observable |-> TRUE, high_water |-> high, headroom |-> TotalVram - high, fits |-> TotalVram > high]

-----------------------------------------------------------------------------
(***************************************************************************)
(* report.py                                                               *)
(***************************************************************************)
AllRuns(loaded)     == FlattenSeq([d \in DOMAIN loaded |-> loaded[d].runs])
AllAttempts(loaded) == FlattenSeq([d \in DOMAIN loaded |-> loaded[d].attempts])

Breaches(dir) == IF dir.metrics = None THEN 0 ELSE dir.metrics.violations

TaxonomyAdviceUnasked(tax) ==
  {a \in {<<"6.1", "manimgl-confusion">>, <<"6.2", "semantic">>} :
     a[2] = Dominant(tax.counts) /\ tax.counts[a[2]] > 0}
\* Corpus or ceiling: only when all is classified.
TaxonomyAdvice(tax) ==
  IF tax.unclassified > 0 THEN {<<"6.1/6.2", "pending">>}
  ELSE {a \in {<<"6.1", "manimgl-confusion">>, <<"6.2", "semantic">>} :
          a[2] = Dominant(tax.counts) /\ tax.counts[a[2]] > 0}

\* _section_advisories
Advisories(loaded) ==
  LET runs == AllRuns(loaded) IN
  {<<"6.4", "fix MANIMA">> : d \in {e \in DOMAIN loaded : Breaches(loaded[e]) > 0}}
    \cup {<<"6.3", c>> : c \in {k \in Conditions(runs) : Converges(runs, k) = FALSE}}
    \cup TaxonomyAdvice(TaxonomyReport(AllAttempts(loaded), runs))

\* build_report
Report(loaded) ==
  LET runs == AllRuns(loaded) IN
  [success      |-> SuccessRates(runs),
   distribution |-> AttemptDistribution(runs),
   convergence  |-> [c \in Conditions(runs) |->
                       [verdict |-> Converges(runs, c), marginal |-> MarginalSuccess(runs, c),
                        yield |-> RepairYield(runs, c)]],
   taxonomy     |-> TaxonomyReport(AllAttempts(loaded), runs),
   curve        |-> ThroughputCurve(loaded),
   vram         |-> VramHeadroom(loaded),
   advice       |-> Advisories(loaded)]
=============================================================================
