----------------------------- MODULE MCCampaign -----------------------------
(***************************************************************************)
(* Instances of Campaign for TLC.  One kind of observation hardly affects  *)
(* another before the report, so each budget lets a few kinds go far.      *)
(***************************************************************************)
EXTENDS Campaign

CONSTANTS j1, j2, u1, u2

Budget(spent) == [k \in Kinds |-> IF k \in DOMAIN spent THEN spent[k] ELSE 0]

MCBudgets == {
  Budget([polls |-> 6]),
  Budget([calls |-> 5]),
  Budget([artifacts |-> 6]),
  Budget([ticks |-> 3, restarts |-> 1]),
  Budget([jobs |-> 3]),
  Budget([jobs |-> 2, ends |-> 1, labels |-> 1]),
  Budget([jobs |-> 1, ends |-> 2, labels |-> 2]),
  Budget([ticks |-> 4, restarts |-> 1, ends |-> 2]),
  Budget([calls |-> 2, ends |-> 2]),
  Budget([calls |-> 1, ticks |-> 1, jobs |-> 1, ends |-> 1]) }

\* The side channels vary only where they are looked at.  In a sweep of several
\* runs vLLM always answers (a run of less than two ticks goes unmeasured), time
\* stands still only where vLLM alone is asked, and only where jobs are left is
\* one broken off.
Sweep == left.ends + Len(fates) > 0
MCInit ==
  /\ Init
  /\ left.ticks = 0 => wired = {}
  /\ left.ticks > 0 /\ Sweep => wired = {"vllm"}
Ticks  == Len(answers') > Len(answers)
Breaks == fates' # fates /\ dirs'[Now].attempts # dirs[Now].attempts
MCNext ==
  /\ Next
  /\ Ticks /\ Sweep => answers'[Len(answers')].queue # None /\ answers'[Len(answers')].tokens # None
  /\ Ticks /\ (Sweep \/ wired # {"vllm"}) => clock' > clock
  /\ Breaks => left.jobs > 0 /\ dirs'[Now].concurrency = None
MCSpec == MCInit /\ [][MCNext]_vars

MCWirings == {{}, {"docker"}, {"vllm"}, {"vllm", "nvidia"}}
MCGauges == [docker |-> {0, 1}, nvidia |-> {1, 2}, vllm |-> {0}]
MCSlices == {[condition |-> "apertus", tier |-> "easy"], [condition |-> "apertus", tier |-> "hard"],
             [condition |-> "frontier", tier |-> "easy"]}
\* a good candidate, a failure, a repair, three failures
MCTraces == {<<FALSE>>, <<TRUE>>, <<TRUE, FALSE>>, <<TRUE, TRUE, TRUE>>}
=============================================================================
