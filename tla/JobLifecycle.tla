---------------------------- MODULE JobLifecycle ----------------------------
(***************************************************************************)
(* What the job machine promises to a client that polls a job: the         *)
(* transition table of core/state_machine.py and nothing else.  A worker   *)
(* takes several transitions between two suspension points, so what a      *)
(* poll sees is a short chain of table edges.                              *)
(***************************************************************************)
EXTENDS Naturals

CONSTANT Jobs      \* the jobs that are ever submitted

VARIABLE state     \* [Jobs -> JobState \cup {NoJob}]: what job_status reports

-----------------------------------------------------------------------------
(***************************************************************************)
(* The table.                                                              *)
(***************************************************************************)
NoJob == "NONE"    \* no such row yet: job_status answers "unknown job"

Live     == {"QUEUED", "GENERATING", "VALIDATING", "RENDERING"}
Terminal == {"SUCCEEDED", "FAILED", "CANCELLED", "EXPIRED"}
JobState == Live \cup Terminal

\* _ALLOWED: the states each state may move to.
Allowed ==
  [s \in JobState |->
     CASE s = "QUEUED"     -> {"GENERATING", "VALIDATING", "CANCELLED", "FAILED"}
       [] s = "GENERATING" -> {"VALIDATING", "CANCELLED", "FAILED"}
       [] s = "VALIDATING" -> {"RENDERING", "GENERATING", "CANCELLED", "FAILED"}
       [] s = "RENDERING"  -> {"SUCCEEDED", "FAILED", "GENERATING", "CANCELLED"}
       [] s = "EXPIRED"    -> {}
       [] OTHER            -> {"EXPIRED"}]

RepairEdges == {<<"VALIDATING", "GENERATING">>, <<"RENDERING", "GENERATING">>}

CanTransition(src, dst) == dst \in Allowed[src]

\* A chain of at most three edges: the longest run of transitions a worker
\* makes without suspending (VALIDATING, RENDERING, SUCCEEDED on a cache hit).
Onward(src, dst) ==
  \/ CanTransition(src, dst)
  \/ \E mid \in Allowed[src] :
       \/ CanTransition(mid, dst)
       \/ \E late \in Allowed[mid] : CanTransition(late, dst)

-----------------------------------------------------------------------------
Init == state = [j \in Jobs |-> NoJob]

\* One job between two polls.
Move(j) ==
  \/ state'[j] = state[j]
  \/ state[j] = NoJob /\ state'[j] = "QUEUED"
  \/ state[j] \in JobState /\ Onward(state[j], state'[j])

\* The reaper expires several jobs in one sweep, so one step may move many.
Next ==
  /\ state' \in [Jobs -> JobState \cup {NoJob}]
  /\ \A j \in Jobs : Move(j)

Spec == Init /\ [][Next]_state

TypeOK == state \in [Jobs -> JobState \cup {NoJob}]

-----------------------------------------------------------------------------
(***************************************************************************)
(* How far along a state is.  Every edge climbs except the repair edges.   *)
(***************************************************************************)
Rank ==
  [s \in JobState |->
     CASE s = "QUEUED"     -> 0
       [] s = "GENERATING" -> 1
       [] s = "VALIDATING" -> 2
       [] s = "RENDERING"  -> 3
       [] s = "EXPIRED"    -> 5
       [] OTHER            -> 4]

\* "The only backward edge is the repair edge" (state_machine.py:3-5,
\* openspec jobs/spec.md:74): an edge that does not climb is a repair edge.
OnlyRepairGoesBack ==
  \A src \in JobState : \A dst \in Allowed[src] :
    <<src, dst>> \in RepairEdges \/ Rank[dst] > Rank[src]

\* A finished job is never resurrected: the only thing that can still happen
\* to it is expiry (_ALLOWED lines 31-34).
FinishedStaysFinished ==
  [][\A j \in Jobs : state[j] \in Terminal => state'[j] \in {state[j], "EXPIRED"}]_state
=============================================================================
