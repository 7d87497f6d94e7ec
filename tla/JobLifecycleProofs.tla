------------------------- MODULE JobLifecycleProofs -------------------------
(***************************************************************************)
(* What the transition table of core/state_machine.py guarantees, whoever  *)
(* makes the transitions.                                                  *)
(***************************************************************************)
EXTENDS JobLifecycle, TLAPS

\* The docstring of state_machine.py (lines 3-5): an edge of the table that
\* does not climb towards the end is one of the two repair edges.
THEOREM RepairIsTheOnlyWayBack == OnlyRepairGoesBack
<1>. SUFFICES ASSUME NEW src \in JobState, NEW dst \in Allowed[src]
              PROVE  <<src, dst>> \in RepairEdges \/ Rank[dst] > Rank[src]
  BY DEF OnlyRepairGoesBack
<1>. USE DEF JobState, Live, Terminal, Allowed, RepairEdges, Rank
<1>1. CASE src \in Live      BY <1>1
<1>2. CASE src \in Terminal  BY <1>2
<1>. QED BY <1>1, <1>2

\* From a terminal state a chain of edges leads to EXPIRED or nowhere.
LEMMA TerminalOnward ==
  ASSUME NEW src \in Terminal, NEW dst, Onward(src, dst)
  PROVE  dst = "EXPIRED"
BY DEF Onward, CanTransition, Allowed, JobState, Live, Terminal

\* A finished job is never resurrected (_ALLOWED, state_machine.py:30-34).
THEOREM FinishedIsFinal == Spec => FinishedStaysFinished
<1>1. [Next]_state =>
        [\A j \in Jobs : state[j] \in Terminal => state'[j] \in {state[j], "EXPIRED"}]_state
  <2>. SUFFICES ASSUME Next, NEW j \in Jobs, state[j] \in Terminal
                PROVE  state'[j] \in {state[j], "EXPIRED"}
    OBVIOUS
  <2>1. Move(j)
    BY DEF Next
  <2>2. state[j] # NoJob
    BY DEF Terminal, NoJob
  <2>. QED BY <2>1, <2>2, TerminalOnward DEF Move
<1>. QED BY <1>1, PTL DEF Spec, FinishedStaysFinished
=============================================================================
