----------------------------- MODULE MCHarness -----------------------------
(***************************************************************************)
(* Instances of Harness for TLC.                                           *)
(***************************************************************************)
EXTENDS Harness

\* soak and repair-heavy; burst in waves of two; mixed with a limiter.
SoakShape  == [limit |-> 1, wave |-> 3, timed |-> TRUE]
BurstShape == [limit |-> 2, wave |-> 2, timed |-> FALSE]
MixedShape == [limit |-> 2, wave |-> 3, timed |-> FALSE]
AllShapes  == {SoakShape, BurstShape, MixedShape}

\* No trace (one attempt, good unless the job failed) and a repair.
ShortTraces == {<<>>, <<TRUE, FALSE>>}

\* Two live states and two ends; a client sees no difference between others.
FewStates == {"QUEUED", "RENDERING", "SUCCEEDED", "FAILED", "EXPIRED"}
=============================================================================
