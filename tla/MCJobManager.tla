---------------------------- MODULE MCJobManager ----------------------------
(***************************************************************************)
(* Instances of JobManager for TLC: a source `good` with one scene (or     *)
(* two) and a source `bad` the validator rejects.                          *)
(***************************************************************************)
EXTENDS JobManager, TLC

CONSTANTS good, bad, sceneA, sceneB

MCSources  == {good, bad}
MCScenes   == {sceneA, sceneB}
MCAccepted == {good}
MCScenesIn == (good :> {sceneA}) @@ (bad :> {})

Render(src, scene) == [tool |-> "render", source |-> src, scene |-> scene]
Generate(budget, allow) == [tool |-> "generate", budget |-> budget, allow |-> allow]

MCRenderRequests   == {Render(good, NoScene), Render(bad, NoScene)}
MCGenerateRequests == {Generate(2, TRUE), Generate(1, FALSE), Generate(0, TRUE)}

OneRender   == {Render(good, NoScene)}
OneGenerate == {Generate(2, FALSE)}
NoRepair    == {Generate(1, FALSE)}

\* A render job, a generate job that may repair once, and generate jobs that do
\* not repair.  Jobs are otherwise interchangeable: it does not matter which.
MixedInit ==
  LET one == CHOOSE j \in Jobs : TRUE
      two == CHOOSE j \in Jobs \ {one} : TRUE
  IN /\ Init
     /\ req[one] \in OneRender
     /\ req[two] \in OneGenerate
     /\ \A j \in Jobs \ {one, two} : req[j] \in NoRepair
MixedSpec == MixedInit /\ [][Next]_vars /\ OnlySandboxAnswers

\* Two calls on one two-scene file, each naming its scene.
TwoScenesIn  == (good :> {sceneA, sceneB}) @@ (bad :> {})
NamedRenders == {Render(good, sceneA), Render(good, sceneB)}
None         == {}
ShortGenerates == OneGenerate \cup NoRepair

JobSymmetry == Permutations(Jobs)
=============================================================================
