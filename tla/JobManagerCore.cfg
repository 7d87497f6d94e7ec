\* Two jobs, any mix of tools: every interleaving of workers, cancels, kills,
\* exceptions and reaper sweeps.
CONSTANTS
  Jobs = {j1, j2}
  good = good  bad = bad  sceneA = sceneA  sceneB = sceneB
  NoSource = NoSource  NoScene = NoScene
  Sources <- MCSources
  Scenes <- MCScenes
  Accepted <- MCAccepted
  ScenesIn <- MCScenesIn
  RenderRequests <- MCRenderRequests
  GenerateRequests <- MCGenerateRequests
  MaxRenders = 1
  MaxGenerations = 1
  EscalationPermitted = TRUE
SPECIFICATION Spec
SYMMETRY JobSymmetry
INVARIANTS
  TypeOK
  PermitsExact
  StatusMatchesWork
  RowsFresh
  ResultsOnFinished
  CancelNeverSucceeds
  RenderCancelExact
  KillsHitTheirTarget
  VerifiedSuccess
  HonestTrace
  EscalationGated
  TriesBounded
PROPERTIES
  CancelStopsWork
  Lifecycle
