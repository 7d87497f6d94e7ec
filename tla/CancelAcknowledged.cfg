\* An acknowledged cancel of a generate job on its last try.
CONSTANTS
  Jobs = {j1, j2}
  good = good  bad = bad  sceneA = sceneA  sceneB = sceneB
  NoSource = NoSource  NoScene = NoScene
  Sources <- MCSources
  Scenes <- MCScenes
  Accepted <- MCAccepted
  ScenesIn <- MCScenesIn
  RenderRequests <- MCRenderRequests
  GenerateRequests <- MCGenerateRequests
  MaxRenders = 1
  MaxGenerations = 1
  EscalationPermitted = TRUE
SPECIFICATION Spec
INVARIANT CancelledEndsCancelled
