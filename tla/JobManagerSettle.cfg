\* Three jobs on one permit per phase, clients that may cancel, and only the
\* sandbox is bound to answer.
CONSTANTS
  Jobs = {j1, j2, j3}
  good = good  bad = bad  sceneA = sceneA  sceneB = sceneB
  NoSource = NoSource  NoScene = NoScene
  Sources <- MCSources
  Scenes <- MCScenes
  Accepted <- MCAccepted
  ScenesIn <- MCScenesIn
  RenderRequests <- OneRender
  GenerateRequests <- ShortGenerates
  MaxRenders = 1
  MaxGenerations = 1
  EscalationPermitted = FALSE
SPECIFICATION MixedSpec
INVARIANTS
  ContainersBounded
PROPERTIES
  RenderNeedsNoGenerator
  AllSettleIfPortsAnswer
