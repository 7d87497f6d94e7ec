\* An escalation whose hosted call raises.
CONSTANTS
  Jobs = {j1, j2}
  good = good  bad = bad  sceneA = sceneA  sceneB = sceneB
  NoSource = NoSource  NoScene = NoScene
  Sources <- MCSources
  Scenes <- MCScenes
  Accepted <- MCAccepted
  ScenesIn <- MCScenesIn
  RenderRequests <- None
  GenerateRequests <- MCGenerateRequests
  MaxRenders = 1
  MaxGenerations = 1
  EscalationPermitted = TRUE
SPECIFICATION Spec
INVARIANT EveryEgressHasReceipt
