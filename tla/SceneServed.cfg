\* Two render calls on one file, each naming its scene.
CONSTANTS
  Jobs = {j1, j2}
  good = good  bad = bad  sceneA = sceneA  sceneB = sceneB
  NoSource = NoSource  NoScene = NoScene
  Sources <- MCSources
  Scenes <- MCScenes
  Accepted <- MCAccepted
  ScenesIn <- TwoScenesIn
  RenderRequests <- NamedRenders
  GenerateRequests <- None
  MaxRenders = 1
  MaxGenerations = 1
  EscalationPermitted = TRUE
SPECIFICATION Spec
INVARIANT SceneAskedIsSceneServed
