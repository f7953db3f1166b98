CONSTANTS
  Bundles <- MCBundles
  NoBundle = NoBundle
  EnableReboot = TRUE
  MaxOps = 2
  MaxMsgs = 1
  Callers <- MCCallers
  NoCaller = NoCaller
  Manifests <- MCManifests
  MaxApplies = 2
  MaxConnMsgs = 0
SPECIFICATION Spec
PROPERTY ApplyEventuallyFinishes ApplyEventuallyReturns OrchestratorRefinement
