CONSTANTS
  Bundles <- MCBundles
  NoBundle = NoBundle
  EnableReboot = TRUE
  MaxOps = 2
  MaxMsgs = 2
  Callers <- MCCallers
  NoCaller = NoCaller
  Manifests <- MCManifests
  MaxApplies = 2
  MaxConnMsgs = 1
SPECIFICATION Spec
INVARIANT ApplyTraceBracketed
INVARIANT FinishedReportsOutcome
