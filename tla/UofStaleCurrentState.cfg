\* processThing re-registers the feature while no Apply is in flight; Get and SetFeatureProperty never fail.
CONSTANTS
  Callers <- MCCallers
  NoCaller = NoCaller
  MaxApplies = 1
  UOFeature = "uoFeature"
  MaxUoApplies = 1
  MaxResourceChanges = 1
  MaxRegistrations = 2
  RegisterWhileIdle = TRUE
  CallsMayFail = FALSE
SPECIFICATION UofSpec
PROPERTY CurrentStateEventuallyFresh
