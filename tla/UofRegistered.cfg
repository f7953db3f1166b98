\* processThing (the first registration and one re-registration) runs while no Apply is in flight.
CONSTANTS
  Callers <- MCCallers
  NoCaller = NoCaller
  MaxApplies = 1
  UOFeature = "uoFeature"
  MaxUoApplies = 1
  MaxResourceChanges = 1
  MaxRegistrations = 2
  RegisterWhileIdle = TRUE
  CallsMayFail = TRUE
SPECIFICATION UofSpec
INVARIANT UofTypeOK NoNilStateDereference
