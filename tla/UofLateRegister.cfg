\* processThing may run while an Apply is in flight.
CONSTANTS
  Callers <- MCCallers
  NoCaller = NoCaller
  MaxApplies = 1
  UOFeature = "uoFeature"
  MaxUoApplies = 1
  MaxResourceChanges = 1
  MaxRegistrations = 2
  RegisterWhileIdle = FALSE
  CallsMayFail = TRUE
SPECIFICATION UofSpec
INVARIANT NoNilStateDereference
