CONSTANTS
  Callers <- MCCallers
  NoCaller = NoCaller
  MaxApplies = 3
  SUFeature = "suFeature"
  CorrelationIDs <- MCCorrelationIDs
  NoCid = NoCid
  MaxUoApplies = 1
  SequentialInstalls = FALSE
  MaxSufRegistrations = 1
  ReRegisterWhileIdle = TRUE
SPECIFICATION SufSpec
PROPERTY InstallEventuallyFinished
