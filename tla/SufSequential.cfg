CONSTANTS
  Callers <- MCCallers
  NoCaller = NoCaller
  MaxApplies = 3
  SUFeature = "suFeature"
  CorrelationIDs <- MCCorrelationIDs
  NoCid = NoCid
  MaxUoApplies = 1
  SequentialInstalls = TRUE
  MaxSufRegistrations = 2
  ReRegisterWhileIdle = TRUE
SPECIFICATION SufSpec
INVARIANT SufTypeOK StatusSequenceLegal
PROPERTY InstallEventuallyFinished
