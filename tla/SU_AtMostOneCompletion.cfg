CONSTANTS
  Bundles <- MCBundles
  NoBundle = NoBundle
  EnableReboot = TRUE
  MaxOps = 2
  MaxMsgs = 3
SPECIFICATION SuSpec
INVARIANT AtMostOneCompletion
