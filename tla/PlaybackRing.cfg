CONSTANTS
  Epochs = 2
  DmaErrors = TRUE
SPECIFICATION FairSpec
INVARIANTS OneEpoch ClearExclusive DamageDetected
PROPERTY DamageStops
