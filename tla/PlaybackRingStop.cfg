CONSTANTS
  Epochs = 1
  DmaErrors = TRUE
SPECIFICATION FairSpec
PROPERTY StopEnds
