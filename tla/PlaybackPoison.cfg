CONSTANTS
  MaxChanges = 3
  Requests = {"microphone"}
SPECIFICATION FairSpec
PROPERTIES NewStreamNotPoisoned
