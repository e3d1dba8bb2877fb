SPECIFICATION Spec
CONSTANTS
  MaxEdits = 2
  GainBytes = 2
  Gains = {6, 12}
  MaxGains = 2
  MaxEvents = 1
  GainPorts = {{}, {0, 1}}
  AskedBytes = 1
  MaxCommands = 1
  MaxSent = 1
  MaxAsks = 1
  MaxLost = 0
  AskedPorts = {{0, 1}}
  Top = 1
  MaxRequests = 3
  MaxChanges = 1
  MaxFailures = 1
  MaxPackets = 5
  MaxOpens = 2
  MicFrame = 2
  MicSize = 8
  MicDrift = 2
  MicEvents = 1
  XoTimeout = 2
  PllTimeout = 9
  DivTimeout = 2
  TotalTimeout = 12
  MaxStrays = 1
INVARIANTS FlashHolds ToldTruly Whole
PROPERTIES ParksAsSpecified CarriedOut StoredInTheEnd NotOnOldNews Decided
CHECK_DEADLOCK FALSE
