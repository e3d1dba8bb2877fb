SPECIFICATION Spec
CONSTANTS
  Bytes = 1
  RxFrames = 1
  First = "line"
  Drop = 1
  Attempts = 2
  MaxOthers = 1
  GainLane = {"line", "mic"}
  Masked = {"line"}
  GainTop = 1
  MaxChanges = 1
  ProbeLane = {"line"}
  ProbeTop = 2
  TrialToken = {1, 2}
  MaxStops = 1
  QueryToken = {1}
  MaxReplies = 3
  MaxReads = 2
  Asked = {"settings", "battery"}
  MaxTurns = 3
INVARIANTS HandedOnce BelievedIsSo
PROPERTIES OthersKept GainSettles Ends
CHECK_DEADLOCK FALSE
