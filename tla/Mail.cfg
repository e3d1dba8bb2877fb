CONSTANTS
  Bytes = 1
  RxFrames = 1
  Controls = {"mode", "led"}
  Value = {1, 2}
  MaxHost = 1
  MaxOwn = 1
  MaxEvents = 2
SPECIFICATION FairSpec
PROPERTY MailEnds
CHECK_DEADLOCK FALSE
