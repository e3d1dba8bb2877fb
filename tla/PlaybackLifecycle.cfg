CONSTANTS
  MaxChanges = 3
  Requests = {"playback", "microphone", "configuration", "reset", "capture", "probe", "recovery"}
SPECIFICATION FairSpec
INVARIANTS UartOneOwner RingOfStream
PROPERTIES FaultSticks EventuallySettled
