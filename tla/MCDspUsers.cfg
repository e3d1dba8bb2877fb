SPECIFICATION Spec
CONSTANTS
  Bytes = 1
  RxFrames = 1
  Controls = {"mode", "home", "led"}
  Value = {1, 2}
  MaxSettings = 1
  MaxOwn = 1
  MaxEvents = 1
  Level = {0, 1}
  MaxVolumes = 1
  MaxDials = 1
  MaxFaults = 1
  Capacity = 2
  MaxKeys = 2
  MaxPeers = 1
  MaxLinkKeys = 1
  MaxLinks = 1
INVARIANTS WrittenOnce BelievedIsSo
PROPERTIES HostKept OneAnswer HeadsetSettles Ends
CHECK_DEADLOCK FALSE
