CONSTANTS
  Interframe = 2
  Initial = 2
  Quiet = 2
  Timeout = 13
  Wrap = 16
  Bytes = 2
  Starts = {11}
  MaxSlip = 1
  MaxLoop = 1
  MaxReplies = 1
SPECIFICATION Spec
INVARIANT CleanStop
