CONSTANTS
  Kind = "rx"
  MaxPackets = 5
  MaxOpens = 2
SPECIFICATION FairSpec
INVARIANTS SlotOwnership NoSlotLost InOrder
PROPERTIES NoOverwriteWhileReading EveryPacketServed
CHECK_DEADLOCK FALSE
