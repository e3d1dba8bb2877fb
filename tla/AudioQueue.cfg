CONSTANTS
  silence = silence
  tone = tone
  Frame <- MCFrame
  Silence <- silence
  Frames = 4
  Wrap = 8
  MaxPacket = 2
  Block = 2
  Primes <- MCPrimes
SPECIFICATION Spec
INVARIANTS Bounded Copying
PROPERTIES NoLiveOverwrite ImplementsFifo
