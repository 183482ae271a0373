SPECIFICATION ResamplerSpec
CONSTANTS
  Source = 441
  Target = 480
  PacketSizes = {440, 441, 442}
  MaxPackets = 4
INVARIANT FixedRate
CHECK_DEADLOCK FALSE
