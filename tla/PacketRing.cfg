\* As many places in the channel as frames in the ring, like the defaults
\* (CHANNEL_SIZE = 1024, RingConfig::default() = 1024 frames); the packets go round
\* the ring twice; the model stops when no packet is left to arrive.
CONSTANTS
  FrameCount = 3
  ChannelSize = 3
  MaxPackets = 6
SPECIFICATION FairSpec
CHECK_DEADLOCK FALSE
INVARIANTS
  HeldFramesKept
  DeliveredInOrder
  NoHoles
PROPERTIES
  EveryPacketDelivered
