\* The defaults in small: as many places in the channel as frames in the ring
\* (CHANNEL_SIZE = 1024, RingConfig::default() = 1024 frames).
CONSTANTS
  FrameCount = 2
  ChannelSize = 2
  MaxPackets = 3
SPECIFICATION Spec
CHECK_DEADLOCK FALSE
INVARIANTS
  ReceivedIntact
