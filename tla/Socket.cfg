SPECIFICATION SocketSpec
CONSTANTS
  Clients = {"c1", "c2"}
  MaxFrames = 2
  ChannelCap = 1
INVARIANT FramesForwarded
CHECK_DEADLOCK FALSE
