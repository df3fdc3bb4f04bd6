\* A connector that never closes its channel.
CONSTANT Setups <- SocketOnly
SPECIFICATION FairSpec
PROPERTY BlocksUntilCancelled
CHECK_DEADLOCK FALSE
