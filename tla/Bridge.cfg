\* Two connectors and a pool of two, expiring histories, a failed start.
CONSTANT Setups <- MCSetups
SPECIFICATION FairSpec
INVARIANTS
  TypeOK
  PoolCounts
  HistoryBounded
  ConversationsConsistent
  SerialConversations
PROPERTIES
  ImplementsDelivery
  BridgeCompletes
\* Run may block for want of a message.
CHECK_DEADLOCK FALSE
