\* Every setup, two calls of Run one after the other.
CONSTANTS
  Setups <- MCSetups
  MaxRuns = 2
  MaxFrames = 5
SPECIFICATION FairSpec
INVARIANTS
  TypeOK
  DepthBounded
  CallbacksNest
  PromptsWellFormed
  HandoffKeepsConversation
PROPERTIES
  StoreKeepsHistory
  ImplementsSessionLog
  RunReturns
\* A caller need not call Run again.
CHECK_DEADLOCK FALSE
