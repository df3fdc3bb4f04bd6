\* Three items of a platform, two tool calls at once, conversations of six messages.
CONSTANTS
  Stacks <- MCStacks
  Scripts <- MCScripts
  Names = {"f", "g"}
  MaxMessages = 6
  MaxItems = 3
  QueueCap = 2
  PageSize = 2
  ToolCalls = {"a", "b"}
SPECIFICATION FairSpec
INVARIANTS
  TypeOK
  CallsJustified
  StreamFaithful
  WireFaithful
  FeedFaithful
  AnswersMatch
PROPERTIES
  ExchangesEnd
\* An exchange is over.
CHECK_DEADLOCK FALSE
