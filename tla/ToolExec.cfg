\* All pairs of calls in every mode, triples through a semaphore of two.
CONSTANT Cases <- MCCases
SPECIFICATION FairSpec
INVARIANTS
  TypeOK
  OnlyVettedBodies
  SemaphoreCounts
  TimeoutHasCause
PROPERTIES
  ImplementsToolBatch
  BatchReturns
\* A batch ends.
CHECK_DEADLOCK FALSE
