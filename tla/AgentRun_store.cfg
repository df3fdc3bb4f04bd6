\* The default strategy with a store and a window that overflows.
CONSTANTS
  Setups <- Defaults
  MaxRuns = 2
  MaxFrames = 5
SPECIFICATION FairSpec
PROPERTY StoreNeverForgets
CHECK_DEADLOCK FALSE
