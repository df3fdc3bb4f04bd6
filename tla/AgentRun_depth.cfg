\* A chain of hand-offs whose first agent has a limit of one.
CONSTANTS
  Setups <- Unlimited
  MaxRuns = 2
  MaxFrames = 5
SPECIFICATION Spec
INVARIANT RootLimitsHandoffs
CHECK_DEADLOCK FALSE
