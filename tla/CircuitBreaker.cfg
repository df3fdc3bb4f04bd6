\* Three callers, two failures to trip, two successes to close.
CONSTANTS
  Callers = {c1, c2, c3}
  MaxFailures = 2
  OpenTimeout = 2
  HalfOpenRequests = 2
SPECIFICATION FairSpec
INVARIANTS
  CountersJustified
PROPERTIES
  Transitions
  FollowsProvider
