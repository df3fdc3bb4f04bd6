\* The defaults but for the failures to trip, two callers.
CONSTANTS
  Callers = {c1, c2}
  MaxFailures = 1
  OpenTimeout = 1
  HalfOpenRequests = 1
SPECIFICATION FairSpec
PROPERTY OneTrial
