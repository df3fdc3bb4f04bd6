\* Workflows of three agents, two sessions, four documents, two questions;
\* schedules asked about at the ends of hours, days, months and years.
CONSTANTS
  Plans <- MCPlans
  Words <- MCWords
  Trials <- MCTrials
  Schedules <- MCSchedules
  ProgressCap = 1
  MaxCaptures = 3
  MaxTrainings = 2
  Minds <- MCMinds
  ReachFactor = 1
  People = {"p", "q"}
  Texts = {"hi", "yes"}
  Callers = {"c1", "c2"}
  MaxTold <- MCMaxTold
  Library <- MCLibrary
  Chunkers <- MCChunkers
  MaxIngests = 2
  Questions = {"q1", "q2"}
  Policies <- MCPolicies
  Answers <- MCAnswers
  MaxTyped = 2
  Queries <- MCQueries
SPECIFICATION FairSpec
INVARIANTS
  FlowsFaithful
  StoresFaithful
PROPERTIES
  WorkshopEnds
\* What is to be done is done.
CHECK_DEADLOCK FALSE
