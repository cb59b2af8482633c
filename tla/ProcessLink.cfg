SPECIFICATION FairSpec
CONSTANTS
  MaxActions = 3
  MaxCalls = 2
INVARIANTS TypeOK ReducedOnce NothingOvertaken
PROPERTIES ImplementsRemoteCalls EveryActionReduced EveryCallSettles
CHECK_DEADLOCK FALSE
