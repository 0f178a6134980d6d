SPECIFICATION FairSpec
CONSTANTS
  x = x
  y = y
  Events <- MCEvents
  Callers <- MCCallers
  MaxFaults = 3
  MaxAsks = 2
  Stake = 1
  Limit = 2
  
PROPERTIES PolledIsWatched
CHECK_DEADLOCK FALSE
