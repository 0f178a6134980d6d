SPECIFICATION PagesSpec
\* The bounds on what befalls the pages stop the parts.
CHECK_DEADLOCK FALSE
CONSTANTS
  Leagues = {"a", "b"}
  StartsAt <- MCStartsAt
  MaxTabs = 1
  Grace = 1
  KeepAlive = 1
  Reclaim = 1
  Dwell = 2
  Timeout = 1
  Verified = {"b"}
  Upsets = 1
  ReaderTabs = {"t1", "t2"}
  BoardPage = "board"
  Drift = 2
  Events = 4
  Targets <- MCTargets
  MostPages = 3
  Happenings = 1
  Games = {"a"}
  BookCooldown = 1
  Longest = 1
  AutoLogin = TRUE
  LoginTries = 1
  Turns = 1
INVARIANTS TabsSound   SportsSound BookSound
PROPERTIES TabsKept PausedQuiets BoardsKept RefusedRecovers
