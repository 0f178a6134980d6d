SPECIFICATION PairingSpec
CONSTANTS
  Listings <- MCListings
  Fuzz <- MCFuzz
  PlayerSports = {"tennis"}
  TimeTol = 3
  Markets <- MCMarkets
  Fair <- MCFair
  Drifts <- MCDrifts
  GameOf <- MCGame
  Points = {1, 3}
  Tol = 25
  Records <- MCRecords
  Sim <- MCSim
  Stopwords = {}
  Synonyms <- MCNone
  TickerWords <- MCNone
  Verdict <- MCVerdict
  Outcome <- MCOutcome
  InPlay = {"p2"}
  Closing = {"k2"}
  BatchSize = 2
  CleanBatch = 1
  Retries = 2
  CostCap = 1
INVARIANTS  FilesSound
  
