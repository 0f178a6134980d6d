SPECIFICATION Spec
CONSTANTS
  Matchups = {1, 2, 3}
  Parent = 1
  Names <- MCNames
  Games = {3}
  Cutoff <- MCCutoff
  Linked = TRUE
  QuietTtl = 1
  HeartbeatTtl = 1
  MetaTtl = 1
  LastTime = 2
  MaxMoves = 2
\* The bounds stop the system.
CHECK_DEADLOCK FALSE
INVARIANTS OddsSound
PROPERTY LiveTagKept
