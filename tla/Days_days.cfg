SPECIFICATION DaysSpec
\* The bounds on the clocks and on the commands stop the system.
CHECK_DEADLOCK FALSE
CONSTANTS
  Day = 12
  Floor = 1
  JitterFloor = 1
  Nudge = 1
  Recompute = 1
  Horizon = 18
  Back = 3
  LastHour = 20
  Length <- MCLength
  Offsets <- MCOffsets
  Configs <- MCConfigs
  Slates <- MCSlates
  Plans <- MCPlans
  Minutes = 1
  LastTime = 3
  MaxCommands = 2
  Actions = {"halt", "end_block"}
INVARIANTS  ControlSound
PROPERTIES ControlEnds
