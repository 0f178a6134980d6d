SPECIFICATION FairSpec
CONSTANTS
  x = x
  y = y
  Sels <- MCSels
  Camps = {x}
  Floor = 2
  MaxPress = 1
  MaxRepress = 1
  Requote = "better"
  CampMaxSkips = 1
  Overlap = FALSE
INVARIANTS HoldsMatched  
PROPERTIES  LostCampEnds
CHECK_DEADLOCK FALSE
