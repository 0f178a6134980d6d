CONSTANTS
  MaxToken = 2
  LoginMaxFails = 2
  AuthGiveup = 2
  RemintCap = 1
  RestGiveup = 2
  MassLogout = 2
  WindowRead = FALSE
  MaxKnocks = 3
SPECIFICATION Spec
INVARIANTS SessionSound
PROPERTY DeadStaysDown
CHECK_DEADLOCK FALSE
