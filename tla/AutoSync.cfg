CONSTANTS
  Calls = {c1, c2}
  Manual = manual
  None = none
  MaxChanges = 1
SPECIFICATION Spec
INVARIANTS
  SingleFlight
PROPERTIES
  EditsReachCloud
  StartupSettles
