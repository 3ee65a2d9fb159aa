CONSTANTS
  MaxChecks = 2
  None = none
  Rounds = {1, 2}
  Background = background
  Local = local
  Accounts = {a1, a2}
  Viewed = {a1, local}
  Months = {m1, m2}
  MaxLoads = 3
SPECIFICATION WindowSpec
CHECK_DEADLOCK FALSE
INVARIANTS
  UpdateIsHeld
  ScreensAreTheAccounts
  FailuresAreTold
PROPERTIES
  CriticalProtected
  InstallIsPrepared
  CloseCompletes
