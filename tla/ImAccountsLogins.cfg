SPECIFICATION FairSpec
CONSTANTS
  Account = {x, y}
  AutoLogin = {x, y}
  Immediate = {y}
  Passwords = {"none", "saved"}
  LateTimers = {FALSE}
  MaxOps = 2
  MaxFailures = 1
  MaxSessions = 2
INVARIANTS
  TypeOK
  LoginsAreRecorded
  RetryIsScheduled
PROPERTIES
  CrashIsBlamed
  QuitIsNoCrash
  NoUnaskedConnect
  LoginsEndAtLast
CHECK_DEADLOCK FALSE
