CONSTANTS
  m1 = m1
  m2 = m2
  NoMessage = NoMessage
  Message = {m1, m2}
  Background = {m2}
  Failures = {"offline", "open", "read", "send", "delete"}
  ListenersSend = TRUE
  MaxSends = 3
  MaxExits = 1
SPECIFICATION FairSpec
INVARIANTS
  TypeOK
  StepsAreServed
  NothingLost
  SentOnce
  CountsAgree
PROPERTIES
  EverySessionStops
  ShutdownGoesOn
CHECK_DEADLOCK FALSE
