CONSTANTS
  m1 = m1
  m2 = m2
  NoMessage = NoMessage
  Message = {m1, m2}
  Background = {m2}
  Failures = {"first"}
  ListenersSend = FALSE
  MaxSends = 1
  MaxExits = 0
SPECIFICATION FairSpec
PROPERTIES
  EverySessionStops
CHECK_DEADLOCK FALSE
