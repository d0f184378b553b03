CONSTANTS
  m1 = m1
  m2 = m2
  NoMessage = NoMessage
  Message = {m1, m2}
  Background = {m2}
  Failures = {}
  ListenersSend = FALSE
  MaxSends = 1
  MaxExits = 0
SPECIFICATION Spec
PROPERTIES
  ListenerHears
CHECK_DEADLOCK FALSE
