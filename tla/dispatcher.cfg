SPECIFICATION Spec
CONSTANTS
  Producers = {p1, p2}
  Frames = {a, b, corrupt}
  Unserializable = {corrupt}
  NoFrame = none
  MaxQueueDepth = 2
  Fds = {3, 4}
  DestValid = TRUE
  CounterMod = 5
INVARIANTS
  TypeOK
  Accounting
  SocketLive
  NothingLeaks
PROPERTIES
  ImplementsChannel
  QuietStopReturns
  StopAdvances
