SPECIFICATION Safety
CONSTANTS
  Producers = {p1}
  Frames = {a}
  Unserializable = {}
  NoFrame = none
  MaxQueueDepth = 1
  Fds = {3}
  DestValid = TRUE
  CounterMod = 2
INVARIANT StartedMeansDispatching
