SPECIFICATION Spec
CONSTANTS
  Configurations <- MCCalm
  NotUtf8 <- MCNotUtf8
  Orbit <- MCOrbit
  CpuCycle = 3
  MemoryCycle = 2
  Demo <- MCDemo
  MaxCommandDepth = 2
  MaxQueueDepth = 2
  Fds = {3}
  DestValid = TRUE
  CounterMod = 5
  NotANumber = nan
  NoFrame = none
  NoCommand = nullopt
  MaxFrames = 1
INVARIANT OverheatingIsAFault
