SPECIFICATION Spec
CONSTANTS
  Configurations <- MCConfigurations
  NotUtf8 <- MCNotUtf8
  Orbit <- MCOrbit
  CpuCycle = 3
  MemoryCycle = 2
  Demo <- MCDemo
  MaxCommandDepth = 2
  MaxQueueDepth = 2
  Fds = {3}
  DestValid = TRUE
  CounterMod = 5
  NotANumber = nan
  NoFrame = none
  NoCommand = nullopt
  MaxFrames = 4
INVARIANTS
  TypeOK
  DownlinkOrdered
  FlagsMatchReadings
  ReportAccounts
  CommandsExecuted
  FlagsRemember
  AbnormalEndIsEarly
PROPERTIES
  ShutdownCompletes
  ShutdownAdvances
  ImplementsGroundView
