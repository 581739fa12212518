SPECIFICATION Spec
CONSTANTS
  Threads = {t1, t2, t3}
  Commands = {c, d}
  NoCommand = none
  MaxDepth = 2
INVARIANTS
  TypeOK
  NoLostWakeup
PROPERTIES
  ImplementsFifo
  PopWaitReturns
