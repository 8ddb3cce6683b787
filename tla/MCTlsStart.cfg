SPECIFICATION TlsSpec
CONSTANTS
  Workers = {w1, w2}
  MaxFaults = 0
PROPERTIES
  EveryWorkerServes
CHECK_DEADLOCK FALSE
