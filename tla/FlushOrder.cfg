SPECIFICATION VcpuSpec
CONSTANTS
  Cpus = {c1, c2}
  MaxQueue = 1
INVARIANT
  WorkBeforeExecution
