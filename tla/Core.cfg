SPECIFICATION CoreSpec
CONSTANTS
  Readers = {t1, t2}
  UintRange = 4
  MaxGp = 5
  MaxDepth = 2
  LoopThreads = {t1, t2}
  TimerThreads = {t1}
  Bhs = {b}
  NotifyBh = n
  Timers = {x, y}
  MaxDelay = 2
INVARIANTS
  GracePeriod
  NeverOversleeps
PROPERTIES
  SyncReturns
  BhRuns
