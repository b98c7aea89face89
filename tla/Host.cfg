SPECIFICATION HostSpec
CONSTANTS
  MaxWait = 3
  MaxDelay = 2
  MaxQueue = 3
  Commands <- MCCommands
  Scripts <- MCScripts
  Callers = {t1, t2}
  BqlCallers = {t1}
  MaxCalls = 2
  RCU_CALL_MIN_SIZE = 2
  MaxTries = 1
  Dummy = dummy
  NULL = NULL
\* A script error, a timeout with SetQuitOnTimeout, or an argument that cannot be
\* converted, ends the program.
CHECK_DEADLOCK FALSE
INVARIANTS
  RunsLineAtHead
  CallbackAfterGrace
PROPERTIES
  PromptIsTrue
  WaitsItsTime
  PromptReturns
  CallbacksRun
