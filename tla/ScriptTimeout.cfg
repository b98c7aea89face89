SPECIFICATION ConsoleSpec
CONSTANTS
  MaxWait = 3
  MaxDelay = 1
  MaxQueue = 2
  Commands <- MCTimeoutCommands
  Scripts <- MCTimeoutScripts
PROPERTIES
  TimesOutAtLimit
