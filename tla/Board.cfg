SPECIFICATION BoardSpec
CONSTANTS
  Pins = {1, 12, 13, 14}
  idr_mask = {}
  DIR = 12
  STEP = 13
  EN = 14
  DIAG = 1
  ms_increment = 2
  max_step = 5
  is_inverted = TRUE
  Standstill = 3
  SgWords = {0, 250}
  MaxTravel = 8
  PRs = {0, 1}
  RLs = {0, 1, 3}
  MaxRL = 3
  Mega = 2
  ClkRate = 8
  MaxDelay = 6
  SrcFreq <- MCSrcFreq
  Word = 4294967
  Second = 1000000
  CrBits <- MCCrBits
  PllFields <- MCPllFields
  I2sFields <- MCI2sFields
  CfgFields <- MCCfgFields
  TimFreqs = {0, 2, 6}
  Giga = 6
  TimWord = 5
  PSCs = {0, 2}
  ARRs = {0, 1}
  FirstTick = 1
  Period = 2
  OnTimeout = 3
  OffTimeout = 4
  FullScale = 255
  CCRs = {0, 1}
  HeaterARRs = {0, 1}
  MaxTemp = 2
  MaxActs = 2
  Cycle = 2
  FanTimeout = 5
  Pulse <- MCPulse
INVARIANTS
  PinsAgree
  ReportsAreTrue
  TimerIsCurrent
  TreeIsCurrent
PROPERTIES
  MovesByPinOrder
  FanFollowsPin
  ComesToRest
  HangIsCaught
  UpdatesGoOn
  ColdAfterOff
