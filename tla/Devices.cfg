SPECIFICATION DevicesSpec
CONSTANTS
  Streams = {1}
  Usarts = {2}
  CRWords <- MCCRWords
  NdtrMod = 4
  AddrMod = 16
  Drivers = {0, 1}
  WriteBit = 2
  IFCNT = 1
  Used = {0, 1}
  Data = {3}
  MaxTwist = 2
  MaxTicks = 4
  Rows = 2
  Cols = 3
  Byte = 2
  TxRing = 2
  RxRing = 2
  FrameMax = 3
  Frames <- MCFrames
  Enables <- MCEnables
  Names = 2
  Day = 2
  Days = {1}
  NsPerUs = 2
  Periods = {3, 4}
  Alarms = {{1}}
  RtcCR <- MCRtcCR
  RtcISR = {{}, {"B", "wakeup"}}
  MaxDelta = 2
  MaxTime = 6
INVARIANTS
  WritesStayInBuffer
  LineInStep
  DatagramsTakeEffect
  GuestReadsInputs
  PixelsFillWindow
  RingsAreQueues
  ClockAndAlarmsRight
PROPERTIES
  InterruptsAreTrue
