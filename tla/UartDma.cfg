SPECIFICATION Spec
CONSTANTS
  USART_RCV_BUF_LEN = 2
  MaxRx = 4
  MaxTx = 1
  Streams = {1}
  Usarts = {2}
  CRWords <- MCCRWords
  NdtrMod = 3
  AddrMod = 12
  Rx = 1
  U = 2
  SRWords <- MCSRWords
  CR1Words <- MCCR1Words
  NdtrWords = {2}
INVARIANTS
  NestingBounded
  LaterRequestStoresNewerBytes
PROPERTIES
  NestingLosesNothing
  RequestEnds
