SPECIFICATION RxSpec
CONSTANTS
  USART_RCV_BUF_LEN = 2
  MaxRx = 4
  MaxTx = 1
  SRWords <- MCSRWords
  CR1Words <- MCCR1Words
PROPERTIES
  LossNeedsGuestAction
  StallNeedsReconfiguration
  LinesFollowFlags
  ImplementsChannel
