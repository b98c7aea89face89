SPECIFICATION DmaSpec
CONSTANTS
  Streams = {2}
  Usarts = {2}
  CRWords <- MCCRRxWords
  NdtrMod = 4
  AddrMod = 16
INVARIANT
  AckReachesStream
