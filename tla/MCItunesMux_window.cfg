SPECIFICATION Spec
CONSTANTS
  MaxPacket = 2
  TxWin = 3
  PhoneBuf = 3
  MaxSeg = 2
  MaxPkg = 3
  Pipe = 2
  MaxTx = 4
  MaxRx = 3
INVARIANT WindowRespected
