SPECIFICATION Spec
CONSTANTS
  MaxPacket = 2
  TxWin = 3
  PhoneBuf = 2
  MaxSeg = 2
  MaxPkg = 3
  Pipe = 2
  MaxTx = 3
  MaxRx = 3
INVARIANT UpInSyncCut
