SPECIFICATION FairSpec
CONSTANTS
  Paths = {"a", "b"}
  Requests <- Everything
  BufSize = 4
  UsbPacket = 2
  MaxTag = 1
  MaxGiveUp = 1
  MaxUnplug = 0
CHECK_DEADLOCK FALSE
PROPERTY Responded
