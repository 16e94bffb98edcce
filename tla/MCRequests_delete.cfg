SPECIFICATION Spec
CONSTANTS
  Paths = {"a", "b"}
  Requests <- Changes
  BufSize = 4
  UsbPacket = 2
  MaxTag = 1
  MaxGiveUp = 0
  MaxUnplug = 0
CHECK_DEADLOCK FALSE
INVARIANT DeleteDone
