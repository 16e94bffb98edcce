SPECIFICATION Spec
CONSTANTS
  Paths = {"a", "b"}
  Requests <- Growing
  BufSize = 4
  UsbPacket = 2
  MaxTag = 3
  MaxGiveUp = 1
  MaxUnplug = 0
CHECK_DEADLOCK FALSE
PROPERTY AnswersWholeLate
