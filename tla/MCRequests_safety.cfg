SPECIFICATION FairSpec
CONSTANTS
  Paths = {"a", "b"}
  Requests <- Everything
  BufSize = 4
  UsbPacket = 2
  MaxTag = 2
  MaxGiveUp = 1
  MaxUnplug = 1
CHECK_DEADLOCK FALSE
INVARIANTS TypeOK WholePackages OkMeansDone SyncedKept
PROPERTIES AnswersWhole Answered
