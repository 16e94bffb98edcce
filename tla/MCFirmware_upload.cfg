SPECIFICATION Spec
CONSTANTS
  Versions = {1, 2}
  BlockLen = 2
  Fds = {3, 4, 5}
  MaxRequests = 7
  MaxOther = 2
CHECK_DEADLOCK FALSE
INVARIANTS TypeOK NoLeak AcceptedWhole AckedAccepted
