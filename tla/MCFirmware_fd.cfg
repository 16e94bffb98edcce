SPECIFICATION Spec
CONSTANTS
  Versions = {1, 2}
  BlockLen = 2
  Fds = {3, 4, 5}
  MaxRequests = 5
  MaxOther = 1
CHECK_DEADLOCK FALSE
INVARIANT DataToFirmware
