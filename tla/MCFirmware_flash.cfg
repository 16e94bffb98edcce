SPECIFICATION Spec
CONSTANTS
  Versions = {1, 2}
  BlockLen = 2
  Fds = {3, 4, 5}
  MaxRequests = 7
  MaxOther = 0
CHECK_DEADLOCK FALSE
INVARIANT FlashedAccepted
