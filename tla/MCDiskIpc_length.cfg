SPECIFICATION Spec
CONSTANTS
  Disks = {"sda"}
  Statuses <- MountedOnly
  Backlog = 1
  MaxNodes = 1
  MaxInfo = 1
  NumValues = 4
  MaxChanges = 1
INVARIANT PayloadLength
