SPECIFICATION FairSpec
CONSTANTS
  Disks = {"sda"}
  Statuses <- MountedOnly
  Backlog = 1
  MaxNodes = 1
  MaxInfo = 1
  NumValues = 1
  MaxChanges = 1
PROPERTY CallTimesOut
