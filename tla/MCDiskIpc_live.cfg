SPECIFICATION FairSpec
CONSTANTS
  Disks = {"sda"}
  Statuses <- Mix
  Backlog = 1
  MaxNodes = 1
  MaxInfo = 1
  NumValues = 1
  MaxChanges = 2
PROPERTIES CallAnswered EventProceeds
