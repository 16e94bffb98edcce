SPECIFICATION Spec
CONSTANTS
  Disks = {"sda", "sdb"}
  Statuses <- Mix
  Backlog = 1
  MaxNodes = 1
  MaxInfo = 1
  NumValues = 1
  MaxChanges = 2
INVARIANTS TypeOK ListExact
PROPERTY ImplementsNews
