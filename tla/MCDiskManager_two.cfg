SPECIFICATION Spec
CONSTANTS
  Names = {"sda", "sdb"}
  Places <- OwnPlace
  Links <- OwnLinks
  TagFile <- TwoTags
  PartNums = {}
  Prefix <- NoPrefix
  Efi = {}
  MaxNodes = 2
  MaxInfoNodes = 1
  MAX_PARTITIONS = 3
  MaxInsert = 2
  MaxChange = 0
INVARIANTS ServedFromOwn Notified
