SPECIFICATION Spec
CONSTANTS
  Names = {"sda", "sdb"}
  Places <- AnyPlace
  Links <- OwnLinks
  TagFile <- TwoTags
  PartNums = {}
  Prefix <- NoPrefix
  Efi = {}
  MaxNodes = 1
  MaxInfoNodes = 1
  MAX_PARTITIONS = 3
  MaxInsert = 3
  MaxChange = 0
INVARIANT ServedFromOwn
