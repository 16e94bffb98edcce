SPECIFICATION Spec
CONSTANTS
  Names = {"sda", "sdb"}
  Places <- OwnPlace
  Links <- OneReader
  TagFile <- TwoTags
  PartNums = {1}
  Prefix <- NoPrefix
  Efi = {}
  MaxNodes = 1
  MaxInfoNodes = 1
  MAX_PARTITIONS = 3
  MaxInsert = 2
  MaxChange = 0
INVARIANT MountsListed
