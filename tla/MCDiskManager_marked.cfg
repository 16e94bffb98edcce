SPECIFICATION Spec
CONSTANTS
  Names = {"sda"}
  Places <- OwnPlace
  Links <- OwnLinks
  TagFile <- NoTags
  PartNums = {1, 10}
  Prefix <- OneAndTen
  Efi = {}
  MaxNodes = 1
  MaxInfoNodes = 1
  MAX_PARTITIONS = 4
  MaxInsert = 1
  MaxChange = 1
INVARIANT MarkedMounted
