SPECIFICATION Spec
CONSTANTS
  Names = {"sda"}
  Places <- OwnPlace
  Links <- OwnLinks
  TagFile <- NoTags
  PartNums = {1, 2}
  Prefix <- NoPrefix
  Efi = {}
  MaxNodes = 1
  MaxInfoNodes = 1
  MAX_PARTITIONS = 2
  MaxInsert = 1
  MaxChange = 0
PROPERTY InfoComplete
