SPECIFICATION Spec
CONSTANTS
  Names = {"sda"}
  Places <- OwnPlace
  Links <- OwnLinks
  TagFile <- NoTags
  PartNums = {1}
  Prefix <- NoPrefix
  Efi = {1}
  MaxNodes = 1
  MaxInfoNodes = 1
  MAX_PARTITIONS = 4
  MaxInsert = 1
  MaxChange = 1
INVARIANT EfiHidden
