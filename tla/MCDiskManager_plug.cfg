SPECIFICATION Spec
CONSTANTS
  Names = {"sda"}
  Places <- OwnPlace
  Links <- OwnLinks
  TagFile <- NoTags
  PartNums = {1}
  Prefix <- NoPrefix
  Efi = {}
  MaxNodes = 1
  MaxInfoNodes = 1
  MAX_PARTITIONS = 3
  MaxInsert = 2
  MaxChange = 0
INVARIANT PlugCounted
