SPECIFICATION Spec
CONSTANTS
  Names = {"sda"}
  Places <- OwnPlace
  Links <- OwnLinks
  TagFile <- NoTags
  PartNums = {1, 10}
  Prefix <- OneAndTen
  Efi = {1}
  MaxNodes = 0
  MaxInfoNodes = 0
  MAX_PARTITIONS = 4
  MaxInsert = 2
  MaxChange = 1
INVARIANTS TypeOK MountsListed ListSettles EfiIgnored
