SPECIFICATION Spec
CONSTANTS
  Size = 8
  Hdr = 1
  Node = 3
  SubDirs <- OneSubDir
  MaxEntries = 5
INVARIANT DirSizeZero
