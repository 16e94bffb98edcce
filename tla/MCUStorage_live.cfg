SPECIFICATION FairSpec
CONSTANTS
  Kinds <- AllKinds
  MaxDevs = 3
  MaxDisk = 1
PROPERTIES
  PhoneServed
  ChangeReported
