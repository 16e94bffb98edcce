SPECIFICATION Spec
CONSTANTS
  Kinds <- MixedKinds
  MaxDevs = 3
  MaxDisk = 3
INVARIANTS
  TypeOK
  ClaimMatchesPhone
  StateMatchesPhone
  PlugFlagSettles
  NoLostChange
PROPERTIES
  NoSwap
  ImplementsNews
