SPECIFICATION GuestSpec
CONSTANTS
  DeviceIrqs <- NestedIrqs
  Icw1Writes <- NoWrites
  Icw4Writes <- NoWrites
  VectorBases <- NoWrites
  MaskWrites <- NestedMasks
  Ocw2Writes <- RotateEois
  Ocw3Writes <- NoWrites
INVARIANT EligibleIsAnnounced
CHECK_DEADLOCK FALSE
