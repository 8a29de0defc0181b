SPECIFICATION FairSpec
CONSTANTS
  a1 = a1
  a2 = a2
  a3 = a3
  Activities <- ThreeStarts
  NULL = NULL
  StopTries = 2
  Patient = TRUE
  Prompt = TRUE
INVARIANTS NoNullMachine QuietAfterPowerOff OneStepper
PROPERTIES StartsAgain
CHECK_DEADLOCK FALSE
