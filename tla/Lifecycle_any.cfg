SPECIFICATION StopSpec
CONSTANTS
  a1 = a1
  a2 = a2
  a3 = a3
  Activities <- TwoStarts
  NULL = NULL
  StopTries = 2
  Patient = FALSE
  Prompt = FALSE
PROPERTIES StopReturns
CHECK_DEADLOCK FALSE
