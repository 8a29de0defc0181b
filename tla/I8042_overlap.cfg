SPECIFICATION Spec
CONSTANTS
  a = a  up = up
  Keys = {a}
  ExtKeys = {up}
  Modes <- BothOn
  QueueSize = 2
  Overlap = TRUE
INVARIANT DataLeftIsPending
