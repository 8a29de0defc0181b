SPECIFICATION FairSpec
CONSTANTS
  a = a  up = up
  Keys = {a}
  ExtKeys = {up}
  Modes <- BothOn
  QueueSize = 2
  Overlap = FALSE
INVARIANTS TypeOK PendingIsQueue
PROPERTIES ImplementsQueue KeysAreRead SecondByteIsSent
