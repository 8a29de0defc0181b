SPECIFICATION Spec
\* Three tasks, so that calls nest and a returned one is called again; an
\* interrupt or a call within another one; steps of three instructions and a
\* line of each controller; two slots for three pages; string
\* instructions that cross from one of two pages of four bytes to the other.
CONSTANTS
  Tasks = {"a", "b", "c"}
  First = "a"
  Nobody = "none"
  TaskWord = 2
  Sp = 3
  MaxDepth = 2
  Steps = 3
  DeviceIrqs = {1, 12}
  MaskWrites <- Masks
  Ocw2Writes <- Ends
  Icw1Writes = {}
  Icw4Writes = {}
  VectorBases = {}
  Ocw3Writes = {}
  Slots = 2
  Dirs <- TwoDirs
  Ptes <- TwoPtes
  Cacheable = {1}
  MaxEdits = 2
  PageSize = 4
  Pages = 2
  MaxCount = 5
INVARIANTS FlagsRight MovesExact CachesCurrent TasksKept WindowsServed
PROPERTIES GatesHold WakesUp
CHECK_DEADLOCK FALSE
