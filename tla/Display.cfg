SPECIFICATION DisplaySpec
\* Attributes by indices with and without the bit that shows the picture, one
\* past the last; and a palette of two entries.
CONSTANTS
  Indices = {2, 48, 31}
  Entries = 2
  Values = {{1}, {1, 4}}
  Colours = {{}, {1}}
\* Two cells and two places, geometries that fit and one that does not; two
\* banks of video memory.
  Cells = {"c1", "c2"}
  Places = {"p1", "p2"}
  CellAt <- ScreenCells
  Compared <- ScreenCompared
  Chars = {"A", "B"}
  Palettes = {"red", "blue"}
  Sizes = {"wide", "dots", "narrow", "large"}
  Fits = {"wide", "dots", "narrow"}
  Modes = {"blank", "text", "graphic"}
  Banks = 2
  Choices <- VbeChoices
  CrChoices <- VbeCrChoices
\* Bytes of four bits, a window of sixteen over memory of 32.
  MemBits = 4
  Quarter = 4
  Setups <- VgaSetups
  Addresses = {0, 5, 8, 14}
  MemValues = {{0, 1}, {0, 2}}
  MaxAccesses = 2
INVARIANTS SkippedCellsAreCurrent RedrawIsClean MemoryAsDefined PortsAsWritten ModeAsSet
PROPERTY UserSeesScreen
CHECK_DEADLOCK FALSE
