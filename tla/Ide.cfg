SPECIFICATION Spec
INVARIANTS WordsRight DoneMeansDone
PROPERTIES TransferEnds
CONSTANTS
  Channels <- MCChannels
  SectorSize = 2
  CdSize = 4
  PacketSize = 2
  MaxMult = 2
  RegBase = 3
  CountBase = 4
  Heads = 2
  Sectors = 1
  NbSectors = 30
  CdSectors = 3
  TaskFiles <- MCTaskFiles
  Controls <- MCControls
  Lengths = {2, 4}
  CdCounts = {0, 1, 2}
  StringSizes = {2, 4}
  Faults = {"read", "write"}
