SPECIFICATION DevicesSpec
\* 64 addresses, RAM of 24 around the window, a frame buffer of 8; channel 2 of
\* the timer, latched and read in all its access modes; channel 0, with 32
\* microseconds of 5/4 ticks and calls up to a quarter late; interrupts of the
\* clock every 4 and 8 ticks of 64, by both kinds of rate codes; a floppy of four
\* sectors; a ring of six pages, which a frame of two and one of the largest
\* size, three, fill to where the card takes it for empty; blocks of 3 and 6
\* bytes against pieces of at most 4.
CONSTANTS
  UserFiles = {"a"}
  LooksOwn = {}
  Boots = {0, 2}
  MaxDisks = 1
  MaxMachines = 2
  Top = 64
  Hole = 40
  Window <- Addresses
  RamSize = 24
  RegionSize = 8
  Bases = {0, 40, 51, 63}
  Channels = {2}
  Readers = {2}
  Modes = {1, 3}
  Accesses = {1, 3}
  PitByte = 2
  Word = 4
  Num = 1
  Den = 1
  Steps = {1}
  ClockAccesses = {3}
  ClockByte = 2
  ClockWord = 32
  ClockNum = 5
  ClockDen = 4
  ClockSteps = {1, 3}
  RtcWord = 64
  Rates = {0, 1, 3, 4}
  Shift = 2
  Lag = 3
  MaxBytes = 3
  Sectors = 4
  Starts <- DriveStarts
  Counts = {0, 1, 2, 3}
  Tx = 0
  RingStart = 2
  RingStop = 8
  MaxPages = 3
  Sizes = {2, 3}
  Frames = {"a", "b", "c", "d"}
  DspCommands <- SoundCommands
  Formats <- SoundFormats
  DmaByte = 2
  Lengths = {0, 2}
  DmaCounts = {2}
  Frees = {2, 4}
  AudioLen = 4
  Limit <- SoundLimits
  InSize = 4
  OutSize = 1
  QueueSize = 16
  MouseRoom = 8
  Largest = 1
  Reach = 3
  Moves <- MouseMoves
INVARIANTS TimersRight DataIntact SoundRight DecodedAsProgrammed MouseRight MachinesSound
PROPERTIES LatchHeld TransfersComplete
CHECK_DEADLOCK FALSE
