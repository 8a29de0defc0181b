CONSTANTS
  UserFiles = {"a"}
  LooksOwn = {"a"}
  Boots = {0}
  MaxDisks = 1
  MaxMachines = 1
SPECIFICATION VmSpec
INVARIANT UserFilesStay
CHECK_DEADLOCK FALSE
