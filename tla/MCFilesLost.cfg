SPECIFICATION Spec
CONSTANTS
  NULL = NULL
  NBlocks = 8
  NDirect = 1
  PerIdb = 2
  BlockSize = 2
  MaxEio = 0
  MaxLost = 1
  MaxSems = 2
  MaxSemCount = 2
  MaxHandles = 3
  MaxEmuFail = 1
  Machines <- AllMachines
CHECK_DEADLOCK FALSE
INVARIANT CleanIsOnDisk
