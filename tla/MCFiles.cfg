SPECIFICATION Spec
CONSTANTS
  NULL = NULL
  NBlocks = 8
  NDirect = 1
  PerIdb = 2
  BlockSize = 2
  MaxEio = 1
  MaxLost = 0
  MaxSems = 2
  MaxSemCount = 2
  MaxHandles = 3
  MaxEmuFail = 1
  Machines <- AllMachines
INVARIANT RefsAccounted
INVARIANT SfsIsConsistent
INVARIANT CleanIsOnDisk
INVARIANT FsNoPanic
INVARIANT TablesMatch
CHECK_DEADLOCK FALSE
