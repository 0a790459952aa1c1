SPECIFICATION MemSpec
CONSTANTS
  Threads = {t1, t2, t3}
  NoThread = NoThread
  nRamFrames = 5
  kernel_pages = 1
  MaxPages = 3
  PAGE_SIZE = 4
  USERSPACETOP = 28
  VM_STACKPAGES = 1
  TextRegions <- SmallText
  DataRegions <- SmallData
  NULL = NULL
  KThreads = {k1, k2}
  NPages = 4
  PageSize = 8
  Sizes <- BlockSizes
  NRoots = 2
  NPagerefs = 2
  Requests = {3, 5, 12}
  MaxHeld = 2
  ADDR_BITS = 3
  CopyTop = 4
  NoAddr = NoAddr
SYMMETRY Symmetry
INVARIANT BlocksDisjoint
INVARIANT FirstFit
INVARIANT NoLeak
INVARIANT LoadIsExact
INVARIANT BlocksAccounted
INVARIANT HeapIsSound
INVARIANT CopyIsExact
CHECK_DEADLOCK FALSE
