SPECIFICATION StatsSpec
CONSTANTS
  NUM_TLB = 2
  NoPage = NoPage
  Pages = {text, data, bss, stack}
  ReadOnly = {text}
  ElfPages = {text, data}
  Versions = {1}
  nRamFrames = 3
  kernel_pages = 1
  nSwapPages = 2
  MaxFaults = 5
  MaxSwitches = 2
  NULL = NULL
  Dangling = Dangling
  Zero = Zero
  KData = KData
INVARIANT FrameOwnership
INVARIANT VictimIsResident
INVARIANT SwapAccounting
INVARIANT TlbCoherent
INVARIANT StatsBalance
PROPERTY MemoryRefinement
CHECK_DEADLOCK FALSE
