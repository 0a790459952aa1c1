SPECIFICATION StatsSpec
CONSTANTS
  NUM_TLB = 2
  NoPage = NoPage
  Pages = {text, data, stack}
  ReadOnly = {text}
  ElfPages = {text, data}
  Versions = {1}
  nRamFrames = 3
  kernel_pages = 1
  nSwapPages = 2
  MaxFaults = 6
  MaxSwitches = 2
  NULL = NULL
  Dangling = Dangling
  Zero = Zero
  KData = KData
PROPERTY ReplaceMeansFull
CHECK_DEADLOCK FALSE
