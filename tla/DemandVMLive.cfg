SPECIFICATION FairSpec
CONSTANTS
  NUM_TLB = 2
  NoPage = NoPage
  Pages = {text, data, stack}
  ReadOnly = {text}
  ElfPages = {text, data}
  Versions = {1}
  nRamFrames = 3
  kernel_pages = 1
  nSwapPages = 2
  NULL = NULL
  Dangling = Dangling
  Zero = Zero
  KData = KData
PROPERTY WorkingSetSettles
CHECK_DEADLOCK FALSE
