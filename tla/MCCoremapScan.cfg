SPECIFICATION FairSpec
CONSTANTS
  Threads = {t1, t2}
  NoThread = NoThread
  nRamFrames = 3
  kernel_pages = 1
  MaxPages = 2
PROPERTY ScanTerminates
CHECK_DEADLOCK FALSE
