SPECIFICATION FairSpec
CONSTANTS
  menu = menu
  Users = {u1, u2, u3}
  Threads = {menu, u1, u2, u3}
  NoThread = NoThread
  NULL = NULL
  initial_count = 0
  MaxCount = 1
  ExitCodes <- Codes
  Failures = {"vfs_open", "load_elf", "trap"}
  Regions = {1, 2, 3}
INVARIANT ExitIsSafe
INVARIANT RunIsComplete
PROPERTY MenuReturns
CHECK_DEADLOCK FALSE
