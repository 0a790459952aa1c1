SPECIFICATION FairSpec
CONSTANTS
  menu = menu
  Users = {u1, u2}
  Threads = {menu, u1, u2}
  NoThread = NoThread
  NULL = NULL
  initial_count = 0
  MaxCount = 1
  ExitCodes = {0, 257}
  Failures = {"vfs_open", "load_elf", "trap"}
  Regions = {1, 2, 3}
PROPERTY FailedRunIsDestroyed
CHECK_DEADLOCK FALSE
