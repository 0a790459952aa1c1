SPECIFICATION SvcSpec
CONSTANTS
  Threads = {t1, t2, t3, t4, t5}
  NoThread = NoThread
  initial_count = 1
  MaxCount = 2
  NULL = NULL
  HALF_BITS = 2
  Cpus = {c1, c2}
  Locks = {l1, l2}
  MaxHeld = 2
  MaxFrames = 2
  EmuFiles = {f1}
  EMU_MAXIO = 2
  MaxOffset = 4
  MaxLen = 3
  MaxRetries = 2
  BITS_PER_WORD = 3
  BitmapSizes = {1, 3, 4, 8}
  Values = {e1, e2}
  Junk = Junk
  MaxNum = 5
  ListThreads = {t1, t2, t3}
  Lists = {q1, q2}
  MaxIov = 3
  MaxIovLen = 2
  MaxMove = 3
  ZEROS = 2
  INT_WIDTH = 4
  LLONG_WIDTH = 7
  Arguments = {0, 7, 8, 64, 127}
  Lengths = {0, 1, 3, 20}
  MaxFormat = 5
  MaxSpacing = 4
  maxlen = 6
  MEMSIZE = 7
  WORD = 2
  UNSIGNED_BITS = 8
  MaxString = 5
INVARIANT NoLostWakeup
INVARIANT HolderIsOwner
INVARIANT InterruptsMatchLevel
INVARIANT HangmanIsExact
INVARIANT NoSpuriousPanic
INVARIANT EmuIsExact
INVARIANT ContainersAgree
INVARIANT TextIsExact
INVARIANT ArithmeticIsExact
PROPERTY CountGetsUsed
CHECK_DEADLOCK FALSE
