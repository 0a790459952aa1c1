SPECIFICATION Spec
CONSTANTS
  b0 = b0
  b1 = b1
  t1 = t1
  t2 = t2
  ncpus = 2
  Threads = {b0, b1, t1, t2}
  boot <- TwoCpus
  None = None
SYMMETRY Symmetry
INVARIANT StacksAreOwned
INVARIANT ThreadsAreListed
INVARIANT NoMissedUnidle
