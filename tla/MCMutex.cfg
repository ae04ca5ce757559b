CONSTANTS
  Threads = {t1, t2, t3}
  Conds = {c, d}
  NoThread = NoThread
  NanoSecondsPerSecond = 2
  Durations <- MCDurations
  MaxTime = 3

SPECIFICATION TimedSpec

INVARIANTS
  IsLockedByThisThreadIsRight
  WaitForSecondsIsTrue

PROPERTY
  ImplementsMonitor
