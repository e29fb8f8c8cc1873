CONSTANTS
  t1 = t1  t2 = t2  i1 = i1  i2 = i2  w1 = w1  w2 = w2
  Runs = {t1, t2}
  Quiet = {t2}
  RunIds = {i1, i2}
  Watchers = {w1, w2}
  BadWatchers = {w1}
  MaxCrashes = 1
SPECIFICATION FairSpec
INVARIANT RunnerInv
PROPERTY RecordLeads
PROPERTY RunsSettle
PROPERTY EarlyWatchersHear
PROPERTY ImplementsLifecycle
