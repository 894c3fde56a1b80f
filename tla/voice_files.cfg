\* Two files that can be read and one that cannot, one of the two too long for
\* the watch, dropped, found, retried and removed, with a tool beside them.
SPECIFICATION Spec
CONSTANTS
  a = a
  b = b
  bad = bad
  NoFile = NoFile
  Ui = Ui
  Nobody = Nobody
  Files = {a, b, bad}
  Unreadable = {bad}
  LongFiles = {b}
  Candidates = {c1}
  Tasks = {k1, k2}
  Tools = {t1}
  PathLists <- Drops
  MaxDictations = 1
  MaxToolJobs = 1
  MaxPanics = 1
  MaxCommands = 3
  MaxEvents = 1
  MaxCrashes = 1
SYMMETRY TaskSymmetry
INVARIANTS OneAtATime OnceQueued NobodyForgotten NoStaleStatus WatchesWhenOn
CHECK_DEADLOCK FALSE
