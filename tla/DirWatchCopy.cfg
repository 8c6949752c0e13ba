SPECIFICATION CopyingSpec
CONSTANTS
  Watchers = {w1, w2}
  Dirs = {d1, d2}
  NoDir = none
  MakeFails = FALSE
INVARIANT HeldIsWatched
