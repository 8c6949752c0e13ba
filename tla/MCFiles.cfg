SPECIFICATION Spec
CONSTANT Unused = unused
\* Three watchers of two directories; a path of three components and six changes,
\* five when they come at any time.
\* A buffer of three bytes, with writes of up to four and a file of seven to read.
\* The input of wait() fits into the pipe, that of run_async() does not.
CONSTANTS
  Watchers = {"w1", "w2", "w3"}
  Dirs = {"d1", "d2"}
  NoDir = "none"
  MakeFails = TRUE
  Components = 3
  MaxInodes = 5
  MaxChanges = 6
  MaxFewer = 5
  Slots = 3
  OutBS = 3
  MaxLen = 4
  MaxBytes = 5
  ShortWrites = TRUE
  InBS = 3
  Length = 7
  MaxCount = 4
  Sizes = {1, 2}
  Strings = {0, 1, 2}
  ReadBS = 2
  PipeSize = 3
  MaxOut = 5
  WaitInput = 3
  WaitErr = 1
  RunInput = 4
  RunErr = 3
INVARIANTS
  UsersCounted
  Follows
  WatchedIsPending
  NothingLost
  AllOutput
PROPERTIES
  Consecutive
  Finishes
