SPECIFICATION Spec
CONSTANT Unused = unused
\* Three mice for two slots.
\* Two keys in one block, and motion that wraps at five bits.
\* A key and two buttons over a network with one fault.
\* Records of one and of two lines in rings of up to three lines.
CONSTANTS
  Mice = {"m1", "m2", "m3"}
  max_mouses = 2
  NoMouse = "none"
  Stop = "stop"
  KeyCount = 2
  BlockBits = 4
  RelHalf = 16
  MaxStep = 2
  MaxMoves = 5
  PlayedKeys = {"k"}
  PlayedButtons = {"b", "c"}
  KeyBatch = 2
  MouseBatch = 2
  MaxPlayed = 4
  MaxFaults = 1
  Writers = {"t1"}
  Racers = {"t1", "t2"}
  NoRecord = NoRecord
  Nobody = "nobody"
  Short = {"a"}
  Long = {"c", "d"}
  Ids = {1, 2}
  MaxTimes = 2
  Caps = {1, 2, 3}
  FewIds = {1}
  FewTimes = 1
  RaceCaps = {2}
  MaxFileTimes = 3
  MaxRecords = 3
INVARIANTS
  MiceRegistered
  Settled
  PressesPlayed
  RingView
  FileView
PROPERTIES
  ThreadsAnswer
