SPECIFICATION AsyncSpec
CONSTANT Unused = unused
\* Four tasks through three slots; two tasks that keep to the discipline, with
\* two watches of files that may only be deleted, and two that do not, with one
\* watch; a ring of three events with two pollers; five entries, two in a
\* getdents.
\* A main context r with a nested context b, which has a nested context c and a
\* thread a; in a there is a nested context d, and in that one e.
CONSTANTS
  Items = {"a", "b", "c", "d"}
  MaxTasks = 3
  NoItem = "none"
  Disciplined = {"t", "u"}
  MaxWds = 2
  MaxEvents = 0
  Undisciplined = {"t", "u"}
  SharedWds = 1
  SharedEvents = 1
  RingSize = 3
  Pollers = {"p", "q"}
  MaxPush = 8
  Entries = 5
  Chunk = 2
  Root = "r"
  Ctx = {"r", "a", "b", "c", "d", "e"}
  Parent <- ParentInTree
  Source <- SourceInTree
  Nested = {"b", "c", "d", "e"}
  MaxSignals = 1
INVARIANTS
  InOrder
  NeverTwice
  WaitsForNothing
  TellsBeforeWaiting
PROPERTIES
  IsQueue
  EveryWaitEnds
  SignalStopsAll
