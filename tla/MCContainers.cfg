SPECIFICATION ContainersSpec
CONSTANT Unused = unused
\* Rings of every capacity up to four.
CONSTANTS
  Vals = {"a", "b"}
  Default = "d"
  Caps = {0, 1, 2, 3, 4}
\* Four cells, and seven keys of which some share a home.
  MapCap = 4
  MapKeys = {0, 1, 4, 5, 7, 8, 11}
  MapVals = {"v", "w"}
  MapDefault = "v"
\* Two variants of two alternatives, two functions of two types of callables and
\* two optional values.
  VarObjs = {"x", "y"}
  Alternatives = {1, 2}
  VarNums = {1, 2}
  FuncObjs = {"f", "g"}
  Callables = {"T", "U"}
  FuncNums = {1, 2}
  OptObjs = {"o", "p"}
  OptNums = {"1", "2"}
\* Three dimensions of up to three indexes.
  Rank = 3
  MaxSize = 3
  IndexWidth = 3
\* Literals of eight digits for six bits.
  LiteralWidth = 6
  MaxChars = 8
\* Texts of five characters, ranges of six elements with two delimiters, and
\* four arguments.
  Letters = {"k"}
  MaxText = 5
  Depth = 2
  RangeChars = {"a", ",", ";"}
  Delims = {",", ";"}
  MaxRange = 6
  MaxArgs = 4
INVARIANTS
  EveryKeyFound
  DestroyedOnce
  AsReference
  BackwardWalk
PROPERTIES
  IsWindow
  LoopsEnd
  KeepPromises
