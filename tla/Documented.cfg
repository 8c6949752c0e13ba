SPECIFICATION Spec
\* What a comment, an assertion or a test says, for the module it is run with.
INVARIANT AsDocumented
\* Index ranges: three dimensions that may start behind the origin.
CONSTANTS
  Rank = 3
  MaxSize = 3
  Starts = TRUE
\* Literals of eight characters for six bits, index types of six bits.
  Width = 6
  MaxChars = 8
\* Two variants of two alternatives, two functions of two callables.
  Objs = {"x", "y"}
  Types = {1, 2}
  Callables = {"T", "U"}
  Nums = {1, 2}
