SPECIFICATION Spec
CONSTANT Unused = unused
PROPERTIES
  Terminates
  SignalBlocks
