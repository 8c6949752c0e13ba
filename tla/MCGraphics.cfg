SPECIFICATION Spec
CONSTANT Unused = unused
\* Two frames in flight over two images and three changes of the size; three
\* objects for two ids; two devices and three children, one with a defaulted
\* move assignment.
CONSTANTS
  FramesInFlight = 2
  Images = {"i", "j"}
  MaxSize = 2
  MaxResizes = 3
  Instances = {"o", "p", "q"}
  Loaders = {"l", "m"}
  MaxInstances = 2
  Devices = {"d", "e"}
  Children = {"c", "k", "s"}
  Defaulted = {"s"}
  MaxHandles = 4
INVARIANTS
  GpuSafe
  FunctionsCurrent
  OneOwner
PROPERTIES
  FramesGoOn
