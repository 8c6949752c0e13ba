SPECIFICATION FairSpec
CONSTANTS
  NumWorkers = 1
  MaxOps = 2
  MaxEvents = 1
  StopOnCancel = TRUE
PROPERTY SignalTerminates
