SPECIFICATION Spec
CONSTANTS
  NumWorkers = 2
  MaxOps = 1
  MaxEvents = 1
  StopOnCancel = FALSE
INVARIANTS TypeOK QuiescentExit ClosedUnread ResumeSuspended
