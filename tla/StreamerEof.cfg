CONSTANTS
  Clients = {c1}
  Tasks <- EofTasks
  Chunks = 1
  Shared = shared
SPECIFICATION Spec
INVARIANT ReceivedIsSource
CHECK_DEADLOCK FALSE
