CONSTANTS
  Clients = {c1, c2}
  Tasks <- MCTasks
  Chunks = 2
  Shared = shared
SPECIFICATION ServerSpec
INVARIANTS FilesAreInitialParts OldFilesStay NothingOfTooMuch
PROPERTIES JobEndsWithTransfer TransferEnds
CHECK_DEADLOCK FALSE
