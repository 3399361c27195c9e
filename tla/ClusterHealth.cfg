CONSTANTS
  Services = {"scheduler", "ssh"}
  FileSystems <- Nested
  ProbesFiles = TRUE
  Paths <- NestedPaths
SPECIFICATION LiveSpec
INVARIANTS TypeOK GateFollowsCheck PathFollowsItsFileSystem
PROPERTIES GateCloses CheckerRecovers
CHECK_DEADLOCK FALSE
