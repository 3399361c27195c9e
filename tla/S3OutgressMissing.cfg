CONSTANTS
  Sizes = {5}
  Block = 2
  MaxPart = 4
  Parallel = 2
  UseSplit = FALSE
  MinPart = 2
  Failures = {"net"}
  None = None
SPECIFICATION Spec
INVARIANT ObjectIsWhole
CHECK_DEADLOCK FALSE
