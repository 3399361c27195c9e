CONSTANTS
  Sizes = {0, 3, 5, 8, 13}
  Block = 2
  MaxPart = 4
  Parallel = 2
  UseSplit = FALSE
  MinPart = 2
  Failures = {"disk", "net", "kill"}
  None = None
SPECIFICATION LiveSpec
INVARIANT OnlyFailedPartsMissing
PROPERTIES NoResend ReliableTransferSucceeds
CHECK_DEADLOCK FALSE
