CONSTANTS
  ada = ada  a1 = a1  a2 = a2  a3 = a3
  Users = {ada}
  Requests = {a1, a2, a3}
  UserOf <- MCUserOf
  Downloads = {a2}
  Own = a1
  Sizes = {0, 1, 4, 5}
  MaxPart = 2
  MaxPolls = 2
  Failures = {"gone", "net", "cut", "disk", "kill"}
  None = None
SPECIFICATION Spec
INVARIANTS PlainIsPending CountedIsWritten
PROPERTIES BucketsExpire PromiseKept FileArrives
CHECK_DEADLOCK FALSE
