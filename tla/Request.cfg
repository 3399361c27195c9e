CONSTANTS
  r1 = r1
  r2 = r2
  u1 = u1
  u2 = u2
  job1 = job1
  Requests = {r1, r2}
  Users = {u1, u2}
  Jobs = {job1}
  None = None
  Shared = Shared
  AuthZ = TRUE
  MaxFlips = 1
  MaxFaults = 1
  Owner <- MCOwner
  Systems <- MCSystems
  Asks <- MCAsks
SPECIFICATION Spec
INVARIANTS OwnIdentity RefusedLeavesNothing SuccessIsDone
PROPERTIES EveryRequestAnswered
CHECK_DEADLOCK FALSE
