CONSTANTS
  ada = ada  bob = bob  svc = svc
  a1 = a1  a2 = a2  b1 = b1  p1 = p1
  None = None
  Users <- MCUsers
  Requests = {a1, a2, p1}
  UserOf <- LiveUserOf
  Probes = {p1}
  ProbeTimeout <- MCProbeTimeout
  MaxClients = 1
  IdleTimeout = 2
  CommandTimeout = 1
  HasProxy = TRUE
SPECIFICATION LiveSpec
INVARIANTS TypeOK NoOrphanConnection RunsAsItsUser OvershootBounded
PROPERTIES PruneSparesCommands EveryRequestEnds EveryConnectionGoes
CHECK_DEADLOCK FALSE
