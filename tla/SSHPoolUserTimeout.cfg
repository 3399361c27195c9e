CONSTANTS
  ada = ada  bob = bob  svc = svc
  a1 = a1  a2 = a2  b1 = b1  p1 = p1
  None = None
  Users <- MCUsers
  Requests = {b1, p1}
  UserOf <- ProbeUserOf
  Probes = {p1}
  ProbeTimeout <- MCProbeTimeout
  MaxClients = 2
  IdleTimeout = 3
  CommandTimeout = 2
  HasProxy = FALSE
SPECIFICATION Spec
INVARIANT UsersGetConfiguredTimeout
CHECK_DEADLOCK FALSE
