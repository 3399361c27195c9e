------------------------------ MODULE SSHPoolMC ------------------------------
(* Instances of SSHPool for TLC.                                            *)
EXTENDS SSHPool, TLC

CONSTANTS ada, bob, svc,        \* two users and the service account
          a1, a2, b1, p1

MCUsers == {ada, bob, svc}

\* Two requests of one user, one of another, and a health check.
MCUserOf == (a1 :> ada) @@ (a2 :> ada) @@ (b1 :> bob) @@ (p1 :> svc)
LiveUserOf == (a1 :> ada) @@ (a2 :> ada) @@ (p1 :> svc)
MCProbeTimeout == p1 :> 1

\* A user's request beside a health check.
ProbeUserOf == (b1 :> bob) @@ (p1 :> svc)

=============================================================================
