------------------------------ MODULE RequestMC ------------------------------
(* A request of any kind, and one that may be for another user and changes    *)
(* what the first one is about, on clusters of each kind.                     *)
EXTENDS Request, TLC

CONSTANTS r1, r2, u1, u2, job1

MCOwner == job1 :> u1

Cluster(kind, mode) == [kind |-> kind, mode |-> mode, recent |-> FALSE, probed |-> TRUE]
MCSystems ==
    "cli" :> Cluster("slurm", "ssh") @@ "rest" :> Cluster("slurm", "rest")
    @@ "hybrid" :> Cluster("slurm", "hybrid") @@ "pbs" :> Cluster("pbs", "ssh")
    @@ "unprobed" :> [Cluster("slurm", "ssh") EXCEPT !.recent = TRUE, !.probed = FALSE]

Body(a, body) == [a EXCEPT !.body = body]
Token(a, token) == [a EXCEPT !.token = token]

About(op) == IF op \in { "job", "metadata", "attach", "cancel" } THEN job1 ELSE None

\* Each operation on each kind of cluster, and what is wrong in some of them.
Served ==
    { Asked(op, system, u1, About(op)) : op \in ComputeOps \cup Wrapped, system \in { "cli", "rest", "pbs" } }
    \cup { [Asked("submit", system, u1, None) EXCEPT !.byPath = TRUE] : system \in { "hybrid", "rest" } }
    \cup { Asked("cancel", "unprobed", u2, job1), Asked("metadata", "unprobed", u1, job1),
            Asked("nodes", "elsewhere", u1, None),
            Asked("job", "hybrid", u1, job1), Asked("systems", "", u1, None) }

Wrong ==
    { Token(Asked("cancel", "cli", u1, job1), token) : token \in { "missing", "bad", "unnamed" } }
    \cup { Body(Asked("submit", "pbs", u1, None), body) : body \in { "malformed", "invalid" } }

MCAsks ==
    r1 :> (Served \cup Wrong)
    @@ r2 :> { Asked("submit", "cli", u2, None), Asked("cancel", "cli", u1, job1) }

=============================================================================
