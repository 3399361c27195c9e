---------------------------- MODULE ClusterHealth ----------------------------
(***************************************************************************)
(* The health of one cluster: the periodic ClusterHealthChecker, the       *)
(* servicesHealth list it publishes, and the gate that every request       *)
(* passes (ServiceAvailabilityDependency), which reads that list.          *)
(*                                                                         *)
(* The backends and the identity provider are external: they go up and     *)
(* down as they like.  A path is the sequence of its components, so "is    *)
(* equal to or starts with fs.path + '/'" is being a prefix of.            *)
(***************************************************************************)
EXTENDS Naturals, FiniteSets, SequencesExt

CONSTANTS
    Services,     \* probing.services without "filesystem": a set of names
    FileSystems,  \* file_systems: a sequence of paths
    ProbesFiles,  \* "filesystem" is one of probing.services
    Paths         \* the normalised absolute paths that requests name

ASSUME ConfigAssumption ==
    /\ Services \subseteq {"scheduler", "ssh", "external_storage"}
    /\ FileSystems \in Seq(Seq(STRING))
    /\ ProbesFiles \in BOOLEAN
    /\ Paths \subseteq Seq(STRING)

\* What a check is about: a service of the cluster, or one file system.
Target(type, path) == [type |-> type, path |-> path]

Plain(type) == IF type \in Services THEN << Target(type, << >>) >> ELSE << >>

\* The checks in the order check() lists them; gather() keeps it.
Checks ==
    Plain("scheduler") \o Plain("ssh")
      \o (IF ProbesFiles
          THEN [i \in DOMAIN FileSystems |-> Target("filesystem", FileSystems[i])]
          ELSE << >>)
      \o Plain("external_storage")

Targets == ToSet(Checks)

Verdicts == {"pending", "healthy", "unhealthy"}

VARIABLES
    up,              \* whether each backend answers, as things really are
    idp,             \* whether the identity provider issues a token
    checker,         \* "idle", "token" (fetching one) or "probing"
    verdict,         \* what the running checks have found
    servicesHealth,  \* cluster.servicesHealth: a sequence of entries
    found            \* history: the verdicts of the last check that did not fail

vars == << up, idp, checker, verdict, servicesHealth, found >>

-----------------------------------------------------------------------------

\* servicesHealth is None until the first check is over.
Init ==
    /\ up \in [Targets -> BOOLEAN]
    /\ idp \in BOOLEAN
    /\ checker = "idle"
    /\ verdict = [t \in Targets |-> "pending"]
    /\ servicesHealth = << >>
    /\ found = [t \in Targets |-> "pending"]

\* The world.
Turn(t) ==
    /\ up' = [up EXCEPT ![t] = ~@]
    /\ UNCHANGED << idp, checker, verdict, servicesHealth, found >>

TurnIdp ==
    /\ idp' = ~idp
    /\ UNCHANGED << up, checker, verdict, servicesHealth, found >>

\* The interval trigger runs check(), which asks for the token of the
\* service account.
Begin ==
    /\ checker = "idle"
    /\ checker' = "token"
    /\ UNCHANGED << up, idp, verdict, servicesHealth, found >>

\* Variant: the exception ends the schedule.
NoTokenDie ==
    /\ checker = "token"
    /\ ~idp
    /\ checker' = "dead"
    /\ servicesHealth' = << [type |-> "exception", path |-> << >>, healthy |-> FALSE] >>
    /\ UNCHANGED << up, idp, verdict, found >>

\* fetch_token() or auth_from_token() raises: one entry of a type of its own
\* replaces the list, and the exception is raised on.
NoToken ==
    /\ checker = "token"
    /\ ~idp
    /\ checker' = "idle"
    /\ servicesHealth' = << [type |-> "exception", path |-> << >>, healthy |-> FALSE] >>
    /\ UNCHANGED << up, idp, verdict, found >>

\* The checks start together.
GotToken ==
    /\ checker = "token"
    /\ idp
    /\ checker' = "probing"
    /\ verdict' = [t \in Targets |-> "pending"]
    /\ UNCHANGED << up, idp, servicesHealth, found >>

\* Variant: what the check raises is lost.
ProbeNoHandler(t) ==
    /\ checker = "probing"
    /\ verdict[t] = "pending"
    /\ up[t]
    /\ verdict' = [verdict EXCEPT ![t] = "healthy"]
    /\ UNCHANGED << up, idp, checker, servicesHealth, found >>

\* HealthCheckBase.check(): the check succeeds, or handle_error() turns what
\* it raised into an unhealthy entry.  A check of a backend that answers may
\* still fail (a time-out, a full connection pool).
Probe(t) ==
    /\ checker = "probing"
    /\ verdict[t] = "pending"
    /\ \E v \in {"healthy", "unhealthy"} :
         /\ v = "healthy" => up[t]
         /\ verdict' = [verdict EXCEPT ![t] = v]
    /\ UNCHANGED << up, idp, checker, servicesHealth, found >>

\* Variant: only what is healthy is listed.
PublishHealthy ==
    /\ checker = "probing"
    /\ \A t \in Targets : verdict[t] # "pending"
    /\ checker' = "idle"
    /\ servicesHealth' =
         SelectSeq([i \in DOMAIN Checks |->
                      [type |-> Checks[i].type, path |-> Checks[i].path,
                       healthy |-> verdict[Checks[i]] = "healthy"]],
                   LAMBDA e : e.healthy)
    /\ found' = verdict
    /\ UNCHANGED << up, idp, verdict >>

\* gather() returns: the new list replaces the old one at once.
Publish ==
    /\ checker = "probing"
    /\ \A t \in Targets : verdict[t] # "pending"
    /\ checker' = "idle"
    /\ servicesHealth' =
         [i \in DOMAIN Checks |-> [type |-> Checks[i].type, path |-> Checks[i].path,
                                   healthy |-> verdict[Checks[i]] = "healthy"]]
    /\ found' = verdict
    /\ UNCHANGED << up, idp, verdict >>

Check == NoToken \/ GotToken \/ Publish \/ \E t \in Targets : Probe(t)

Next == (\E t \in Targets : Turn(t)) \/ TurnIdp \/ Begin \/ Check

Spec == Init /\ [][Next]_vars

\* The trigger fires every interval_check seconds, and every request the
\* checker makes is answered or times out.
LiveSpec == Spec /\ WF_vars(Begin) /\ WF_vars(Check)

-----------------------------------------------------------------------------
(* The gate.  What a request is answered; 200 stands for going on.          *)

IsUnder(path, fs) == IsPrefix(fs, path)

\* Variant: the path is not looked at.
AboutType(e, t) == e.type = t.type

\* The entries that are about a service, or about the file system of a path.
About(e, t) == e.type = t.type /\ IsUnder(t.path, e.path)

\* next(filter(...), None): the first such entry is the one that decides.
Deciding(t) ==
    {i \in DOMAIN servicesHealth :
        /\ About(servicesHealth[i], t)
        /\ \A j \in 1 .. i - 1 : ~About(servicesHealth[j], t)}

\* Without an entry the request goes on.
HealthOf(t) ==
    IF \E i \in Deciding(t) : ~servicesHealth[i].healthy THEN 503 ELSE 200

\* system.probing.services is not empty.
Probing == Services # {} \/ ProbesFiles

\* A path outside every configured file system is a bad request.
Gate(t) ==
    IF ~Probing THEN 200
    ELSE IF /\ t.type = "filesystem"
            /\ \A i \in DOMAIN FileSystems : ~IsUnder(t.path, FileSystems[i])
    THEN 400
    ELSE HealthOf(t)

-----------------------------------------------------------------------------
(* Properties.                                                              *)

TypeOK ==
    /\ up \in [Targets -> BOOLEAN]
    /\ idp \in BOOLEAN
    /\ checker \in {"idle", "token", "probing"}
    /\ verdict \in [Targets -> Verdicts]
    /\ found \in [Targets -> Verdicts]
    /\ \A i \in DOMAIN servicesHealth :
         servicesHealth[i] \in [type : {t.type : t \in Targets} \cup {"exception"},
                                path : {t.path : t \in Targets} \cup {<< >>},
                                healthy : BOOLEAN]

\* The services a gate exists for, and the requests of each.
Gated == {Target(type, << >>) : type \in Services \cap {"scheduler", "ssh"}}
InFileSystem(p) == {i \in DOMAIN FileSystems : IsUnder(p, FileSystems[i])}

CheckerFailed ==
    \E i \in DOMAIN servicesHealth : servicesHealth[i].type = "exception"

\* The file system a path lies on: the innermost one that contains it.
HomeOf(p) ==
    FileSystems[CHOOSE i \in InFileSystem(p) :
                  \A j \in InFileSystem(p) : Len(FileSystems[j]) <= Len(FileSystems[i])]

\* Unless the last check failed as a whole, the gate and the last check
\* agree: a service is refused exactly when the check found it unhealthy.
GateFollowsCheck ==
    ~CheckerFailed => \A t \in Gated : Gate(t) = 503 <=> found[t] = "unhealthy"

\* A request for a path is refused when the file system it lies on was found
\* unhealthy, and only then.
PathFollowsItsFileSystem ==
    ~CheckerFailed /\ ProbesFiles =>
        \A p \in Paths : InFileSystem(p) # {} =>
            (Gate(Target("filesystem", p)) = 503
               <=> found[Target("filesystem", HomeOf(p))] = "unhealthy")

\* A service that stays down, while the checker can get its token, is refused
\* from some time on.
GateCloses == \A t \in Gated : <>[](~up[t] /\ idp) => <>[](Gate(t) = 503)

\* After a whole check that failed, the next one that does not fail restores
\* the gate: the exception entry does not stay while tokens are issued.
CheckerRecovers == <>[]idp => <>[]~CheckerFailed

=============================================================================
