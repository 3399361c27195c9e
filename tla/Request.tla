------------------------------ MODULE Request -------------------------------
(***************************************************************************)
(* Requests to the compute and status endpoints, from the middlewares to   *)
(* the answer (main.py, dependencies.py, compute/router.py,                *)
(* status/router.py): the namespace each of them is bound to, who it is    *)
(* taken for, the checks it passes, the commands it has the scheduler run, *)
(* and what it is told.                                                    *)
(*                                                                         *)
(* One action is what a request does between two awaits.  The connections  *)
(* that the commands go through are modelled in SSHPool, how the health of *)
(* a service is found in ClusterHealth, how listings are merged in         *)
(* JobQuery.                                                               *)
(***************************************************************************)
EXTENDS SchedulerClients, FiniteSets

CONSTANTS
    Requests,
    Users,
    Jobs,      \* jobs that are there at the start
    Owner,     \* Owner[j]: whose they are
    Systems,   \* Systems[s]: kind, mode, recent, and whether it is probed
    AuthZ,     \* whether an authorization service is configured
    Asks,      \* Asks[r]: what request r may be
    MaxFlips,  \* bound: how often the health of a service changes
    MaxFaults, \* bound: how many commands of a request fail other than by time
    None, Shared

ASSUME RequestAssumption ==
    /\ None \notin Users
    /\ Shared \notin Requests
    /\ Jobs \cap Requests = {}
    /\ Owner \in [Jobs -> Users]
    /\ AuthZ \in BOOLEAN
    /\ \A r \in Requests : \A a \in Asks[r] : a.user \in Users

VARIABLES
    pc,        \* of each request: where it is
    ask,       \* what it asks for, see Asked
    bound,     \* the namespace it is bound to
    space,     \* of each namespace: the user that is set in it, or None
    gates,     \* the checks of the health of services that are left
    acting,    \* the user its endpoint works for
    stages,    \* the groups of commands that are left
    calls,     \* its commands
    reply,     \* its status code, and the user the error names
    sick,      \* the services that were last found unhealthy
    flips,     \* bound
    jobs,      \* external: of each job, its owner and whether it is active
    attached   \* external: the requests whose process was started in a job

web == << pc, ask, bound, space, gates, acting, stages >>
cluster == << jobs, attached >>
health == << sick, flips >>
vars == << web, calls, reply, health, cluster >>

\* A token is "missing", "bad" (no signature of ours, expired or about to),
\* "unnamed" (it has no user name) or "good"; a body is "malformed", "invalid"
\* or "good".
Asked(op, system, user, job) ==
    [op |-> op, system |-> system, user |-> user, job |-> job, token |-> "good",
     body |-> "good", byPath |-> FALSE]

NoReply == [code |-> 0, user |-> None]

\* A command is "sent", then it "ran", or was "unsent" in the end; its result is
\* what the client has got.  After the answer only the commands matter that may
\* yet change something.
Sent == [at |-> "sent", result |-> "waiting"]

-----------------------------------------------------------------------------
(* Answers.                                                                 *)

\* The handlers of the application run in the namespace of the request; the one
\* for any exception runs outside of it.  Only errors name a user.
ReplyWith(r, code, user) ==
    /\ pc' = [pc EXCEPT ![r] = "done"]
    /\ reply' = [reply EXCEPT ![r] = [code |-> code, user |-> user]]

Fail(r, code) == ReplyWith(r, code, space[bound[r]])
FailOutside(r) == ReplyWith(r, 500, space[Shared])
Succeed(r, code) == ReplyWith(r, code, None)

Finish(r, answer) ==
    IF answer.outside THEN FailOutside(r)
    ELSE IF answer.code >= 400 THEN Fail(r, answer.code) ELSE Succeed(r, answer.code)

-----------------------------------------------------------------------------
(* Before the endpoint.                                                     *)

\* Variant: init_request_vars is left out.
SharedSpace(r) == Shared

\* init_request_vars: a namespace of its own for each request.
FreshSpace(r) == r

Receive(r) ==
    /\ pc[r] = "none"
    /\ \E a \in Asks[r] : ask' = [ask EXCEPT ![r] = a]
    /\ bound' = [bound EXCEPT ![r] = FreshSpace(r)]
    /\ pc' = [pc EXCEPT ![r] = "auth"]
    /\ UNCHANGED << space, gates, acting, stages, calls, reply, health, cluster >>

Gate(service, ignored) == [service |-> service, ignored |-> ignored]

\* SchedulerClientDependency, which asks for a pool, which is behind a check, too.
ClientGates(system, ignored) ==
    << Gate("scheduler", ignored) >>
    \o IF system \in DOMAIN Systems /\ ViaSsh(Systems[system])
       THEN << Gate("ssh", ignored) >> ELSE << >>

GatesOf(a) ==
    CASE a.op = "systems" -> << >>
      [] a.op \in { "nodes", "reservations", "partitions" } -> ClientGates(a.system, TRUE)
      [] a.op = "userinfo" -> << Gate("ssh", FALSE) >> \o ClientGates(a.system, TRUE)
                              \o << Gate("ssh", FALSE) >>
      [] a.op \in ComputeOps -> ClientGates(a.system, FALSE)

\* set_auth() and set_access_token(), with no await between them.
SetAuth(r) ==
    /\ space' = [space EXCEPT ![bound[r]] = ask[r].user]
    /\ gates' = [gates EXCEPT ![r] = GatesOf(ask[r])]
    /\ pc' = [pc EXCEPT ![r] = "depends"]
    /\ UNCHANGED reply

Authorizes(r) == AuthZ /\ ask[r].op # "systems"

\* FastAPI reads the body before it looks at the dependencies.  HTTPBearer answers
\* 401 or 403, depending on the version of FastAPI.
Authenticate(r) ==
    /\ pc[r] = "auth"
    /\ \/ /\ ask[r].body = "malformed"
          /\ Fail(r, 400)
          /\ UNCHANGED << space, gates >>
       \/ /\ ask[r].body # "malformed"
          /\ ask[r].token = "missing"
          /\ \E code \in { 401, 403 } : Fail(r, code)
          /\ UNCHANGED << space, gates >>
       \/ /\ ask[r].body # "malformed"
          /\ ask[r].token = "bad"
          /\ Fail(r, 401)
          /\ UNCHANGED << space, gates >>
       \/ /\ ask[r].body # "malformed"
          /\ ask[r].token = "unnamed"
          /\ Fail(r, 400)
          /\ UNCHANGED << space, gates >>
       \/ /\ ask[r].body # "malformed"
          /\ ask[r].token = "good"
          /\ Authorizes(r)
          /\ pc' = [pc EXCEPT ![r] = "authorize"]
          /\ UNCHANGED << space, gates, reply >>
       \/ /\ ask[r].body # "malformed"
          /\ ask[r].token = "good"
          /\ ~Authorizes(r)
          /\ SetAuth(r)
    /\ UNCHANGED << ask, bound, acting, stages, calls, health, cluster >>

\* The authorization service agrees, or does not, or is not to be reached: its
\* 403 is caught by the same function, which raises 401.
Authorize(r) ==
    /\ pc[r] = "authorize"
    /\ \/ SetAuth(r)
       \/ Fail(r, 401) /\ UNCHANGED << space, gates >>
    /\ UNCHANGED << ask, bound, acting, stages, calls, health, cluster >>

\* ServiceAvailabilityDependency
Depend(r) ==
    /\ pc[r] = "depends"
    /\ gates[r] # << >>
    /\ LET gate == Head(gates[r])
           system == ask[r].system
       IN  \/ /\ system \notin DOMAIN Systems
              /\ Fail(r, 404)
              /\ UNCHANGED gates
           \/ /\ system \in DOMAIN Systems
              /\ ~gate.ignored /\ Systems[system].probed /\ << system, gate.service >> \in sick
              /\ Fail(r, 503)
              /\ UNCHANGED gates
           \/ /\ system \in DOMAIN Systems
              /\ gate.ignored \/ ~Systems[system].probed \/ << system, gate.service >> \notin sick
              /\ gates' = [gates EXCEPT ![r] = Tail(@)]
              /\ UNCHANGED << pc, reply >>
    /\ UNCHANGED << ask, bound, space, acting, stages, calls, health, cluster >>

-----------------------------------------------------------------------------
(* The endpoint.                                                            *)

Client(a) == ClientFor(Systems[a.system], a)

\* The user is read at the start of the endpoint, before its first await.
Start(r) ==
    LET a == ask[r]
        groups == Stages(Client(a), a.op, Systems[a.system].recent)
    IN  /\ acting' = [acting EXCEPT ![r] = space[bound[r]]]
        /\ stages' = [stages EXCEPT ![r] = groups]
        /\ calls' = [calls EXCEPT ![r] =
               [cmd \in UNION { groups[i] : i \in 1 .. Len(groups) } |-> Sent]]
        /\ IF Client(a) = "unsupported" THEN Fail(r, 501)
           ELSE IF Client(a) = "pbs" /\ a.op = "attach" THEN FailOutside(r)
           ELSE IF groups = << >> THEN Succeed(r, SuccessCode(a.op))
           ELSE pc' = [pc EXCEPT ![r] = "calls"] /\ UNCHANGED reply

\* Errors of validation are reported when all dependencies are there.
Endpoint(r) ==
    /\ pc[r] = "depends"
    /\ gates[r] = << >>
    /\ \/ /\ ask[r].body = "invalid"
          /\ Fail(r, 400)
          /\ UNCHANGED << acting, stages, calls >>
       \/ /\ ask[r].body # "invalid"
          /\ ask[r].op = "systems"
          /\ Succeed(r, 200)
          /\ UNCHANGED << acting, stages, calls >>
       \/ /\ ask[r].body # "invalid"
          /\ ask[r].op # "systems"
          /\ Start(r)
    /\ UNCHANGED << ask, bound, space, gates, health, cluster >>

Going(r, cmd) == pc[r] = "calls" /\ cmd \in Head(stages[r]) /\ calls[r][cmd].result = "waiting"

Faults == { "schedulerError", "quotaError", "credentials", "lost", "tooLong" }

SetCall(r, cmd, at, result) ==
    /\ calls' = [calls EXCEPT ![r][cmd] = [at |-> at, result |-> result]]
    /\ Cardinality({ c \in DOMAIN calls[r] : calls'[r][c].result \in Faults }) <= MaxFaults

\* The scheduler comes to a command, which the client may have given up by then.
\* What it does for whom is its own business: only the owner of an active job may
\* cancel or join it, and an answer may be lost on its way from the controller.
Mine(r) == ask[r].job \in DOMAIN jobs /\ jobs[ask[r].job] = [owner |-> acting[r], active |-> TRUE]

Does(r) ==
    CASE ask[r].op = "submit" ->
           /\ jobs' = [j \in DOMAIN jobs \cup { r } |->
                         IF j = r THEN [owner |-> acting[r], active |-> TRUE] ELSE jobs[j]]
           /\ UNCHANGED attached
      [] ask[r].op = "cancel" ->
           Mine(r) /\ jobs' = [jobs EXCEPT ![ask[r].job].active = FALSE] /\ UNCHANGED attached
      [] ask[r].op = "attach" ->
           Mine(r) /\ attached' = attached \cup { r } /\ UNCHANGED jobs
      [] OTHER -> UNCHANGED cluster

Changing == { "submit", "cancel", "attach" }

\* What the answer may look like, if it did what it was asked, and if it did not.
SaysDone(op) ==
    IF op \in Changing THEN { "good", "failed" } \cup IF op = "submit" THEN { "garbled" } ELSE {}
    ELSE { "good", "empty", "garbled" }

SaysNot(r, cmd) ==
    { "failed" } \cup (IF ask[r].op = "submit" THEN { "quota" } ELSE {})
    \cup (IF cmd = "scancel" /\ ~Mine(r) THEN { "complains" } ELSE {})
    \cup (IF ask[r].op \in { "job", "metadata" } THEN { "absent" } ELSE {})

Outcome(r, cmd, said) ==
    IF calls[r][cmd].result = "waiting"
    THEN Parse(cmd, ask[r].op, said) ELSE calls[r][cmd].result

Runs(r, cmd) ==
    /\ pc[r] \in { "calls", "done" }
    /\ calls[r][cmd].at = "sent"
    /\ Going(r, cmd) \/ (calls[r][cmd].result # "waiting" /\ ask[r].op \in Changing)
    /\ \/ /\ Does(r)
          /\ \E said \in SaysDone(ask[r].op) : SetCall(r, cmd, "ran", Outcome(r, cmd, said))
       \/ /\ \E said \in SaysNot(r, cmd) : SetCall(r, cmd, "ran", Outcome(r, cmd, said))
          /\ UNCHANGED cluster
    /\ UNCHANGED << web, reply, health >>

\* No credentials, or no connection: the command does not go out.
NoConnection(r, cmd) ==
    /\ Going(r, cmd)
    /\ calls[r][cmd].at = "sent"
    /\ \E exc \in IF cmd \in Http THEN { "exception" } ELSE { "credentials", "lost" } :
         SetCall(r, cmd, "unsent", exc)
    /\ UNCHANGED << web, reply, health, cluster >>

\* Variant: requests to the REST API are not timed.
GiveUpOnSsh(r, cmd) ==
    /\ Going(r, cmd)
    /\ cmd \notin Http
    /\ SetCall(r, cmd, "sent", "timeout")
    /\ UNCHANGED << web, reply, health, cluster >>

\* execute_timeout, or total of ClientTimeout; or the connection is lost.  Of an
\* ssh command's output there may be too much.
GiveUp(r, cmd) ==
    /\ Going(r, cmd)
    /\ \E exc \in IF cmd \in Http THEN { "exception" } ELSE { "timeout", "lost", "tooLong" } :
         SetCall(r, cmd, "sent", exc)
    /\ UNCHANGED << web, reply, health, cluster >>

Results(r) == [cmd \in DOMAIN calls[r] |-> calls[r][cmd].result]

\* All results of a group are there: the next group, or the answer.
Collect(r) ==
    LET a == ask[r]
        over == \A cmd \in Head(stages[r]) : calls[r][cmd].result # "waiting"
        next == Len(stages[r]) > 1 /\ Fine(Accounts(Client(a), Results(r)))
    IN  /\ pc[r] = "calls"
        /\ over
        /\ IF next
           THEN /\ stages' = [stages EXCEPT ![r] = Tail(@)]
                /\ UNCHANGED << pc, calls, reply >>
           ELSE /\ Finish(r, Answer(a.op, Returned(Client(a), a.op, Results(r))))
                /\ stages' = [stages EXCEPT ![r] = << >>]
                /\ calls' = [calls EXCEPT ![r] =
                       [cmd \in { c \in DOMAIN @ : a.op \in Changing /\ @[c].at = "sent" } |-> @[cmd]]]
        /\ UNCHANGED << ask, bound, space, gates, acting, health, cluster >>

-----------------------------------------------------------------------------
(* What goes on besides.                                                    *)

\* Bounds: the health of a service changes, and a job ends, only while a request
\* is going on that this makes a difference to.
HealthChanges ==
    /\ flips < MaxFlips
    /\ flips' = flips + 1
    /\ \E r \in Requests : \E i \in DOMAIN gates[r] :
         LET service == << ask[r].system, gates[r][i].service >> IN
         /\ pc[r] = "depends" /\ ~gates[r][i].ignored
         /\ ask[r].system \in DOMAIN Systems /\ Systems[ask[r].system].probed
         /\ sick' = IF service \in sick THEN sick \ { service } ELSE sick \cup { service }
    /\ UNCHANGED << web, calls, reply, cluster >>

JobEnds(j) ==
    /\ jobs[j].active
    /\ \E r \in Requests : ask[r].job = j /\ ask[r].op \in Changing /\ pc[r] \in { "depends", "calls" }
    /\ jobs' = [jobs EXCEPT ![j].active = FALSE]
    /\ UNCHANGED << web, calls, reply, health, attached >>

Init ==
    /\ pc = [r \in Requests |-> "none"]
    /\ ask = [r \in Requests |-> Asked("none", "", None, None)]
    /\ bound = [r \in Requests |-> Shared]
    /\ space = [n \in Requests \cup { Shared } |-> None]
    /\ gates = [r \in Requests |-> << >>]
    /\ acting = [r \in Requests |-> None]
    /\ stages = [r \in Requests |-> << >>]
    /\ calls = [r \in Requests |-> [cmd \in {} |-> Sent]]
    /\ reply = [r \in Requests |-> NoReply]
    /\ sick = {}
    /\ flips = 0
    /\ jobs = [j \in Jobs |-> [owner |-> Owner[j], active |-> TRUE]]
    /\ attached = {}

Serve(r) ==
    \/ Authenticate(r)
    \/ Authorize(r)
    \/ Depend(r)
    \/ Endpoint(r)
    \/ Collect(r)

Next ==
    \/ \E r \in Requests : \/ Receive(r)
                           \/ Serve(r)
                           \/ \E cmd \in DOMAIN calls[r] : \/ Runs(r, cmd)
                                                           \/ NoConnection(r, cmd)
                                                           \/ GiveUp(r, cmd)
    \/ HealthChanges
    \/ \E j \in Jobs : JobEnds(j)

\* The event loop goes on with what is left to do, and every call has its time
\* limit.
Fairness == WF_vars(\E r \in Requests : Serve(r) \/ \E cmd \in DOMAIN calls[r] : GiveUp(r, cmd))

Spec == Init /\ [][Next]_vars /\ Fairness

-----------------------------------------------------------------------------

\* Whatever other requests do in the meantime, a request works for the user of
\* its own token, its errors name no other user, and the jobs it submits are this
\* user's: per-request state never leaks (main.py, init_request_vars).
OwnIdentity ==
    \A r \in Requests :
        /\ acting[r] \in { None, ask[r].user }
        /\ pc[r] = "calls" => acting[r] # None
        /\ reply[r].user \in { None, ask[r].user }
        /\ r \in DOMAIN jobs => jobs[r].owner = ask[r].user

\* A request that was refused, by whatever check, for a quota, or as not supported
\* or not available, has done nothing at the scheduler, and nothing is on its way.
RefusedLeavesNothing ==
    \A r \in Requests :
        reply[r].code \in { 400, 401, 403, 404, 501, 503 } =>
            /\ r \notin DOMAIN jobs \cup attached
            /\ \A cmd \in DOMAIN calls[r] : calls[r][cmd].at # "sent"

\* A job that was submitted with success was queued, one that was cancelled with
\* success is over, and a process was started where that was reported.  The REST
\* client is left out of the last: its attach_command() does nothing.
SuccessIsDone ==
    \A r \in Requests :
        LET a == ask[r]
        IN  /\ a.op = "submit" /\ reply[r].code = 201 => r \in DOMAIN jobs
            /\ a.op = "cancel" /\ reply[r].code = 204 =>
                   a.job \notin DOMAIN jobs \/ ~jobs[a.job].active
            /\ a.op = "attach" /\ reply[r].code = 204 /\ Client(a) # "rest" => r \in attached

\* Every request that arrives is answered, whichever of its calls fail or hang.
EveryRequestAnswered == \A r \in Requests : pc[r] = "auth" ~> pc[r] = "done"

=============================================================================
