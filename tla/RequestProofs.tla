----------------------------- MODULE RequestProofs -----------------------------
(***************************************************************************)
(* Proofs about Request, for any users, requests, jobs and clusters: a     *)
(* request works for the user of its own token, one that was refused has   *)
(* done nothing at the scheduler, and one that succeeded what it asks for. *)
(***************************************************************************)
EXTENDS Request, Integers, TLAPS

\* A namespace is used by one request, and nothing is ever set in the one that the
\* handler for any exception finds.
SpaceInv ==
    /\ pc \in [Requests -> { "none", "auth", "authorize", "depends", "calls", "done" }]
    /\ bound \in [Requests -> Requests \cup { Shared }]
    /\ space \in [Requests \cup { Shared } -> Users \cup { None }]
    /\ space[Shared] = None
    /\ \A r \in Requests :
         /\ pc[r] = "none" => space[r] = None
         /\ pc[r] # "none" => bound[r] = r /\ ask[r].user \in Users
         /\ space[r] \in { None, ask[r].user }
         /\ pc[r] \in { "depends", "calls" } => space[r] = ask[r].user

\* A command is sent only when it is known for whom.
ActingInv ==
    /\ DOMAIN ask = Requests /\ DOMAIN acting = Requests
    /\ DOMAIN calls = Requests /\ DOMAIN reply = Requests
    /\ \A r \in Requests :
         /\ pc[r] = "none" => acting[r] = None /\ reply[r].user = None
         /\ acting[r] \in { None, ask[r].user }
         /\ pc[r] = "calls" \/ DOMAIN calls[r] # {} =>
              pc[r] # "none" /\ acting[r] = ask[r].user
         /\ reply[r].user \in { None, ask[r].user }

JobsInv ==
    /\ jobs \in [DOMAIN jobs -> [owner : Users, active : BOOLEAN]]
    /\ \A r \in Requests : r \in DOMAIN jobs => pc[r] # "none" /\ jobs[r].owner = ask[r].user

IdentityInv == SpaceInv /\ ActingInv /\ JobsInv

LEMMA InitIdentity == Init => IdentityInv
<1> SUFFICES ASSUME Init PROVE IdentityInv
  OBVIOUS
<1> USE RequestAssumption DEF Init
<1>1. SpaceInv
  BY DEF SpaceInv
<1>2. ActingInv
  BY DEF ActingInv, NoReply
<1>3. JobsInv
  BY DEF JobsInv
<1> QED
  BY <1>1, <1>2, <1>3 DEF IdentityInv

\* What an answer says of users: nothing, or the user of the request.
LEMMA AnswerNames ==
    ASSUME IdentityInv, NEW r \in Requests, pc[r] # "none", NEW code,
           Fail(r, code) \/ FailOutside(r) \/ Succeed(r, code)
    PROVE  /\ pc' = [pc EXCEPT ![r] = "done"]
           /\ \E user \in { None, ask[r].user } :
                reply' = [reply EXCEPT ![r] = [code |-> reply'[r].code, user |-> user]]
<1>1. space[bound[r]] \in { None, ask[r].user } /\ space[Shared] = None /\ r \in DOMAIN reply
  BY DEF IdentityInv, SpaceInv, ActingInv
<1> QED
  BY <1>1 DEF Fail, FailOutside, Succeed, ReplyWith

\* So an answer keeps the invariant, if nothing else of it changes.
LEMMA AnswerKeeps ==
    ASSUME IdentityInv, NEW r \in Requests, pc[r] # "none", NEW code,
           Fail(r, code) \/ FailOutside(r) \/ Succeed(r, code),
           UNCHANGED << ask, bound, space, acting, jobs >>,
           DOMAIN calls' = Requests,
           \A s \in Requests : DOMAIN calls'[s] # {} => DOMAIN calls[s] # {}
    PROVE  IdentityInv'
<1>1. PICK user \in { None, ask[r].user } :
        /\ pc' = [pc EXCEPT ![r] = "done"]
        /\ reply' = [reply EXCEPT ![r] = [code |-> reply'[r].code, user |-> user]]
  BY AnswerNames
<1>2. SpaceInv'
  BY <1>1 DEF IdentityInv, SpaceInv
<1>3. ActingInv'
  BY <1>1 DEF IdentityInv, ActingInv, SpaceInv
<1>4. JobsInv'
  BY <1>1 DEF IdentityInv, JobsInv, SpaceInv
<1> QED
  BY <1>2, <1>3, <1>4 DEF IdentityInv

\* What waits, or is answered, without setting anything.
LEMMA GoesOn ==
    ASSUME IdentityInv, NEW r \in Requests, pc[r] # "none", NEW where \in { "authorize", "depends" },
           NEW user \in { None, ask[r].user }, where = "depends" => user = ask[r].user,
           pc' = [pc EXCEPT ![r] = where], space' = [space EXCEPT ![r] = user],
           UNCHANGED << ask, bound, acting, calls, reply, jobs >>
    PROVE  IdentityInv'
<1>1. SpaceInv'
  <2>1. user \in Users \cup { None }
    BY DEF IdentityInv, SpaceInv
  <2>2. space' \in [Requests \cup { Shared } -> Users \cup { None }] /\ space'[Shared] = None
    BY <2>1, RequestAssumption DEF IdentityInv, SpaceInv
  <2>3. \A s \in Requests : s # r => pc'[s] = pc[s] /\ space'[s] = space[s]
    BY DEF IdentityInv, SpaceInv
  <2>4. pc'[r] = where /\ space'[r] = user
    BY DEF IdentityInv, SpaceInv
  <2>5. pc' \in [Requests -> { "none", "auth", "authorize", "depends", "calls", "done" }]
    BY DEF IdentityInv, SpaceInv
  <2> QED
    BY <2>2, <2>3, <2>4, <2>5 DEF IdentityInv, SpaceInv
<1>2. ActingInv'
  BY DEF IdentityInv, ActingInv, SpaceInv
<1>3. JobsInv'
  BY DEF IdentityInv, JobsInv, SpaceInv
<1> QED
  BY <1>1, <1>2, <1>3 DEF IdentityInv

LEMMA IdentityStep == IdentityInv /\ [Next]_vars => IdentityInv'
<1> SUFFICES ASSUME IdentityInv, [Next]_vars PROVE IdentityInv'
  OBVIOUS
<1> USE RequestAssumption
<1>1. ASSUME NEW r \in Requests, Receive(r) PROVE IdentityInv'
  <2>1. PICK a \in Asks[r] : ask' = [ask EXCEPT ![r] = a]
    BY <1>1 DEF Receive
  <2>2. a.user \in Users
    BY <2>1
  <2>3. /\ pc[r] = "none" /\ pc' = [pc EXCEPT ![r] = "auth"]
        /\ bound' = [bound EXCEPT ![r] = r]
        /\ UNCHANGED << space, acting, calls, reply, jobs >>
    BY <1>1 DEF Receive, FreshSpace, cluster
  <2>4. SpaceInv'
    BY <2>1, <2>2, <2>3 DEF IdentityInv, SpaceInv, ActingInv
  <2>5. ActingInv'
    BY <2>1, <2>3 DEF IdentityInv, ActingInv, SpaceInv
  <2>6. JobsInv'
    BY <2>1, <2>3 DEF IdentityInv, JobsInv, SpaceInv, ActingInv
  <2> QED
    BY <2>4, <2>5, <2>6 DEF IdentityInv
<1>2. ASSUME NEW r \in Requests, SetAuth(r), pc[r] # "none",
             UNCHANGED << ask, bound, acting, calls, reply, jobs >>
      PROVE  IdentityInv'
  <2>1. bound[r] = r /\ r \in DOMAIN space
    BY <1>2 DEF IdentityInv, SpaceInv
  <2>2. pc' = [pc EXCEPT ![r] = "depends"] /\ space' = [space EXCEPT ![r] = ask[r].user]
    BY <1>2, <2>1 DEF SetAuth
  <2> QED
    BY <1>2, <2>1, <2>2, GoesOn
<1>3. ASSUME NEW r \in Requests, NEW code, Fail(r, code) \/ Succeed(r, code), pc[r] # "none",
             UNCHANGED << ask, bound, space, acting, calls, jobs >>
      PROVE  IdentityInv'
  BY <1>3, AnswerKeeps DEF IdentityInv, ActingInv
<1>4. ASSUME NEW r \in Requests, Authenticate(r) PROVE IdentityInv'
  <2>1. pc[r] # "none" /\ UNCHANGED << ask, bound, acting, calls, jobs >>
    BY <1>4 DEF Authenticate, cluster
  <2>2. CASE \E code \in { 400, 401, 403 } : Fail(r, code) /\ UNCHANGED space
    BY <2>1, <2>2, <1>3
  <2>3. CASE SetAuth(r)
    BY <2>1, <2>3, <1>2 DEF SetAuth
  <2>4. CASE pc' = [pc EXCEPT ![r] = "authorize"] /\ UNCHANGED << space, reply >>
    <3>1. space' = [space EXCEPT ![r] = space[r]] /\ space[r] \in { None, ask[r].user }
      BY <2>4 DEF IdentityInv, SpaceInv
    <3> QED
      BY <2>1, <2>4, <3>1, GoesOn
  <2> QED
    BY <1>4, <2>2, <2>3, <2>4 DEF Authenticate
<1>5. ASSUME NEW r \in Requests, Authorize(r) PROVE IdentityInv'
  <2>1. pc[r] # "none" /\ UNCHANGED << ask, bound, acting, calls, jobs >>
    BY <1>5 DEF Authorize, cluster
  <2>2. CASE Fail(r, 401) /\ UNCHANGED space
    BY <2>1, <2>2, <1>3
  <2>3. CASE SetAuth(r)
    BY <2>1, <2>3, <1>2 DEF SetAuth
  <2> QED
    BY <1>5, <2>2, <2>3 DEF Authorize
<1>6. ASSUME NEW r \in Requests, Depend(r) PROVE IdentityInv'
  <2>1. pc[r] # "none" /\ UNCHANGED << ask, bound, space, acting, calls, jobs >>
    BY <1>6 DEF Depend, cluster
  <2>2. CASE Fail(r, 404) \/ Fail(r, 503)
    BY <2>1, <2>2, <1>3
  <2>3. CASE UNCHANGED << pc, reply >>
    BY <2>1, <2>3 DEF IdentityInv, SpaceInv, ActingInv, JobsInv
  <2> QED
    BY <1>6, <2>2, <2>3 DEF Depend
<1>7. ASSUME NEW r \in Requests, Endpoint(r) PROVE IdentityInv'
  <2>1. pc[r] = "depends" /\ UNCHANGED << ask, bound, space, jobs >>
    BY <1>7 DEF Endpoint, cluster
  <2>2. CASE (Fail(r, 400) \/ Succeed(r, 200)) /\ UNCHANGED << acting, stages, calls >>
    BY <2>1, <2>2, <1>3
  <2>3. CASE Start(r)
    <3>1. acting' = [acting EXCEPT ![r] = ask[r].user]
      BY <2>1, <2>3 DEF Start, IdentityInv, SpaceInv
    <3>2. DOMAIN calls' = Requests /\ \A s \in Requests \ { r } : calls'[s] = calls[s]
      BY <2>3 DEF Start, IdentityInv, ActingInv
    <3>3. CASE pc' = [pc EXCEPT ![r] = "calls"] /\ UNCHANGED reply
      <4>1. SpaceInv'
        BY <2>1, <3>3 DEF IdentityInv, SpaceInv
      <4>2. ActingInv'
        BY <2>1, <3>1, <3>2, <3>3 DEF IdentityInv, ActingInv, SpaceInv
      <4>3. JobsInv'
        BY <2>1, <3>3 DEF IdentityInv, JobsInv, SpaceInv
      <4> QED
        BY <4>1, <4>2, <4>3 DEF IdentityInv
    <3>4. CASE \E code : Fail(r, code) \/ FailOutside(r) \/ Succeed(r, code)
      <4>1. PICK user \in { None, ask[r].user } :
              /\ pc' = [pc EXCEPT ![r] = "done"]
              /\ reply' = [reply EXCEPT ![r] = [code |-> reply'[r].code, user |-> user]]
        BY <2>1, <3>4, AnswerNames
      <4>2. SpaceInv'
        BY <2>1, <4>1 DEF IdentityInv, SpaceInv
      <4>3. ActingInv'
        BY <2>1, <3>1, <3>2, <4>1 DEF IdentityInv, ActingInv, SpaceInv
      <4>4. JobsInv'
        BY <2>1, <4>1 DEF IdentityInv, JobsInv, SpaceInv
      <4> QED
        BY <4>2, <4>3, <4>4 DEF IdentityInv
    <3> QED
      BY <2>3, <3>3, <3>4 DEF Start
  <2> QED
    BY <1>7, <2>2, <2>3 DEF Endpoint
<1>8. ASSUME NEW r \in Requests, Collect(r) PROVE IdentityInv'
  <2>1. pc[r] # "none" /\ UNCHANGED << ask, bound, space, acting, jobs >>
    BY <1>8 DEF Collect, cluster
  <2>2. CASE UNCHANGED << pc, calls, reply >>
    BY <2>1, <2>2 DEF IdentityInv, SpaceInv, ActingInv, JobsInv
  <2>3. CASE \E answer : Finish(r, answer)
    <3>1. PICK code : Fail(r, code) \/ FailOutside(r) \/ Succeed(r, code)
      BY <2>3 DEF Finish
    <3>2. \/ UNCHANGED calls
          \/ calls' = [calls EXCEPT ![r] =
               [cmd \in { c \in DOMAIN @ : ask[r].op \in Changing /\ @[c].at = "sent" } |-> @[cmd]]]
      BY <1>8 DEF Collect
    <3>3. DOMAIN calls' = Requests /\ \A s \in Requests : DOMAIN calls'[s] # {} => DOMAIN calls[s] # {}
      BY <3>2 DEF IdentityInv, ActingInv
    <3> QED
      BY <2>1, <3>1, <3>3, AnswerKeeps
  <2> QED
    BY <1>8, <2>2, <2>3 DEF Collect
<1>9. ASSUME NEW r \in Requests, NEW cmd \in DOMAIN calls[r],
             Runs(r, cmd) \/ NoConnection(r, cmd) \/ GiveUp(r, cmd)
      PROVE  IdentityInv'
  <2>1. UNCHANGED << pc, ask, bound, space, acting, reply >>
    BY <1>9 DEF Runs, NoConnection, GiveUp, web
  <2>2. DOMAIN calls' = Requests /\ \A s \in Requests : DOMAIN calls'[s] = DOMAIN calls[s]
    <3>1. \E at, result : SetCall(r, cmd, at, result)
      BY <1>9 DEF Runs, NoConnection, GiveUp
    <3>2. \E call : calls' = [calls EXCEPT ![r] = [@ EXCEPT ![cmd] = call]]
      BY <3>1 DEF SetCall
    <3> QED
      BY <3>2 DEF IdentityInv, ActingInv
  <2>3. acting[r] = ask[r].user /\ ask[r].user \in Users /\ pc[r] # "none"
    BY DEF IdentityInv, ActingInv, SpaceInv
  <2>4. UNCHANGED jobs \/ Does(r)
    BY <1>9 DEF Runs, NoConnection, GiveUp, cluster
  <2>5. JobsInv'
    <3>1. CASE UNCHANGED jobs
      BY <2>1, <3>1 DEF IdentityInv, JobsInv
    <3>2. CASE jobs' = [j \in DOMAIN jobs \cup { r } |->
                          IF j = r THEN [owner |-> acting[r], active |-> TRUE] ELSE jobs[j]]
      BY <2>1, <2>3, <3>2 DEF IdentityInv, JobsInv
    <3>3. CASE ask[r].job \in DOMAIN jobs /\ jobs' = [jobs EXCEPT ![ask[r].job].active = FALSE]
      BY <2>1, <3>3 DEF IdentityInv, JobsInv
    <3> QED
      BY <2>4, <3>1, <3>2, <3>3 DEF Does, Mine, cluster
  <2>6. SpaceInv' /\ ActingInv'
    BY <2>1, <2>2 DEF IdentityInv, SpaceInv, ActingInv
  <2> QED
    BY <2>5, <2>6 DEF IdentityInv
<1>10. CASE HealthChanges \/ UNCHANGED vars
  BY <1>10 DEF HealthChanges, vars, web, cluster, IdentityInv, SpaceInv, ActingInv, JobsInv
<1>11. ASSUME NEW j \in Jobs, JobEnds(j) PROVE IdentityInv'
  <2>1. UNCHANGED << pc, ask, bound, space, acting, calls, reply >>
        /\ jobs' = [jobs EXCEPT ![j].active = FALSE]
    BY <1>11 DEF JobEnds, web
  <2>2. SpaceInv' /\ ActingInv'
    BY <2>1 DEF IdentityInv, SpaceInv, ActingInv
  <2>3. JobsInv'
    BY <2>1 DEF IdentityInv, JobsInv
  <2> QED
    BY <2>2, <2>3 DEF IdentityInv
<1> QED
  BY <1>1, <1>4, <1>5, <1>6, <1>7, <1>8, <1>9, <1>10, <1>11 DEF Next, Serve

\* Whatever other requests do meanwhile, the commands and jobs of a request are its
\* own user's, and its errors name no other (init_request_vars, set_auth).
THEOREM OwnUserOnly == Spec => []OwnIdentity
<1>1. IdentityInv => OwnIdentity
  BY RequestAssumption DEF IdentityInv, SpaceInv, ActingInv, JobsInv, OwnIdentity
<1> QED
  BY <1>1, InitIdentity, IdentityStep, PTL DEF Spec

-----------------------------------------------------------------------------
(***************************************************************************)
(* What the requests that change something have done.                      *)
(***************************************************************************)

Refused == { 400, 401, 403, 404, 501, 503 }

\* What a request is for, at the scheduler.
Did(r) ==
    /\ ask[r].op = "submit" => r \in DOMAIN jobs
    /\ ask[r].op = "cancel" => ask[r].job \in DOMAIN jobs /\ ~jobs[ask[r].job].active
    /\ ask[r].op = "attach" => r \in attached

Nothing(r) == r \notin DOMAIN jobs \cup attached

\* What the client knows of a command that changes something: of the answers that do
\* not say for sure, there are none but to a submission.
Known(r, call) ==
    /\ call.result = "quotaError" => call.at = "ran" /\ Nothing(r)
    /\ call.result = "value" => Did(r)
    /\ call.result = "none" => ask[r].op = "submit"
    /\ call.result = "waiting" => call.at = "sent"

\* Only a submission makes a job, only an attach joins one, and neither before its
\* one command ran.
TraceInv ==
    \A r \in Requests :
        /\ r \in DOMAIN jobs => ask[r].op = "submit"
        /\ r \in attached => ask[r].op = "attach"
        /\ pc[r] \notin { "calls", "done" } => Nothing(r) /\ DOMAIN calls[r] = {}
        /\ ask[r].op \in Changing =>
             \A c, d \in DOMAIN calls[r] : c = d /\ (calls[r][c].at = "sent" => Nothing(r))

Commands == { "sbatch", "srun", "scancel", "POST job", "DELETE job", "qsub", "qdel" }

\* What is known of that command.
KnownInv ==
    \A r \in Requests :
        pc[r] = "calls" /\ ask[r].op \in Changing =>
            \E cmd \in Commands : DOMAIN calls[r] = { cmd } /\ Known(r, calls[r][cmd])

AnswerInv ==
    \A r \in Requests :
        /\ pc[r] # "done" => reply[r].code = 0
        /\ reply[r].code \in Refused =>
             Nothing(r) /\ \A cmd \in DOMAIN calls[r] : calls[r][cmd].at # "sent"
        /\ ask[r].op = "submit" /\ reply[r].code = 201 => Did(r)
        /\ ask[r].op = "cancel" /\ reply[r].code = 204 => Did(r)
        /\ ask[r].op = "attach" /\ reply[r].code = 204 /\ Client(ask[r]) # "rest" => Did(r)

EffectInv == TraceInv /\ KnownInv /\ AnswerInv

\* The clients send one command for what changes something, or none.
LEMMA OneCommand ==
    ASSUME NEW client \in { "cli", "rest", "pbs", "unsupported" }, NEW op \in Changing, NEW recent
    PROVE  IF client = "unsupported" \/ (op = "attach" /\ client \in { "rest", "pbs" })
           THEN Stages(client, op, recent) = << >>
           ELSE \E cmd \in Commands : Stages(client, op, recent) = << { cmd } >>
<1>1. Stages(client, op, recent) =
        IF CommandsOf(client, op, recent) = {} THEN << >> ELSE << CommandsOf(client, op, recent) >>
  <2>1. op # "userinfo"
    BY DEF Changing
  <2>2. \A cmds : << cmds >> \o << >> = << cmds >>
    OBVIOUS
  <2>3. << >> \o << >> = << >>
    OBVIOUS
  <2> QED
    BY <2>1, <2>2, <2>3, Zenon DEF Stages
<1>2. CASE client = "cli"
  <2>1. CommandsOf(client, op, recent) \in { { "sbatch" }, { "srun" }, { "scancel" } }
    BY <1>2 DEF CommandsOf, CliCommands, Changing
  <2> QED
    BY <1>1, <1>2, <2>1 DEF Commands
<1>3. CASE client = "rest"
  <2>1. CommandsOf(client, op, recent) =
          CASE op = "submit" -> { "POST job" } [] op = "cancel" -> { "DELETE job" } [] op = "attach" -> {}
    BY <1>3 DEF CommandsOf, RestCommands, Changing
  <2> QED
    BY <1>1, <1>3, <2>1 DEF Commands, Changing
<1>4. CASE client = "pbs"
  <2>1. CommandsOf(client, op, recent) =
          CASE op = "submit" -> { "qsub" } [] op = "cancel" -> { "qdel" } [] op = "attach" -> {}
    BY <1>4 DEF CommandsOf, PbsCommands, Changing
  <2> QED
    BY <1>1, <1>4, <2>1 DEF Commands, Changing
<1>5. CASE client = "unsupported"
  BY <1>1, <1>5 DEF CommandsOf
<1> QED
  BY <1>2, <1>3, <1>4, <1>5

\* How the answers to these commands are read.
LEMMA Reading ==
    ASSUME NEW cmd \in Commands, NEW op, NEW said
    PROVE  /\ Parse(cmd, op, said) = "quotaError" => said = "quota"
           /\ Parse(cmd, op, said) = "value" => said \in { "good", "empty", "garbled" }
           /\ Parse(cmd, op, said) = "none" => said \in { "empty", "garbled" }
           /\ Parse(cmd, op, said) # "waiting"
<1>1. CASE cmd \in { "sbatch", "srun", "scancel" }
  BY <1>1 DEF Parse, Sbatch, Srun, Scancel, Read
<1>2. CASE cmd \in { "qsub", "qdel" }
  BY <1>2 DEF Parse, Qsub, Qdel, Read
<1>3. CASE cmd \in { "POST job", "DELETE job" }
  BY <1>3 DEF Parse, PostJob, DeleteJob, Read
<1> QED
  BY <1>1, <1>2, <1>3 DEF Commands

\* What a command does at the scheduler leaves what others did, and is what its
\* request is for.
LEMMA Doing ==
    ASSUME IdentityInv, TraceInv, NEW r \in Requests, Does(r),
           ask[r].op \in Changing, Nothing(r), UNCHANGED ask
    PROVE  /\ Did(r)'
           /\ \A s \in Requests : Did(s) => Did(s)'
           /\ \A s \in Requests \ { r } :
             (s \in DOMAIN jobs' => s \in DOMAIN jobs) /\ (s \in attached' => s \in attached)
           /\ r \in DOMAIN jobs' => ask[r].op = "submit"
           /\ r \in attached' => ask[r].op = "attach"
<1>1. jobs \in [DOMAIN jobs -> [owner : Users, active : BOOLEAN]] /\ r \notin DOMAIN jobs
  BY DEF IdentityInv, JobsInv, Nothing
<1>2. CASE ask[r].op = "submit"
  <2>1. /\ jobs' = [j \in DOMAIN jobs \cup { r } |->
                       IF j = r THEN [owner |-> acting[r], active |-> TRUE] ELSE jobs[j]]
        /\ attached' = attached
    BY <1>2 DEF Does
  <2> QED
    BY <1>1, <1>2, <2>1 DEF Did, Nothing
<1>3. CASE ask[r].op = "cancel"
  <2>1. /\ ask[r].job \in DOMAIN jobs /\ attached' = attached
        /\ jobs' = [jobs EXCEPT ![ask[r].job].active = FALSE]
    BY <1>3 DEF Does, Mine
  <2> QED
    BY <1>1, <1>3, <2>1 DEF Did, Nothing
<1>4. CASE ask[r].op = "attach"
  <2>1. jobs' = jobs /\ attached' = attached \cup { r }
    BY <1>4 DEF Does
  <2> QED
    BY <1>1, <1>4, <2>1 DEF Did, Nothing
<1> QED
  BY <1>2, <1>3, <1>4 DEF Changing

\* A command that runs, for all that happens in the rest of the step.
LEMMA RunsKeeps ==
    ASSUME IdentityInv, EffectInv, NEW r \in Requests, NEW cmd \in DOMAIN calls[r], Runs(r, cmd)
    PROVE  EffectInv'
<1>1. /\ UNCHANGED << pc, ask, reply >> /\ pc[r] \in { "calls", "done" }
      /\ calls[r][cmd].at = "sent"
      /\ Going(r, cmd) \/ (calls[r][cmd].result # "waiting" /\ ask[r].op \in Changing)
  BY DEF Runs, web
<1>2. PICK said \in SaysDone(ask[r].op) \cup SaysNot(r, cmd) :
        /\ SetCall(r, cmd, "ran", Outcome(r, cmd, said))
        /\ \/ said \in SaysDone(ask[r].op) /\ Does(r)
           \/ said \in SaysNot(r, cmd) /\ UNCHANGED cluster
  BY DEF Runs
<1> DEFINE result == Outcome(r, cmd, said)
<1>3. calls' = [calls EXCEPT ![r] = [@ EXCEPT ![cmd] = [at |-> "ran", result |-> result]]]
  BY <1>2 DEF SetCall
<1>4. /\ DOMAIN calls' = Requests /\ \A s \in Requests \ { r } : calls'[s] = calls[s]
      /\ DOMAIN calls'[r] = DOMAIN calls[r] /\ calls'[r][cmd] = [at |-> "ran", result |-> result]
      /\ \A c \in DOMAIN calls[r] : c # cmd => calls'[r][c] = calls[r][c]
  BY <1>3 DEF IdentityInv, ActingInv
<1> HIDE DEF result
<1>5. CASE ask[r].op \notin Changing
  <2>1. UNCHANGED << jobs, attached >>
    BY <1>2, <1>5 DEF Does, Changing, cluster
  <2>2. \A s \in Requests : (Nothing(s)' <=> Nothing(s)) /\ (Did(s)' <=> Did(s))
    BY <1>1, <2>1 DEF Nothing, Did
  <2>3. TraceInv'
    BY <1>1, <1>4, <1>5, <2>1, <2>2 DEF EffectInv, TraceInv
  <2>4. KnownInv'
    <3>1. ASSUME NEW s \in Requests, ask[s].op \in Changing
          PROVE  calls'[s] = calls[s] /\ \A c : Known(s, calls[s][c]) => Known(s, calls[s][c])'
      BY <1>1, <1>4, <1>5, <2>2, <3>1 DEF Known
    <3> QED
      BY <1>1, <3>1 DEF EffectInv, KnownInv
  <2>5. AnswerInv'
    <3>1. ASSUME NEW s \in Requests, reply[s].code \in Refused, NEW c \in DOMAIN calls'[s]
          PROVE  calls'[s][c].at # "sent"
      BY <1>4, <3>1 DEF EffectInv, AnswerInv
    <3> QED
      BY <1>1, <2>2, <3>1 DEF EffectInv, AnswerInv, Client
  <2> QED
    BY <2>3, <2>4, <2>5 DEF EffectInv
<1>6. CASE ask[r].op \in Changing
  <2>1. Nothing(r) /\ \A c \in DOMAIN calls[r] : c = cmd
    BY <1>1, <1>6 DEF EffectInv, TraceInv
  <2>2. \A s \in Requests : Did(s) => Did(s)'
    BY <1>1, <1>2, <1>6, <2>1, Doing DEF EffectInv, cluster, Did
  <2>3. /\ \A s \in Requests \ { r } :
             (s \in DOMAIN jobs' => s \in DOMAIN jobs) /\ (s \in attached' => s \in attached)
        /\ r \in DOMAIN jobs' => ask[r].op = "submit"
        /\ r \in attached' => ask[r].op = "attach"
    BY <1>1, <1>2, <1>6, <2>1, Doing DEF EffectInv, cluster, Nothing
  <2>4. \A s \in Requests \ { r } : Nothing(s) => Nothing(s)'
    BY <2>3 DEF Nothing
  <2>5. TraceInv'
    BY <1>1, <1>4, <2>1, <2>3, <2>4 DEF EffectInv, TraceInv
  <2>6. ASSUME pc[r] = "calls"
        PROVE  /\ cmd \in Commands
               /\ result = "quotaError" => Nothing(r)'
               /\ result = "value" => Did(r)'
               /\ result = "none" => ask[r].op = "submit"
               /\ result # "waiting"
    <3>1. cmd \in Commands /\ Known(r, calls[r][cmd])
      BY <1>6, <2>6 DEF EffectInv, KnownInv
    <3>2. CASE calls[r][cmd].result # "waiting"
      <4>1. result = calls[r][cmd].result
        BY <3>2 DEF result, Outcome
      <4> QED
        BY <1>1, <1>4, <2>2, <3>1, <3>2, <4>1 DEF Known
    <3>3. CASE calls[r][cmd].result = "waiting" /\ said \in SaysDone(ask[r].op) /\ Does(r)
      <4>1. /\ result = Parse(cmd, ask[r].op, said) /\ said # "quota"
            /\ said \in { "empty", "garbled" } => ask[r].op = "submit"
        BY <1>6, <3>3 DEF result, Outcome, SaysDone
      <4>2. Did(r)'
        BY <1>1, <1>6, <2>1, <3>3, Doing DEF EffectInv
      <4> QED
        BY <1>1, <1>4, <3>1, <4>1, <4>2, Reading DEF Known
    <3>4. CASE calls[r][cmd].result = "waiting" /\ said \in SaysNot(r, cmd) /\ UNCHANGED cluster
      <4>1. result = Parse(cmd, ask[r].op, said) /\ said \notin { "good", "empty", "garbled" }
        BY <1>6, <3>4 DEF result, Outcome, SaysNot, Changing
      <4>2. Nothing(r)'
        BY <2>1, <3>4 DEF Nothing, cluster
      <4> QED
        BY <1>1, <1>4, <3>1, <4>1, <4>2, Reading DEF Known
    <3> QED
      BY <1>2, <3>2, <3>3, <3>4
  <2>7. KnownInv'
    <3>1. ASSUME NEW s \in Requests, s # r, pc[s] = "calls", ask[s].op \in Changing,
                 NEW c, Known(s, calls[s][c])
          PROVE  Known(s, calls[s][c])'
      BY <1>1, <1>4, <2>2, <2>4, <3>1 DEF Known
    <3>2. ASSUME pc[r] = "calls" PROVE DOMAIN calls'[r] = { cmd } /\ cmd \in Commands
                                       /\ Known(r, calls[r][cmd])'
      <4>1. calls'[r][cmd].at = "ran" /\ calls'[r][cmd].result = result
        BY <1>4
      <4>2. Known(r, calls[r][cmd])'
        BY <1>1, <2>6, <3>2, <4>1 DEF Known
      <4> QED
        BY <1>4, <2>1, <2>6, <3>2, <4>2
    <3> QED
      BY <1>1, <1>4, <3>1, <3>2 DEF EffectInv, KnownInv
  <2>8. AnswerInv'
    <3>1. reply[r].code \notin Refused
      BY <1>1 DEF EffectInv, AnswerInv
    <3> QED
      BY <1>1, <1>4, <2>2, <2>4, <3>1 DEF EffectInv, AnswerInv, Client
  <2> QED
    BY <2>5, <2>7, <2>8 DEF EffectInv
<1> QED
  BY <1>5, <1>6

\* The answer that request r gets in this step, in which nothing is done.
Answered(r, code) ==
    /\ pc[r] \notin { "none", "done" }
    /\ pc' = [pc EXCEPT ![r] = "done"]
    /\ \E user : reply' = [reply EXCEPT ![r] = [code |-> code, user |-> user]]
    /\ UNCHANGED << ask, jobs, attached >>

\* Commands of r are dropped, and none of them changes.
OnlyDropped(r) ==
    /\ DOMAIN calls' = Requests
    /\ \A s \in Requests \ { r } : calls'[s] = calls[s]
    /\ DOMAIN calls'[r] \subseteq DOMAIN calls[r]
    /\ \A cmd \in DOMAIN calls'[r] : calls'[r][cmd] = calls[r][cmd]

\* The request has its effect if the answer says so, and none if it says that.
Truthful(r, code) ==
    /\ code \in Refused =>
           Nothing(r) /\ \A cmd \in DOMAIN calls'[r] : calls'[r][cmd].at # "sent"
    /\ ask[r].op = "submit" /\ code = 201 => Did(r)
    /\ ask[r].op = "cancel" /\ code = 204 => Did(r)
    /\ ask[r].op = "attach" /\ code = 204 /\ Client(ask[r]) # "rest" => Did(r)

LEMMA AnswerIsTrue ==
    ASSUME IdentityInv, EffectInv, NEW r \in Requests, NEW code,
           Answered(r, code), OnlyDropped(r), Truthful(r, code)
    PROVE  EffectInv'
<1> USE DEF Answered, OnlyDropped, Truthful
<1>1. /\ reply'[r].code = code /\ pc'[r] = "done"
      /\ \A s \in Requests \ { r } : reply'[s] = reply[s] /\ pc'[s] = pc[s]
  BY DEF IdentityInv, ActingInv, SpaceInv
<1>2. \A s \in Requests : (Nothing(s)' <=> Nothing(s)) /\ (Did(s)' <=> Did(s))
  BY DEF Nothing, Did
<1>3. TraceInv'
  BY <1>1, <1>2 DEF EffectInv, TraceInv
<1>4. KnownInv'
  <2>1. ASSUME NEW s \in Requests, s # r
        PROVE  calls'[s] = calls[s] /\ \A c : Known(s, calls[s][c]) => Known(s, calls[s][c])'
    BY <1>2, <2>1 DEF Known
  <2> QED
    BY <1>1, <2>1 DEF EffectInv, KnownInv
<1>5. AnswerInv'
  <2>1. Client(ask[r])' = Client(ask[r])
    BY DEF Client
  <2>2. ASSUME NEW s \in Requests, s # r PROVE calls'[s] = calls[s] /\ Client(ask[s])' = Client(ask[s])
    BY <2>2 DEF Client
  <2> QED
    BY <1>1, <1>2, <2>1, <2>2 DEF EffectInv, AnswerInv
<1> QED
  BY <1>3, <1>4, <1>5 DEF EffectInv

\* Steps that only move a request on.
LEMMA MovingOn ==
    ASSUME IdentityInv, EffectInv, NEW r \in Requests,
           pc[r] \notin { "none", "done" },
           NEW where \in { "authorize", "depends", pc[r] }, where = pc[r] \/ pc[r] # "calls",
           pc' = [pc EXCEPT ![r] = where], UNCHANGED << ask, calls, reply, jobs, attached >>
    PROVE  EffectInv'
<1>1. pc'[r] = where /\ \A s \in Requests \ { r } : pc'[s] = pc[s]
  BY DEF IdentityInv, SpaceInv
<1>2. TraceInv'
  BY <1>1 DEF EffectInv, TraceInv, Nothing
<1>3. KnownInv'
  <2>1. ASSUME NEW s \in Requests
        PROVE  \A c : Known(s, calls[s][c]) => Known(s, calls[s][c])'
    BY DEF Known, Nothing, Did
  <2> QED
    BY <1>1, <2>1 DEF EffectInv, KnownInv
<1>4. AnswerInv'
  BY <1>1 DEF EffectInv, AnswerInv, Nothing, Did, Client
<1> QED
  BY <1>2, <1>3, <1>4 DEF EffectInv

LEMMA InitEffect == Init => EffectInv
<1> SUFFICES ASSUME Init PROVE EffectInv
  OBVIOUS
<1>1. \A r \in Requests : Nothing(r) /\ calls[r] = [cmd \in {} |-> Sent] /\ reply[r].code = 0
  BY RequestAssumption DEF Init, Nothing, NoReply
<1>2. \A r \in Requests : DOMAIN calls[r] = {}
  BY <1>1
<1>3. TraceInv
  BY <1>1, <1>2 DEF Init, TraceInv, Nothing
<1>4. KnownInv
  BY DEF Init, KnownInv
<1>5. AnswerInv
  BY <1>1, <1>2 DEF AnswerInv, Refused
<1> QED
  BY <1>3, <1>4, <1>5 DEF EffectInv

LEMMA ReceiveKeeps ==
    ASSUME IdentityInv, EffectInv, NEW r \in Requests, Receive(r) PROVE EffectInv'
<1>1. PICK a \in Asks[r] : ask' = [ask EXCEPT ![r] = a]
  BY DEF Receive
<1>2. /\ pc[r] = "none" /\ pc' = [pc EXCEPT ![r] = "auth"]
      /\ UNCHANGED << calls, reply, jobs, attached >>
  BY DEF Receive, cluster
<1>3. /\ pc'[r] = "auth"
      /\ \A s \in Requests \ { r } : pc'[s] = pc[s] /\ ask'[s] = ask[s]
  BY <1>1, <1>2 DEF IdentityInv, SpaceInv, ActingInv
<1>4. Nothing(r) /\ DOMAIN calls[r] = {} /\ reply[r].code = 0
  BY <1>2 DEF EffectInv, TraceInv, AnswerInv
<1>5. \A s \in Requests : Nothing(s)' <=> Nothing(s)
  BY <1>2 DEF Nothing
<1>6. \A s \in Requests \ { r } : Did(s)' <=> Did(s)
  BY <1>2, <1>3 DEF Did
<1>7. TraceInv'
  BY <1>2, <1>3, <1>4, <1>5 DEF EffectInv, TraceInv, Nothing
<1>8. KnownInv'
  <2>1. ASSUME NEW s \in Requests, s # r
        PROVE  \A c : Known(s, calls[s][c]) => Known(s, calls[s][c])'
    BY <1>2, <1>3, <1>5, <1>6, <2>1 DEF Known
  <2> QED
    BY <1>2, <1>3, <2>1 DEF EffectInv, KnownInv
<1>9. AnswerInv'
  <2>1. ASSUME NEW s \in Requests, s # r PROVE Client(ask[s])' = Client(ask[s])
    BY <1>3, <2>1 DEF Client
  <2> QED
    BY <1>2, <1>3, <1>4, <1>5, <1>6, <2>1 DEF EffectInv, AnswerInv, Refused
<1> QED
  BY <1>7, <1>8, <1>9 DEF EffectInv

\* Whatever is answered before the endpoint is at work, nothing was done.
LEMMA EarlyAnswer ==
    ASSUME IdentityInv, EffectInv, NEW r \in Requests, NEW code, Fail(r, code) \/ Succeed(r, code),
           pc[r] \in { "auth", "authorize", "depends" }, code \notin { 201, 204 },
           UNCHANGED << ask, calls, jobs, attached >>
    PROVE  EffectInv'
<1>1. Nothing(r) /\ DOMAIN calls[r] = {}
  BY DEF EffectInv, TraceInv
<1>2. Answered(r, code)
  BY DEF Answered, Fail, Succeed, ReplyWith
<1>3. OnlyDropped(r)
  BY DEF OnlyDropped, IdentityInv, ActingInv
<1>4. Truthful(r, code)
  BY <1>1 DEF Truthful, EffectInv, TraceInv
<1> QED
  BY <1>2, <1>3, <1>4, AnswerIsTrue

LEMMA StartKeeps ==
    ASSUME IdentityInv, EffectInv, NEW r \in Requests, pc[r] = "depends", Start(r),
           UNCHANGED << ask, jobs, attached >>
    PROVE  EffectInv'
<1> DEFINE a == ask[r]
           groups == Stages(Client(a), a.op, Systems[a.system].recent)
<1>1. /\ calls' = [calls EXCEPT ![r] =
               [cmd \in UNION { groups[i] : i \in 1 .. Len(groups) } |-> Sent]]
      /\ IF Client(a) = "unsupported" THEN Fail(r, 501)
         ELSE IF Client(a) = "pbs" /\ a.op = "attach" THEN FailOutside(r)
         ELSE IF groups = << >> THEN Succeed(r, SuccessCode(a.op))
         ELSE pc' = [pc EXCEPT ![r] = "calls"] /\ UNCHANGED reply
  BY DEF Start
<1>2. Nothing(r) /\ DOMAIN calls[r] = {} /\ reply[r].code = 0
  BY DEF EffectInv, TraceInv, AnswerInv
<1>3. /\ DOMAIN calls' = Requests /\ \A s \in Requests \ { r } : calls'[s] = calls[s]
      /\ calls'[r] = [cmd \in UNION { groups[i] : i \in 1 .. Len(groups) } |-> Sent]
  BY <1>1 DEF IdentityInv, ActingInv
<1>4. Client(a) \in { "cli", "rest", "pbs", "unsupported" }
  BY DEF Client, ClientFor
<1>5. a.op \in Changing =>
        IF Client(a) = "unsupported" \/ (a.op = "attach" /\ Client(a) \in { "rest", "pbs" })
        THEN groups = << >> ELSE \E cmd \in Commands : groups = << { cmd } >>
  BY <1>4, OneCommand
<1>6. Client(a) = "unsupported" => groups = << >>
  <2>1. ASSUME Client(a) = "unsupported" PROVE a.op # "userinfo"
    BY <2>1 DEF Client, ClientFor
  <2>2. << >> \o << >> = << >>
    OBVIOUS
  <2> QED
    BY <2>1, <2>2, Zenon DEF Stages, CommandsOf
<1> HIDE DEF groups
<1>7. ASSUME NEW code, \E user : ReplyWith(r, code, user), groups = << >>,
             a.op = "submit" => code # 201, a.op = "cancel" => code # 204,
             a.op = "attach" /\ code = 204 => Client(a) = "rest"
      PROVE  EffectInv'
  <2>1. DOMAIN calls'[r] = {}
    BY <1>3, <1>7
  <2>2. Answered(r, code)
    BY <1>7 DEF Answered, ReplyWith
  <2>3. OnlyDropped(r)
    BY <1>3, <2>1 DEF OnlyDropped
  <2>4. Truthful(r, code)
    BY <1>2, <1>7, <2>1 DEF Truthful
  <2> HIDE DEF a
  <2> QED
    BY <2>2, <2>3, <2>4, AnswerIsTrue
<1>8. CASE Client(a) = "unsupported"
  <2>1. groups = << >> /\ ReplyWith(r, 501, space[bound[r]])
    BY <1>1, <1>6, <1>8 DEF Fail
  <2> QED
    BY <1>7, <2>1
<1>9. CASE Client(a) = "pbs" /\ a.op = "attach"
  <2>1. groups = << >> /\ ReplyWith(r, 500, space[Shared])
    BY <1>1, <1>5, <1>9 DEF FailOutside, Changing
  <2> QED
    BY <1>7, <1>9, <2>1
<1>10. CASE Client(a) # "unsupported" /\ ~(Client(a) = "pbs" /\ a.op = "attach") /\ groups = << >>
  <2>1. ReplyWith(r, SuccessCode(a.op), None)
    BY <1>1, <1>10 DEF Succeed
  <2>2. a.op \in Changing => a.op = "attach" /\ Client(a) = "rest"
    <3>1. \A cmd : << { cmd } >> # << >>
      OBVIOUS
    <3> QED
      BY <1>4, <1>5, <1>10, <3>1
  <2>3. /\ a.op = "submit" => SuccessCode(a.op) # 201
        /\ a.op = "cancel" => SuccessCode(a.op) # 204
        /\ a.op = "attach" /\ SuccessCode(a.op) = 204 => Client(a) = "rest"
    BY <2>2 DEF Changing
  <2> QED
    BY <1>7, <1>10, <2>1, <2>3
<1>11. CASE pc' = [pc EXCEPT ![r] = "calls"] /\ UNCHANGED reply
            /\ (a.op \in Changing => \E cmd \in Commands : groups = << { cmd } >>)
  <2>1. pc'[r] = "calls" /\ \A s \in Requests \ { r } : pc'[s] = pc[s]
    BY <1>11 DEF IdentityInv, SpaceInv
  <2>2. \A s \in Requests : (Nothing(s)' <=> Nothing(s)) /\ (Did(s)' <=> Did(s))
    BY DEF Nothing, Did
  <2>3. ASSUME NEW cmd \in Commands, groups = << { cmd } >>
        PROVE  DOMAIN calls'[r] = { cmd } /\ calls'[r][cmd] = Sent
    <3>1. UNION { groups[i] : i \in 1 .. Len(groups) } = { cmd }
      BY <2>3
    <3> QED
      BY <1>3, <3>1
  <2>4. TraceInv'
    BY <1>2, <1>3, <1>11, <2>1, <2>2, <2>3 DEF EffectInv, TraceInv
  <2>5. KnownInv'
    <3>1. ASSUME NEW s \in Requests, s # r
          PROVE  \A c : Known(s, calls[s][c]) => Known(s, calls[s][c])'
      BY <1>3, <2>2, <3>1 DEF Known
    <3>2. ASSUME NEW cmd \in Commands, calls'[r][cmd] = Sent PROVE Known(r, calls[r][cmd])'
      BY <3>2 DEF Known, Sent
    <3>3. ASSUME a.op \in Changing
          PROVE  \E cmd \in Commands : DOMAIN calls'[r] = { cmd } /\ Known(r, calls[r][cmd])'
      BY <1>11, <2>3, <3>2, <3>3
    <3>4. ASSUME NEW s \in Requests, s # r, pc'[s] = "calls", ask[s].op \in Changing
          PROVE  \E cmd \in Commands : DOMAIN calls'[s] = { cmd } /\ Known(s, calls[s][cmd])'
      <4>1. PICK cmd \in Commands : DOMAIN calls[s] = { cmd } /\ Known(s, calls[s][cmd])
        BY <2>1, <3>4 DEF EffectInv, KnownInv
      <4> QED
        BY <1>3, <3>1, <3>4, <4>1
    <3> QED
      BY <3>3, <3>4 DEF KnownInv
  <2>6. AnswerInv'
    <3>1. \A s \in Requests : Client(ask[s])' = Client(ask[s])
      BY DEF Client
    <3>2. \A s \in Requests \ { r } : calls'[s] = calls[s]
      BY <1>3
    <3> QED
      BY <1>2, <1>11, <2>1, <2>2, <3>1, <3>2 DEF EffectInv, AnswerInv, Refused
  <2> QED
    BY <2>4, <2>5, <2>6 DEF EffectInv
<1> QED
  BY <1>1, <1>5, <1>8, <1>9, <1>10, <1>11

\* A command that the client gives up may run yet, and one that did not go out never.
LEMMA GivingUpKeeps ==
    ASSUME IdentityInv, EffectInv, NEW r \in Requests, NEW cmd \in DOMAIN calls[r],
           NoConnection(r, cmd) \/ GiveUp(r, cmd)
    PROVE  EffectInv'
<1>1. Going(r, cmd) /\ UNCHANGED << pc, ask, reply, jobs, attached >>
  BY DEF NoConnection, GiveUp, web, cluster
<1>2. PICK gone \in { "unsent", "sent" },
           exc \in { "exception", "credentials", "lost", "timeout", "tooLong" } :
        SetCall(r, cmd, gone, exc)
  BY DEF NoConnection, GiveUp
<1>3. calls' = [calls EXCEPT ![r] = [@ EXCEPT ![cmd] = [at |-> gone, result |-> exc]]]
  BY <1>2 DEF SetCall
<1>4. /\ DOMAIN calls' = Requests /\ \A s \in Requests \ { r } : calls'[s] = calls[s]
      /\ DOMAIN calls'[r] = DOMAIN calls[r] /\ calls'[r][cmd] = [at |-> gone, result |-> exc]
      /\ \A c \in DOMAIN calls[r] : c # cmd => calls'[r][c] = calls[r][c]
  BY <1>3 DEF IdentityInv, ActingInv
<1>5. \A s \in Requests : (Nothing(s)' <=> Nothing(s)) /\ (Did(s)' <=> Did(s))
  BY <1>1 DEF Nothing, Did
<1>6. pc[r] = "calls" /\ calls[r][cmd].result = "waiting"
  BY <1>1 DEF Going
<1>7. ask[r].op \in Changing =>
        cmd \in Commands /\ DOMAIN calls[r] = { cmd } /\ calls[r][cmd].at = "sent" /\ Nothing(r)
  <2>1. SUFFICES ASSUME ask[r].op \in Changing
        PROVE cmd \in Commands /\ DOMAIN calls[r] = { cmd } /\ calls[r][cmd].at = "sent" /\ Nothing(r)
    OBVIOUS
  <2>2. PICK c \in Commands : DOMAIN calls[r] = { c } /\ Known(r, calls[r][c])
    BY <1>6, <2>1 DEF EffectInv, KnownInv
  <2>3. c = cmd /\ calls[r][cmd].at = "sent"
    BY <1>6, <2>2 DEF Known
  <2> QED
    BY <2>1, <2>2, <2>3 DEF EffectInv, TraceInv
<1>8. TraceInv'
  BY <1>1, <1>4, <1>5, <1>7 DEF EffectInv, TraceInv
<1>9. KnownInv'
  <2>1. ASSUME NEW s \in Requests, s # r
        PROVE  \A c : Known(s, calls[s][c]) => Known(s, calls[s][c])'
    BY <1>1, <1>4, <1>5, <2>1 DEF Known
  <2>2. calls'[r][cmd].result \notin { "quotaError", "value", "none", "waiting" }
    BY <1>2, <1>4
  <2>3. Known(r, calls[r][cmd])'
    BY <2>2 DEF Known
  <2> QED
    BY <1>1, <1>4, <1>7, <2>1, <2>3 DEF EffectInv, KnownInv
<1>10. AnswerInv'
  <2>1. \A s \in Requests : Client(ask[s])' = Client(ask[s])
    BY <1>1 DEF Client
  <2>2. reply[r].code = 0 /\ 0 \notin Refused
    BY <1>6 DEF EffectInv, AnswerInv, Refused
  <2> QED
    BY <1>1, <1>4, <1>5, <2>1, <2>2 DEF EffectInv, AnswerInv
<1> QED
  BY <1>8, <1>9, <1>10 DEF EffectInv

LEMMA ErrorCodes ==
    ASSUME NEW exc
    PROVE  /\ ErrorCode(exc) \in { 403, 413, 408, 424, 500 }
           /\ ErrorCode(exc) = 403 => exc = "quotaError"
<1>1. exc = "tooLong" => ErrorCode(exc) = 413
  BY Zenon DEF ErrorCode
<1>2. exc = "timeout" => ErrorCode(exc) = 408
  BY Zenon DEF ErrorCode
<1>3. exc = "lost" => ErrorCode(exc) = 424
  BY Zenon DEF ErrorCode
<1>4. exc = "quotaError" => ErrorCode(exc) = 403
  BY Zenon DEF ErrorCode
<1>5. exc \notin { "tooLong", "timeout", "lost", "quotaError" } => ErrorCode(exc) = 500
  BY Zenon DEF ErrorCode
<1> QED
  BY <1>1, <1>2, <1>3, <1>4, <1>5

\* The answer to what changes something tells of its one command.
LEMMA CollectKeeps ==
    ASSUME IdentityInv, EffectInv, NEW r \in Requests, Collect(r) PROVE EffectInv'
<1> DEFINE a == ask[r]
           returned == Returned(Client(a), a.op, Results(r))
           answer == Answer(a.op, returned)
<1>1. pc[r] = "calls" /\ UNCHANGED << ask, bound, space, acting, jobs, attached >>
  BY DEF Collect, cluster
<1>2. CASE UNCHANGED << pc, calls, reply >>
  <2>1. pc' = [pc EXCEPT ![r] = pc[r]]
    BY <1>2 DEF IdentityInv, SpaceInv
  <2> QED
    BY <1>1, <1>2, <2>1, MovingOn
<1>3. CASE /\ Finish(r, answer)
           /\ calls' = [calls EXCEPT ![r] =
                  [cmd \in { c \in DOMAIN @ : a.op \in Changing /\ @[c].at = "sent" } |-> @[cmd]]]
  <2> DEFINE code == IF answer.outside THEN 500 ELSE answer.code
  <2>1. \E user : ReplyWith(r, code, user)
    BY <1>3 DEF Finish, Fail, FailOutside, Succeed
  <2>2. /\ DOMAIN calls' = Requests /\ \A s \in Requests \ { r } : calls'[s] = calls[s]
        /\ DOMAIN calls'[r] = { c \in DOMAIN calls[r] : a.op \in Changing /\ calls[r][c].at = "sent" }
        /\ \A cmd \in DOMAIN calls'[r] : calls'[r][cmd] = calls[r][cmd]
    BY <1>3 DEF IdentityInv, ActingInv
  <2>3. /\ code \in Refused =>
               Nothing(r) /\ \A cmd \in DOMAIN calls'[r] : calls'[r][cmd].at # "sent"
        /\ ask[r].op = "submit" /\ code = 201 => Did(r)
        /\ ask[r].op = "cancel" /\ code = 204 => Did(r)
        /\ ask[r].op = "attach" /\ code = 204 => Did(r)
    <3>1. CASE a.op \notin Changing
      <4>1. Nothing(r)
        BY <3>1 DEF EffectInv, TraceInv, Nothing, Changing
      <4> QED
        BY <2>2, <3>1, <4>1 DEF Changing
    <3>2. CASE a.op \in Changing
      <4>1. PICK cmd \in Commands : DOMAIN calls[r] = { cmd } /\ Known(r, calls[r][cmd])
        BY <1>1, <3>2 DEF EffectInv, KnownInv
      <4>2. returned = calls[r][cmd].result
        <5>1. DOMAIN Results(r) = { cmd } /\ Results(r)[cmd] = calls[r][cmd].result
          BY <4>1 DEF Results
        <5>2. (CHOOSE c \in DOMAIN Results(r) : TRUE) = cmd
          BY <5>1
        <5> QED
          BY <3>2, <5>1, <5>2 DEF Returned, Changing
      <4> HIDE DEF returned
      <4>3. CASE returned = "value"
        <5>1. code = SuccessCode(a.op)
          BY <4>3 DEF Answer, Fine
        <5>2. SuccessCode(a.op) \in { 201, 204 } /\ Did(r)
          BY <3>2, <4>1, <4>2, <4>3 DEF SuccessCode, Changing, Known
        <5> QED
          BY <5>1, <5>2 DEF Refused
      <4>4. CASE returned = "none"
        <5>1. a.op = "submit"
          BY <4>1, <4>2, <4>4 DEF Known
        <5>2. code = 500
          BY <4>4, <5>1 DEF Answer
        <5> QED
          BY <5>2 DEF Refused
      <4>5. CASE returned \notin { "value", "none" }
        <5>1. code \in { 500, ErrorCode(returned) }
          BY <3>2, <4>5 DEF Answer, Fine, Wrapped, Changing
        <5>2. /\ ErrorCode(returned) \in { 403, 413, 408, 424, 500 }
              /\ ErrorCode(returned) = 403 => returned = "quotaError"
          BY ErrorCodes
        <5>3. returned = "quotaError" => Nothing(r) /\ calls[r][cmd].at = "ran"
          BY <4>1, <4>2 DEF Known
        <5> QED
          BY <2>2, <4>1, <5>1, <5>2, <5>3 DEF Refused
      <4> QED
        BY <4>3, <4>4, <4>5
    <3> QED
      BY <3>1, <3>2
  <2> HIDE DEF code
  <2>4. Answered(r, code)
    BY <1>1, <2>1 DEF Answered, ReplyWith
  <2>5. OnlyDropped(r)
    BY <2>2 DEF OnlyDropped
  <2>6. Truthful(r, code)
    BY <2>3 DEF Truthful
  <2> HIDE DEF a
  <2> QED
    BY <2>4, <2>5, <2>6, AnswerIsTrue
<1> QED
  BY <1>2, <1>3 DEF Collect

LEMMA EffectStep == IdentityInv /\ EffectInv /\ [Next]_vars => EffectInv'
<1> SUFFICES ASSUME IdentityInv, EffectInv, [Next]_vars PROVE EffectInv'
  OBVIOUS
<1>1. ASSUME NEW r \in Requests, Authenticate(r) PROVE EffectInv'
  <2>1. pc[r] = "auth" /\ UNCHANGED << ask, calls, jobs, attached >>
    BY <1>1 DEF Authenticate, cluster
  <2>2. CASE \E code \in { 400, 401, 403 } : Fail(r, code)
    BY <2>1, <2>2, EarlyAnswer
  <2>3. CASE \E where \in { "authorize", "depends" } :
               pc' = [pc EXCEPT ![r] = where] /\ UNCHANGED reply
    BY <2>1, <2>3, MovingOn
  <2> QED
    BY <1>1, <2>2, <2>3 DEF Authenticate, SetAuth
<1>2. ASSUME NEW r \in Requests, Authorize(r) PROVE EffectInv'
  <2>1. pc[r] = "authorize" /\ UNCHANGED << ask, calls, jobs, attached >>
    BY <1>2 DEF Authorize, cluster
  <2>2. CASE Fail(r, 401)
    BY <2>1, <2>2, EarlyAnswer
  <2>3. CASE pc' = [pc EXCEPT ![r] = "depends"] /\ UNCHANGED reply
    BY <2>1, <2>3, MovingOn
  <2> QED
    BY <1>2, <2>2, <2>3 DEF Authorize, SetAuth
<1>3. ASSUME NEW r \in Requests, Depend(r) PROVE EffectInv'
  <2>1. pc[r] = "depends" /\ UNCHANGED << ask, calls, jobs, attached >>
    BY <1>3 DEF Depend, cluster
  <2>2. CASE \E code \in { 404, 503 } : Fail(r, code)
    BY <2>1, <2>2, EarlyAnswer
  <2>3. CASE UNCHANGED << pc, reply >>
    <3>1. pc' = [pc EXCEPT ![r] = pc[r]]
      BY <2>3 DEF IdentityInv, SpaceInv
    <3> QED
      BY <2>1, <2>3, <3>1, MovingOn
  <2> QED
    BY <1>3, <2>2, <2>3 DEF Depend
<1>4. ASSUME NEW r \in Requests, Endpoint(r) PROVE EffectInv'
  <2>1. pc[r] = "depends" /\ UNCHANGED << ask, jobs, attached >>
    BY <1>4 DEF Endpoint, cluster
  <2>2. CASE (Fail(r, 400) \/ Succeed(r, 200)) /\ UNCHANGED calls
    BY <2>1, <2>2, EarlyAnswer
  <2>3. CASE Start(r)
    BY <2>1, <2>3, StartKeeps
  <2> QED
    BY <1>4, <2>2, <2>3 DEF Endpoint
<1>5. ASSUME UNCHANGED << pc, ask, calls, reply, attached >>, DOMAIN jobs' = DOMAIN jobs,
             \A s \in Requests : Did(s) => Did(s)'
      PROVE  EffectInv'
  <2>1. \A s \in Requests : Nothing(s)' <=> Nothing(s)
    BY <1>5 DEF Nothing
  <2>2. TraceInv'
    BY <1>5, <2>1 DEF EffectInv, TraceInv
  <2>3. KnownInv'
    <3>1. ASSUME NEW s \in Requests
          PROVE  \A c : Known(s, calls[s][c]) => Known(s, calls[s][c])'
      BY <1>5, <2>1 DEF Known
    <3> QED
      BY <1>5, <3>1 DEF EffectInv, KnownInv
  <2>4. AnswerInv'
    <3>1. \A s \in Requests : Client(ask[s])' = Client(ask[s])
      BY <1>5 DEF Client
    <3> QED
      BY <1>5, <2>1, <3>1 DEF EffectInv, AnswerInv
  <2> QED
    BY <2>2, <2>3, <2>4 DEF EffectInv
<1>6. CASE HealthChanges \/ UNCHANGED vars
  <2>1. UNCHANGED << pc, ask, calls, reply, jobs, attached >>
    BY <1>6 DEF HealthChanges, vars, web, cluster
  <2> QED
    BY <1>5, <2>1 DEF Did
<1>7. ASSUME NEW j \in Jobs, JobEnds(j) PROVE EffectInv'
  <2>1. /\ UNCHANGED << pc, ask, calls, reply, attached >>
        /\ jobs' = [jobs EXCEPT ![j].active = FALSE]
    BY <1>7 DEF JobEnds, web
  <2>2. jobs \in [DOMAIN jobs -> [owner : Users, active : BOOLEAN]]
    BY DEF IdentityInv, JobsInv
  <2>3. \A s \in Requests : Did(s) => Did(s)'
    BY <2>1, <2>2 DEF Did
  <2> QED
    BY <1>5, <2>1, <2>3
<1> QED
  BY <1>1, <1>2, <1>3, <1>4, <1>6, <1>7, ReceiveKeeps, CollectKeeps, RunsKeeps, GivingUpKeeps
  DEF Next, Serve

\* A request that was refused, by a check or for a quota, has done nothing at the
\* scheduler and will not (ServiceAvailabilityDependency, SlurmClient, Sbatch).
THEOREM RefusedIsHarmless == Spec => []RefusedLeavesNothing
<1>1. EffectInv => RefusedLeavesNothing
  BY DEF EffectInv, AnswerInv, Refused, RefusedLeavesNothing, Nothing
<1> QED
  BY <1>1, InitIdentity, IdentityStep, InitEffect, EffectStep, PTL DEF Spec

\* What a user is told was submitted, cancelled or started, was (parse_output() of
\* SbatchCommand, ScancelCommand and SrunCommand).
THEOREM SuccessIsTrue == Spec => []SuccessIsDone
<1>1. EffectInv => SuccessIsDone
  BY DEF EffectInv, AnswerInv, SuccessIsDone, Did
<1> QED
  BY <1>1, InitIdentity, IdentityStep, InitEffect, EffectStep, PTL DEF Spec

=============================================================================
