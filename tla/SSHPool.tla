------------------------------- MODULE SSHPool -------------------------------
(***************************************************************************)
(* The SSH connection pool of one cluster: SSHClientPool and SSHClient of  *)
(* lib/ssh_clients/ssh_client.py, with the two health checks that share    *)
(* the pool with the users' requests.                                      *)
(*                                                                         *)
(* Everything runs on one asyncio event loop, so an action is the code a   *)
(* coroutine runs between two suspension points.  A request opens at most  *)
(* one connection to the cluster (and one to the proxy in front of it), so *)
(* a connection is named by the request that opened it.                    *)
(*                                                                         *)
(* Time is discrete and relative: idle[c] is time() - last_used of the     *)
(* connection, left[r] what remains of the asyncio.timeout of a running    *)
(* command.  asyncssh is external: only what the pool observes of it is    *)
(* modelled (a connection is open; closing between close() and the loop's  *)
(* clean-up callback; closed once is_closed() says so).                    *)
(***************************************************************************)
EXTENDS Naturals, FiniteSets

CONSTANTS
    Users,          \* user names found in tokens
    Requests,       \* requests that need the cluster; each runs one command
    Probes,         \* the requests that are ssh or filesystem health checks
    UserOf,         \* the user each request is authenticated as
    None,           \* no request, no connection
    MaxClients,     \* ssh.max_clients
    IdleTimeout,    \* ssh.timeout.idle_timeout
    CommandTimeout, \* ssh.timeout.command_execution
    ProbeTimeout,   \* probing.services[...].timeout of each probe
    HasProxy        \* ssh.proxy_host is set

ASSUME RequestsAssumption ==
    /\ IsFiniteSet(Users)
    /\ IsFiniteSet(Requests)
    /\ Probes \subseteq Requests
    /\ UserOf \in [Requests -> Users]
    /\ None \notin Requests

\* The constructor raises ValueError when idle_timeout <= execute_timeout.
ASSUME LimitsAssumption ==
    /\ MaxClients \in Nat
    /\ IdleTimeout \in Nat
    /\ CommandTimeout \in Nat
    /\ ProbeTimeout \in [Probes -> Nat]
    /\ CommandTimeout < IdleTimeout
    /\ HasProxy \in BOOLEAN

VARIABLES
    phase,          \* where each request is in get_client() and execute()
    lock,           \* user_locks: the request inside each user's lock
    clients,        \* clients: the connection pooled for each user
    conn,           \* the connection each request opened to the cluster
    proxy,          \* whether its connection to the proxy host is up
    using,          \* the connection get_client() yielded to each request
    idle,           \* time since last_used, capped just above IdleTimeout
    left,           \* time left to a running command
    limit,          \* SSHClient.execute_timeout of each connection
    execute_timeout,\* SSHClientPool.execute_timeout
    burst           \* history: most requests ever connecting at once

vars == << phase, lock, clients, conn, proxy, using, idle, left, limit,
           execute_timeout, burst >>

-----------------------------------------------------------------------------

Phases == {"new", "waiting", "keys", "proxying", "connecting", "executing",
           "done", "refused", "failed"}

\* Inside the lock and suspended: between the capacity check and the line
\* that registers the new client.
Connecting(r) == phase[r] \in {"keys", "proxying", "connecting"}

Connectors == {r \in Requests : Connecting(r)}

Finished(r) == phase[r] \in {"done", "refused", "failed"}

IsClosed(c) == conn[c] = "closed"

Pooled == {u \in Users : clients[u] # None}

\* len(self.clients) once the user's own closed client has been deleted
\* (or there was none): the number the capacity check looks at.
OthersPooled(u) == Cardinality(Pooled \ {u})

Idle == IdleTimeout + 1

IsIdle(c) == idle[c] > IdleTimeout

-----------------------------------------------------------------------------

Init ==
    /\ phase = [r \in Requests |-> "new"]
    /\ lock = [u \in Users |-> None]
    /\ clients = [u \in Users |-> None]
    /\ conn = [r \in Requests |-> "none"]
    /\ proxy = [r \in Requests |-> FALSE]
    /\ using = [r \in Requests |-> None]
    /\ idle = [r \in Requests |-> 0]
    /\ left = [r \in Requests |-> 0]
    /\ limit = [r \in Requests |-> 0]
    /\ execute_timeout = CommandTimeout
    /\ burst = 0

Goto(r, p) == phase' = [phase EXCEPT ![r] = p]

Release(r) == lock' = [lock EXCEPT ![UserOf[r]] = None]

\* A handler calls get_client().  The two probes that use the pool first
\* overwrite its execute_timeout with their own.
Arrive(r) ==
    /\ phase[r] = "new"
    /\ Goto(r, "waiting")
    /\ execute_timeout' = IF r \in Probes THEN ProbeTimeout[r] ELSE execute_timeout
    /\ UNCHANGED << lock, clients, conn, proxy, using, idle, left, limit, burst >>

HasLiveClient(u) == clients[u] # None /\ ~IsClosed(clients[u])

\* Variant: the client is yielded without reset_idle().
RunWithoutReset(r, c, timeout) ==
    /\ Goto(r, "executing")
    /\ using' = [using EXCEPT ![r] = c]
    /\ idle' = IF r = c THEN [idle EXCEPT ![c] = 0] ELSE idle
    /\ left' = [left EXCEPT ![r] = timeout]

\* reset_idle() and the start of execute(): no suspension in between.
Run(r, c, timeout) ==
    /\ Goto(r, "executing")
    /\ using' = [using EXCEPT ![r] = c]
    /\ idle' = [idle EXCEPT ![c] = 0]
    /\ left' = [left EXCEPT ![r] = timeout]

\* Variant: one client serves whoever comes.
ReuseAnyClient(r) ==
    \E u \in Users :
      LET c == clients[u] IN
      /\ phase[r] = "waiting"
      /\ lock[UserOf[r]] = None
      /\ HasLiveClient(u)
      /\ Run(r, c, limit[c])
      /\ UNCHANGED << lock, clients, conn, proxy, limit, execute_timeout, burst >>

\* The lock is free and the pool has a client that is not closed.
Reuse(r) ==
    LET c == clients[UserOf[r]] IN
    /\ phase[r] = "waiting"
    /\ lock[UserOf[r]] = None
    /\ HasLiveClient(UserOf[r])
    /\ Run(r, c, limit[c])
    /\ UNCHANGED << lock, clients, conn, proxy, limit, execute_timeout, burst >>

\* No client, or a closed one, which is deleted first; the pool is full.
Refuse(r) ==
    /\ phase[r] = "waiting"
    /\ lock[UserOf[r]] = None
    /\ ~HasLiveClient(UserOf[r])
    /\ OthersPooled(UserOf[r]) >= MaxClients
    /\ Goto(r, "refused")
    /\ clients' = [clients EXCEPT ![UserOf[r]] = None]
    /\ UNCHANGED << lock, conn, proxy, using, idle, left, limit, execute_timeout, burst >>

\* Variants: the lock is not looked at; the limit is off by one.
StartConnectUnlocked(r) ==
    /\ phase[r] = "waiting"
    /\ ~HasLiveClient(UserOf[r])
    /\ OthersPooled(UserOf[r]) < MaxClients
    /\ Goto(r, "keys")
    /\ lock' = [lock EXCEPT ![UserOf[r]] = r]
    /\ clients' = [clients EXCEPT ![UserOf[r]] = None]
    /\ burst' = IF Cardinality(Connectors) >= burst
                  THEN Cardinality(Connectors) + 1 ELSE burst
    /\ UNCHANGED << conn, proxy, using, idle, left, limit, execute_timeout >>

StartConnectOneMore(r) ==
    /\ phase[r] = "waiting"
    /\ lock[UserOf[r]] = None
    /\ ~HasLiveClient(UserOf[r])
    /\ OthersPooled(UserOf[r]) <= MaxClients
    /\ Goto(r, "keys")
    /\ lock' = [lock EXCEPT ![UserOf[r]] = r]
    /\ clients' = [clients EXCEPT ![UserOf[r]] = None]
    /\ burst' = IF Cardinality(Connectors) >= burst
                  THEN Cardinality(Connectors) + 1 ELSE burst
    /\ UNCHANGED << conn, proxy, using, idle, left, limit, execute_timeout >>

\* There is room: the request keeps the lock and awaits its credentials.
StartConnect(r) ==
    /\ phase[r] = "waiting"
    /\ lock[UserOf[r]] = None
    /\ ~HasLiveClient(UserOf[r])
    /\ OthersPooled(UserOf[r]) < MaxClients
    /\ Goto(r, "keys")
    /\ lock' = [lock EXCEPT ![UserOf[r]] = r]
    /\ clients' = [clients EXCEPT ![UserOf[r]] = None]
    /\ burst' = IF Cardinality(Connectors) >= burst
                  THEN Cardinality(Connectors) + 1 ELSE burst
    /\ UNCHANGED << conn, proxy, using, idle, left, limit, execute_timeout >>

\* get_conn_options() returns.
GetKeys(r) ==
    /\ phase[r] = "keys"
    /\ Goto(r, IF HasProxy THEN "proxying" ELSE "connecting")
    /\ UNCHANGED << lock, clients, conn, proxy, using, idle, left, limit,
                    execute_timeout, burst >>

\* asyncssh.connect() to the proxy host returns.
ConnectProxy(r) ==
    /\ phase[r] = "proxying"
    /\ Goto(r, "connecting")
    /\ proxy' = [proxy EXCEPT ![r] = TRUE]
    /\ UNCHANGED << lock, clients, conn, using, idle, left, limit, execute_timeout, burst >>

\* asyncssh.connect() to the cluster returns: build the client with the
\* pool's current timeout, register it, leave the lock, yield it.
Connect(r) ==
    /\ phase[r] = "connecting"
    /\ conn' = [conn EXCEPT ![r] = "open"]
    /\ limit' = [limit EXCEPT ![r] = execute_timeout]
    /\ clients' = [clients EXCEPT ![UserOf[r]] = r]
    /\ Release(r)
    /\ Run(r, r, execute_timeout)
    /\ UNCHANGED << proxy, execute_timeout, burst >>

\* Variant: an exception leaves the lock held.
FailConnectLocked(r) ==
    /\ Connecting(r)
    /\ Goto(r, "failed")
    /\ UNCHANGED << lock, clients, conn, proxy, using, idle, left, limit,
                    execute_timeout, burst >>

\* Any await inside the lock raises: a key service error, a time-out, a lost
\* connection, a refused login, a protocol error.  The lock is left; a proxy
\* connection that was already up stays up.
FailConnect(r) ==
    /\ Connecting(r)
    /\ Goto(r, "failed")
    /\ Release(r)
    /\ UNCHANGED << clients, conn, proxy, using, idle, left, limit, execute_timeout, burst >>

-----------------------------------------------------------------------------
(* execute(): one command, under asyncio.timeout(client.execute_timeout).   *)

Stop(r, p) ==
    /\ phase[r] = "executing"
    /\ Goto(r, p)
    /\ left' = [left EXCEPT ![r] = 0]
    /\ UNCHANGED << lock, clients, conn, proxy, using, idle, limit,
                    execute_timeout, burst >>

\* Output read within the limits; parse_output() returns.
Complete(r) == Stop(r, "done") /\ conn[using[r]] = "open"

\* asyncio.timeout fires; the command is terminated, the connection stays.
TimeOut(r) == Stop(r, "failed") /\ left[r] = 0

\* ChannelOpenError, ConnectionLost, ConnectionResetError: the connection
\* was closing or closed when the command started, or became so meanwhile.
LoseCommand(r) == Stop(r, "failed") /\ conn[using[r]] # "open"

-----------------------------------------------------------------------------

\* Variant: closed entries are removed, idle connections are not closed.
PruneClosedOnly ==
    /\ clients' = [u \in Users |-> IF HasLiveClient(u) THEN clients[u] ELSE None]
    /\ UNCHANGED << phase, lock, conn, proxy, using, idle, left, limit,
                    execute_timeout, burst >>

\* prune_connection_pool(): first close every idle client, then keep the
\* entries whose is_closed() is false.
Prune ==
    /\ conn' = [c \in Requests |->
                 IF /\ conn[c] = "open"
                    /\ clients[UserOf[c]] = c
                    /\ IsIdle(c)
                 THEN "closing" ELSE conn[c]]
    /\ clients' = [u \in Users |-> IF HasLiveClient(u) THEN clients[u] ELSE None]
    /\ UNCHANGED << phase, lock, proxy, using, idle, left, limit, execute_timeout, burst >>

\* The connection is gone, and its last_used with it.
Close(c) ==
    /\ conn' = [conn EXCEPT ![c] = "closed"]
    /\ idle' = [idle EXCEPT ![c] = 0]
    /\ UNCHANGED << phase, lock, clients, proxy, using, left, limit,
                    execute_timeout, burst >>

\* asyncssh's clean-up callback runs, some time after close().
CleanUp(c) == conn[c] = "closing" /\ Close(c)

\* The cluster or the network drops the connection, or keep-alive gives up.
Drop(c) == conn[c] = "open" /\ Close(c)

\* Variant: no timer stops a command that is out of time.
TickRegardless ==
    /\ idle' = [c \in Requests |->
                 IF conn[c] = "open" /\ idle[c] < Idle THEN idle[c] + 1 ELSE idle[c]]
    /\ left' = [r \in Requests |->
                 IF phase[r] = "executing" THEN left[r] - 1 ELSE left[r]]
    /\ UNCHANGED << phase, lock, clients, conn, proxy, using, limit, execute_timeout, burst >>

\* A second passes.  A timer that is due fires before the next second does.
Tick ==
    /\ \A r \in Requests : phase[r] = "executing" => left[r] > 0
    /\ idle' = [c \in Requests |->
                 IF conn[c] = "open" /\ idle[c] < Idle THEN idle[c] + 1 ELSE idle[c]]
    /\ left' = [r \in Requests |->
                 IF phase[r] = "executing" THEN left[r] - 1 ELSE left[r]]
    /\ UNCHANGED << phase, lock, clients, conn, proxy, using, limit, execute_timeout, burst >>

\* The proxy host drops its connection, and the tunnel through it.
DropProxy(c) ==
    /\ proxy[c]
    /\ proxy' = [proxy EXCEPT ![c] = FALSE]
    /\ conn' = [conn EXCEPT ![c] = IF @ = "none" THEN "none" ELSE "closed"]
    /\ idle' = [idle EXCEPT ![c] = 0]
    /\ UNCHANGED << phase, lock, clients, using, left, limit, execute_timeout, burst >>

\* What the event loop goes on to do for a request that was accepted.
Proceed(r) ==
    \/ Reuse(r) \/ Refuse(r) \/ StartConnect(r)
    \/ GetKeys(r) \/ ConnectProxy(r) \/ Connect(r) \/ FailConnect(r)
    \/ TimeOut(r) \/ LoseCommand(r)

Next ==
    \/ \E r \in Requests : Arrive(r) \/ Proceed(r) \/ Complete(r)
    \/ \E c \in Requests : CleanUp(c) \/ Drop(c) \/ DropProxy(c)
    \/ Prune
    \/ Tick

Spec == Init /\ [][Next]_vars

\* The loop runs what is ready; asyncssh and the key service answer or time
\* out (connect_timeout, login_timeout, 5 s); the scheduler prunes every 5 s;
\* time passes.  Nothing says that a request arrives, that a command ends by
\* itself or that a connection drops.
Fairness ==
    /\ \A r \in Requests : WF_vars(Proceed(r)) /\ WF_vars(CleanUp(r))
    /\ WF_vars(Prune)
    /\ WF_vars(Tick)

LiveSpec == Spec /\ Fairness

-----------------------------------------------------------------------------
(* Properties.                                                              *)

TypeOK ==
    /\ phase \in [Requests -> Phases]
    /\ lock \in [Users -> Requests \cup {None}]
    /\ clients \in [Users -> Requests \cup {None}]
    /\ conn \in [Requests -> {"none", "open", "closing", "closed"}]
    /\ proxy \in [Requests -> BOOLEAN]
    /\ using \in [Requests -> Requests \cup {None}]
    /\ idle \in [Requests -> 0 .. Idle]
    /\ left \in [Requests -> Nat]
    /\ limit \in [Requests -> Nat]
    /\ execute_timeout \in Nat
    /\ burst \in Nat

\* A connection that is not closed is the pooled connection of its user: no
\* interleaving of get_client() and prune leaks a connection that nothing
\* will ever close, or opens a second one for the same user (the comment on
\* user_locks fears exactly "a leak of an entry in self.clients").
NoOrphanConnection ==
    \A c \in Requests : conn[c] \in {"open", "closing"} => clients[UserOf[c]] = c

\* A command runs on a connection that was authenticated with the
\* credentials of the request's own user, whoever opened it.
RunsAsItsUser ==
    \A r \in Requests : phase[r] = "executing" =>
        using[r] # None /\ UserOf[using[r]] = UserOf[r]

\* max_clients is not hard, but what exceeds it is bounded: the pool and the
\* requests still connecting never exceed the limit by more than the largest
\* number of requests that ever were connecting at the same time, less one.
OvershootBounded ==
    burst > 0 => Cardinality(Pooled) + Cardinality(Connectors) <= MaxClients + burst - 1

\* What the constructor's check of the timeouts is for: last_used is set when
\* the client is yielded and never while the command runs, and still prune
\* closes no connection that a command is running on.
PruneSparesCommands ==
    [][ \A r \in Requests :
          phase[r] = "executing" /\ phase'[r] = "executing" /\ conn[using[r]] = "open"
             => conn'[using[r]] # "closing" ]_vars

\* A request that asked for a client gets one or is told why not, and its
\* command ends: no lock is held for ever and no waiter is forgotten.
EveryRequestEnds == \A r \in Requests : phase[r] = "waiting" ~> Finished(r)

\* No connection outlives its use: once requests stop coming, it is closed
\* and its entry leaves the pool ("Max idle time before disconnecting").
EveryConnectionGoes ==
    \A c \in Requests : conn[c] = "open" ~> IsClosed(c) /\ clients[UserOf[c]] # c

\* The timeouts as the documentation has them.

\* "Timeout (seconds) for executing commands over SSH."  (SSHTimeouts)
UsersGetConfiguredTimeout ==
    \A r \in Requests \ Probes :
        phase[r] = "executing" => limit[using[r]] = CommandTimeout

-----------------------------------------------------------------------------
(* The inductive invariants the proofs in SSHPoolProofs rest on.            *)

\* A lock is held exactly by the request connecting for that user.
LockInv ==
    /\ \A u \in Users : lock[u] # None => Connecting(lock[u]) /\ UserOf[lock[u]] = u
    /\ \A r \in Requests : Connecting(r) => lock[UserOf[r]] = r

\* The entry of a user is a connection of that user; there is none while a
\* request connects for it, and a request that has not connected has none.
ClientInv ==
    /\ \A u \in Users : clients[u] # None => /\ UserOf[clients[u]] = u
                                            /\ conn[clients[u]] # "none"
    /\ \A r \in Requests : Connecting(r) => clients[UserOf[r]] = None
    /\ \A r \in Requests : phase[r] \in {"new", "waiting"} \/ Connecting(r)
                               => conn[r] = "none"

PoolInv == LockInv /\ ClientInv /\ NoOrphanConnection

\* A command runs on a connection that was established.
RunInv ==
    \A r \in Requests : phase[r] = "executing" =>
        using[r] # None /\ conn[using[r]] # "none"

\* A connection has been idle for no longer than its running commands run.
BudgetInv ==
    /\ execute_timeout < IdleTimeout
    /\ \A c \in Requests : conn[c] # "none" => limit[c] < IdleTimeout
    /\ \A r \in Requests : phase[r] = "executing" /\ conn[using[r]] = "open"
                               => idle[using[r]] + left[r] <= limit[using[r]]

=============================================================================
