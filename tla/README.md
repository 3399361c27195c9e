# FirecREST v2: models, checks and proofs

FirecREST is a REST service in front of HPC clusters: a request is turned into
a command run through ssh, a call of the batch scheduler, or a job that moves a
file. This directory models the parts of it in which something other than
formatting can go wrong: what concurrent requests share, what runs in the
background, what requests and jobs do to one tree of files, what a failing or
late call leaves behind, and the programs that move files. Modules are TLA+,
checked with TLC on small instances. Properties of the connection pool, the
health gate, the job queries, the requests to the scheduler, the jobs on the tree of
files, the streamer, the job that sends a file to the store, and the upload through
S3 (as a refinement of an abstract delivery) are also proved with TLAPS, for every
value of the constants.

Paths below are relative to the repository.

## 1. Inventory

| Component | State it keeps | Operations | Hard about it |
|---|---|---|---|
| SSH connection pool, `src/lib/ssh_clients/ssh_client.py` | per cluster: `clients` (user to connection), `user_locks`, `execute_timeout`; per connection `last_used` | `get_client`, `execute`, `prune_connection_pool` | awaits between test and use; connections that close by themselves; a timer that closes what others use |
| Cluster health checker, `src/firecrest/status/health_check/` | `servicesHealth`, `last_health_check` of a cluster | `check` every `interval_check` seconds, with its checks side by side | one check failing, all failing; checks write to the users' pool |
| Service gate, `src/firecrest/dependencies.py` | none; reads `servicesHealth` | one decision per request | reads what another task replaces |
| Streamer, `src/firecrest-streamer/` | a server in a job, clients, a file | listen, send, receive, wait timeout | several clients, broken and half-closed connections, limits |
| S3 transfer requests, `src/lib/datatransfers/s3/` | a bucket per user, open multipart uploads | `upload`, `download` | several calls of other services, each of which may fail |
| S3 job scripts, `src/lib/datatransfers/scripts/` | part files, ETags, the target file | upload in parallel with one retry; poll and download by ranges | background jobs, exit codes nobody reads, polling |
| Slurm and PBS clients, `src/lib/scheduler_clients/` | none | submit, query, cancel; answers of two sources merged | the answers are of two moments, either may fail or be missing |
| Request context, `src/lib/request_vars.py`, `src/lib/helpers/api_auth_helper.py`, `src/firecrest/main.py` | a context variable, whose default is one object | a namespace per request, set by authentication, read by endpoints and error handlers | isolation of concurrent requests |
| Authentication and authorization, `src/lib/auth/` | the public keys | verify a token, ask OpenFGA | mapping of errors |
| File endpoints, `src/firecrest/filesystem/ops/` and its commands | none; the files of the cluster | one command per request, its output turned into an answer | commands of several steps on shared files; limits on time and output; a command that outlives its request |
| Transfer endpoints and their job scripts, `src/firecrest/filesystem/transfer/` | none; the files of the cluster | a look at the path, a job | the job runs long after the look; answers that are lost |
| Compute and status endpoints, `src/firecrest/compute/`, `src/firecrest/status/` | none | calls of the scheduler clients; liveness | a command whose answer is late or lost; which errors leave something behind |
| Credentials providers, configuration, handlers, logs, demo launcher | none that changes | HTTP requests, parsing, formatting | - |

How they interact. One process runs one asyncio event loop. A request passes
the middlewares and the authentication, then the gate of the service it needs,
then takes the cluster's one connection pool and runs its command, or gives the
command to a scheduler client that does so. Beside the requests, a scheduler in
the same loop runs a health check per cluster and prunes all pools every five
seconds. Transfers leave the process: the request prepares a bucket or a secret
and submits a job, and the job's script and the user's client meet at the store
(S3) or at each other (streamer).

What makes the components correct:

* pool: no connection is lost, no command runs as another user, requests end,
  connections are closed when unused and not while used, the limits mean
  something;
* health: the gate agrees with what was found, closes on what stays broken, and
  recovers;
* transfers: a file that was reported as transferred is the file; what was
  there before is not destroyed by a transfer that did not take place; limits
  hold; the jobs end;
* staging: every bucket expires its objects;
* queries: no job falls between two answers, and none is shown in a state it did
  not have;
* requests: an identity is never read by another request; a request that is
  refused has done nothing, one that succeeds has done what it says, and every
  one is answered;
* file operations: success means done, a refusal changes nothing that the command
  could have left alone, no answer exceeds the limit or shows another range than the
  documented one, and files change only by work that was asked for.

## 2. Modules

| Module | Models | Instances, proofs |
|---|---|---|
| `SSHPool` | the pool of one cluster, with requests of several users and the checks that share it | `SSHPoolMC`, `SSHPoolProofs` |
| `ClusterHealth` | checker and gate of one cluster | `ClusterHealthMC`, `ClusterHealthProofs` |
| `JobQuery` | one query of a Slurm client for a job, for all jobs or for metadata, while the jobs move on | `JobQueryProofs` |
| `SchedulerClients` | what each client sends for each operation, and what it makes of each answer (operators only) | extended by `Request` |
| `Request` | requests to the compute and status endpoints, from the middlewares to the answer | `RequestMC`, `RequestProofs` |
| `FileCommands` | the commands and job scripts as processes on one tree of files | extended by the next two |
| `FileOps` | the file endpoints: arguments, limits, answers | extended by `FileAccess` |
| `FileJobs` | the transfer endpoints: refusals, submission, the life of the job | extended by `FileAccess` |
| `FileAccess` | both, side by side on one tree, and the properties | `FileAccessMC`, `FileAccessProofs` |
| `Streamer` | server, clients and files of one transfer job | `StreamerMC`, `StreamerProofs` |
| `S3Staging` | transfer requests through S3, up to the submission of the job | instantiated by `S3Upload` |
| `S3Ingress` | the job that fetches a file from the store (a user's upload) | instantiated by `S3Upload` |
| `S3Upload` | an upload as a whole: `S3Staging`, the user's client, `S3Ingress` | `S3UploadMC`, `S3UploadProofs` |
| `Delivery` | abstract: what an upload promises | implemented by `S3Upload` |
| `S3Outgress` | the job that uploads a file to the store (a user's download) | `S3OutgressProofs` |

A definition called a *variant* in its comment is a version of the one below it
with a mistake in it. Nothing uses variants; they are there to show that the
properties notice such mistakes.

### SSHPool

State: `phase` says where each request is in `get_client()` and `execute()`;
`lock` and `clients` are the pool's dictionaries; `conn`, `proxy`, `idle` and
`limit` belong to the connection that a request opened, and are named by that
request, as each opens at most one. An action is what a coroutine does between
two awaits: `Reuse`, `Refuse` and `StartConnect` are the three ways through the
code from the lock to the first await; `GetKeys`, `ConnectProxy` and `Connect`
end the awaits that follow; `FailConnect` is any exception in them; `Complete`,
`TimeOut` and `LoseCommand` are the ends of a command. `Arrive` includes the
assignment of `execute_timeout` that the ssh and file system checks make.
`Prune` is the scheduled function, which has no await in it. Of asyncssh the
model has what the pool sees: a connection may drop at any time, and between
`close()` and the moment `is_closed()` is true there is a turn of the loop.

Assumed: asyncssh's behaviour just described; that the scheduler calls the
synchronous prune function on the event loop; that the wall clock only goes
forward. A connection's idle time is capped just above `IdleTimeout`, where
nothing tells values apart any more.

### JobQuery

State: Slurm itself (`truth`, the controller's memory `held`, and `ledger`, what the
database has recorded), one query with what it asks, the answer of each source
(`status`, `listed`), and the answer to the user (`result`, `reported`). `Answer` and
`Fail` are the ends of the commands or requests that `gather()` waits for, in any
order; `Reply` and `ReplyMetadata` are the code after it, which has no await.
`Merged` is the loop over the two answers that `SlurmCliClient` and
`SlurmRestClient` share; `Shown` and `QueueShows` are the filters of the commands
and of the REST client, which differ. The other variables are history: the states
a job had since the query began (`seen`), what the database knew at its begin
(`known`) and what it had old (`behind`), and what the controller had all the time
or at any time (`kept`, `met`).

Slurm is external: a job is forgotten only after its end, may be queued again as
long as it is not, and is recorded with a delay. A job's states are those the code
and the properties tell apart. The initial state is Slurm in any condition with a
query just begun; what happens later than the answer is of no concern, and
`MaxMoves` bounds what happens in between. Jobs outside the time window of
`get_jobs()` and the filters by account and name are left out: a job that does not
match is one the database has no record of, or that is not asked for.

### ClusterHealth

State: which backends are up and whether the identity provider answers (the
world), what the running check has found (`verdict`), `servicesHealth`, and
`found`, a history of the last check that was completed. The checks of
`gather()` end in any order; `Publish` replaces the list in one assignment;
`NoToken` is the path through the exception handler. The gate is an operator:
it has no await, so a request's decision is made in one state. Paths are
sequences of their components. `external_storage` is checked and published, and
no gate asks for it.

### SchedulerClients, Request

`SchedulerClients` has, for each client (Slurm by commands, Slurm by REST, PBS)
and each operation, the commands or HTTP requests it sends, the groups they are
sent in, and what is made of their answers: a value, nothing, or an exception.
An answer is one of seven kinds ("good", "empty", "garbled", "complains" and so
on), which is what the code tells apart. `Answer` follows each exception to the
handler that turns it into a status code.

`Request` runs them. An action is what a request does between two awaits:
`Receive` (the middlewares, `init_request_vars`), `Authenticate`, `Authorize`
(the authorization service), `Depend` (one gate at a time), `Endpoint` (the user
is read here, before the first await) and `Collect` (all answers of a group are
there). `space` is the context variable: a namespace per request, and one that
belongs to nobody, the default of the variable, which the handler of any other
exception reads because it runs outside. A command is sent, run by the scheduler or
not, and given up by its time limit, in any order: `Runs` may follow the answer to
the user. `HealthChanges` and `JobEnds` are the world.

What we met there, and what the model has because the code does: `cancel_job`
never returns `None`, so the 404 the endpoint keeps for it is never sent;
`attach_command` by REST does nothing and answers 204; PBS answers 200 with an
empty list for a job it does not know; partitions for which nothing comes back
make the response invalid, which is a 500 from outside the namespace; a refusal by
OpenFGA is a 403 that the same function catches and turns into 401.

### FileCommands, FileOps, FileJobs, FileAccess

State: `tree`, what is at each path of a small tree (files, directories, links,
archives; open or not; an inode each); `proc`, each request's or job's command:
what is left to do, its messages, what it printed, the inode it has open;
`answer`, `reply` and `job`, what the user and the scheduler say; `marks`, a
history of who changed the tree and who was disturbed.

`FileCommands` has the commands. `Begin` is their first step, `Continue` the next
one: an entry for rm, cp and tar, a byte for an upload, the listing after `&&` for
the others. Between two steps any other process may change the tree. A process may be
ended from outside at any point (`Dies`), and an upload may find that it cannot write,
once its redirection has emptied the file (`WriteFails`). The programs
are not in the repository: they are modelled from the options that the command
classes and scripts give them. `FileOps` has the endpoints around them: what is
refused beforehand, the limit on output (`OverLimit`), the end of a command
(`Finish`), the time limit after which it goes on unobserved (`ExecuteTimeout`), and
the lost connection. `Finish` gives a command that was ended by timeout(1), which
exits with 124, the code 408; one that was killed otherwise is judged by its messages
like any other, and without one that is a 500 (`base_command_with_timeout.py:17`).
`FileJobs` has the transfer endpoints: the refusals in their order, which differs from
endpoint to endpoint; the look at the path, for the streamer only; the submission,
whose answer may be lost; and the job, which runs the same processes later, and may be
killed. `FileAccess` puts both side by
side.

### Streamer

One job, several clients started with the same coordinates, for both values of
`--operation`. Messages carry their number instead of their bytes; whether a
message is the first, a chunk, or the closing one is what the code decides on.
The actions are the steps of `stream_send` and `stream_receive` between two
awaits, the handlers' closing of the server, the wait timeout, SIGTERM, a
client's interrupt, a broken connection, and a handshake that is not
completed. A receiver that finds the file there, or too much of it, first closes the
connection ("exists", "over") and returns in a step of its own ("declined",
"refused"), as there is an await between the two; the server exits when every
handler has returned. `websockets` is external: a connection ends with a close code and
delivers what was sent before.

### S3Staging, S3Ingress, S3Upload, Delivery

`S3Staging` has the calls of `upload()` and `download()` in their order. Each
may fail without effect (`Fail`), or have its effect and lose its answer (the
second disjunct of the others). Requests of one user share a bucket. `refuses`
says which of the two kinds of store this is.

`S3Ingress` is the whole of `job_s3_downloader.sh`. A file is the sequence of the
byte positions it was made from, so that repeated or exchanged bytes would show.
What may go wrong: the object is gone, a request fails, a body is cut short, the
disk is full, the job is killed.

`S3Upload` composes the two with the client, which is the example client of the
documentation (`docs/user_guide/file_transfer_dotnet`): it sends the parts, and
completes the upload if none failed. The job runs from its submission on, whether
or not the user has an answer. `Delivery` says what this is for, without calls or
parts: while the request is undecided or refused, and until the whole of the file is
in the store, what is at the target stays; it is replaced once, and what replaces it
are bytes of the file, each once, in order. `PromiseKept` is the refinement:
accepted is the request's answer, staged that the store has every byte, replaced
that the job has found the object, ended that it has exited or was killed.

### S3Outgress

`S3Outgress` is the whole of `job_s3_uploader_multipart.sh`. A file is the set
of its byte positions and a part a subset of them, which is enough to say what
is missing. `announced` is the size when the transfer was requested, `size` when
the job runs. `Failures` says what can go wrong: the disk (`dd` stops half way),
the network (an upload or its answer is lost), the job (killed).

In `S3Upload` and `S3Outgress`, `faulty` is chosen once, in the initial state: it
divides the behaviours into those in which anything may go wrong and those in which
nothing does, so that one run shows what holds in the former and what a transfer
promises in the latter.

## 3. Runs

Runs that pass:

| Run | Shows | Instance |
|---|---|---|
| `SSHPool` | types, no leak, own user, bounded excess, prune spares running commands, every request ends, every connection goes | 3 requests, 2 users (two requests of one user, one probe), pool of 1, idle 2, command 1, through a proxy |
| `ClusterHealth` | the gate agrees with the last completed check, for services and paths; it closes on what stays down, and the checker recovers | 2 services, a file system inside another and listed before it, paths in each and outside |
| `JobQuery` | active jobs and jobs known before are listed, waiting ones as waiting, states are recent, metadata are found where they are | 2 jobs, one of them the user's; all queries; Slurm in any initial condition, 4 changes during a query |
| `Request` | no identity leaks, refused requests leave nothing, success means done, every request is answered | 2 requests: one of any kind on five clusters (Slurm by commands, REST or both, PBS, one without probing), with and without mistakes in it; one that submits or cancels, of the same or another user |
| `FileAccess` | success means done, refusals change nothing but what cannot be undone, ranges are the documented ones, answers are within the limit, only what was asked for changes, the streamer replaces no file | any 2 of 2 requests and 2 jobs, about 60 requests and 20 jobs to choose from; 7 paths, 2 trees; output of at most 6 bytes |
| `Streamer` | files are initial parts, old files stay, when the job has ended nothing is left of what was over the limit, the job ends with its first transfer, both ends of every connection end | 2 clients, 2 chunks; uploads with limits 1 and 3, downloads |
| `S3Upload` | a bucket without lifecycle has a creator that is about to set it or has failed; what was counted is what was written; the upload implements `Delivery`; without failures buckets expire and the file arrives | 3 requests of one user (the upload, another one, a download), sizes 0, 1, 4, 5 in parts and ranges of 2, 2 polls, both kinds of store, with and without failures of every call |
| `S3Outgress` | only parts that failed are missing, no upload is repeated or runs beside the end, without failures the whole file arrives | sizes 0, 3, 5, 8, 13 at request and at run time, blocks of 2, parts of 4, batches of 2, with and without failures |

Why these bounds. The hazards of the pool need two requests of one user (for the
lock) and one of another that is a probe (for the limit of a pool of one, which
both users connecting exceed). A connection is idle for too long
after three ticks; a command of one tick can end, or time out, before, at and
after that. A job query needs two
changes to end and forget a job between two answers, and three to have it queued
again before that. For `Request`, a second request is what could write to the first
one's namespace, cancel its job, or be its other user; `MaxFlips` and `MaxFaults` let
the health of one service change once, and one command of each group fail other than
by time: two that fail are answered as the first of them is. The health
changes, and jobs end, only while that makes a difference to a request.
For `FileAccess`, `AtMost` lets two of the four actors start: a look or a step of one
between any two of the other is what its properties are about. The tree has one of
each kind of node, a link to a file, a directory that is shut in one of the two
initial trees, and room for a file to be made; the files are shorter and longer than the
limit of output, and one has a character of two bytes. Two clients of the streamer are
enough for one to close, exceed or create what the other uses; two chunks are over a
limit of 1 and within one of 3. Two requests of one user decide who creates
the bucket; sizes 1, 4 and 5 are below, at and above a multiple of the parts, and
give up to three of them; two polls are one that fails and a last one. Four parts in
batches of two give full batches, a last one that is not, and a part that fails in
the first of several batches.

Deadlock is not checked: each of these systems may stop (requests end, servers
close, scripts exit).

Runs in which TLC finds a violation, each of one statement that the code's own
documents or messages make:

| Run | Statement that fails | Where |
|---|---|---|
| `SSHPoolUserTimeout` | users' commands get the configured timeout | `health_check_ssh.py:29` |
| `StreamerEof` | the checksum validates the transfer | `streamer_core.py:180` |
| `S3OutgressMissing` | the object becomes accessible only when the transfer was successful | `job_s3_uploader_multipart.sh:249` |
| `FileAccessJobs` | the status of the job tells the user how the operation ended | `job_move.sh:19` and its siblings |

`PROJECT.json` quotes the statements and says what each counterexample does.

Where the passing properties stop. Several of them have a premise, or say less
than one would wish, because the code does not do more:

* `EveryConnectionGoes` speaks of the connections to the cluster. The one to the
  proxy belongs to no object: nothing closes it when the connection through it
  fails or is pruned (`ssh_client.py:296`).
* A connection's idle time is measured by the wall clock (`ssh_client.py:133`); the
  model's goes forward only. Set back, the clock keeps connections from being pruned.
* `GateFollowsCheck` holds `~CheckerFailed`: when the checker gets no token, its
  one entry of type "exception" matches no gate, and services found unhealthy are
  admitted until the next check (`health_checker_cluster.py:121`,
  `dependencies.py:166`).
* `PathFollowsItsFileSystem` needs file systems inside others to be configured before
  them (`InnerFirst` in `ClusterHealthProofs`): the first one that contains the path
  decides (`dependencies.py:142`), and nothing checks their order.
* `CommandsSpared` (section 5) has a hypothesis on the probes' timeouts that no
  code checks: a check assigns its timeout past the test in the constructor.
* `SuccessIsDone` of `Request` leaves out the REST client's `attach_command()`.
  `RefusedLeavesNothing` is about refusals; a request that timed out, or lost its
  connection, may have submitted its job, and says so nowhere.
* `SuccessIsDone` and `RefusedIsClean` of `FileAccess` are for requests that nobody
  disturbed. An answer of 408, 413 or 424 says nothing of the command, which goes on.
  `RefusedIsClean` is about 400, 403, 404 and 500, and allows for what the code cannot
  take back, or does not: rm, compress, extract and mkdir -p stop half way; an upload
  whose write fails, or that is killed, has truncated the file, and leaves an initial
  part of what was sent (`base64_command.py:29`); a command that is killed in the listing
  after `&&` has made its change; and a chmod that shuts a directory its own path leads
  through is reported as a refusal, and was done (`chmod_command.py:27`).
  What success says of an archive has two limits of tar's own: an archive packed into
  the directory that is its source leaves itself out (one that was there before is
  reported as changed while it was read), and unpacking gives back every member only
  if no two have one name, and the archive that was read only if no member replaces it.
* `RangesRight` takes the endpoints' documentation for what a range is
  (`RangeOf`: the first or last NUM, or the file without them). The code disagrees with
  it in two cases, which the run asks for and the property leaves out. A tail with
  `skipHeading` is documented as "the whole file, without the first NUM bytes/lines"
  (`ops/router.py:383`), and is done by `tail` with `+NUM`, which begins with the NUM-th
  and so drops NUM-1 (`tail_command.py:33`, 39): with the premise `~SkipsHeading` taken
  away, TLC finds a tail of a file of 3 bytes without its first 3 bytes that answers
  with the third. And a number of 0 is documented like any other ("the first NUM
  lines", `ops/router.py:231`), and taken for none (`head_command.py:36`): with the
  premise `~HasZero` taken away, a head of 0 lines answers with the file (it is
  cut after ten lines), and says that it ends at position 0. Negative numbers, which nothing refuses and no
  documentation explains, are not asked for. And the property is for text without
  characters of several bytes: head, tail and view cut bytes and decode afterwards, and
  view then counts characters.
* The position that a tail without arguments reports is 10 from the start, not from
  the end; positions are modelled, and no property is about them.
* `StreamerSparesFiles` says that the streamer replaces no file. wormhole and the job
  of an S3 upload remove what is at the target.
* `FilesAreInitialParts` does not say that a file reported as received is whole:
  after a proper close half way it is not (`streamer_core.py:202`).
* `NothingOfTooMuch` speaks of a job that ends by itself or by SIGTERM, which the server
  handles: killed without notice, between the test and the removal, it leaves its file.
  `JobEndsWithTransfer` says that a server with a transfer over the limit comes to its
  end. The property has no converse: the closing message counts as a chunk, so a
  source of exactly the limit is refused (`streamer_core.py:187`).
* `JobEndsWithTransfer` starts from a transfer: after a handshake that breaks off
  once the secret was accepted, nothing arms the wait timeout again
  (`streamer_server.py:54`), and the job waits for its time limit.
* `OnlyFailedPartsMissing` does not bound by what failed part files are replaced:
  the second loop uploads what a failed `dd` left (`job_s3_uploader_multipart.sh:81`).
* That no part is larger than `max_part_size` holds only if that is a multiple of the
  block size, as it is in the run: a part is rounded up to blocks after the
  comparison (line 216).
* `ReliableTransferSucceeds` of `S3Outgress` is checked with `use_split` off: with
  it on, the names of `split`'s files are not those that `upload_loop` looks for
  (line 208), and no part is uploaded.
* `FileArrives` has exits: an empty file gets no URL for a part, and no store
  completes an upload of no parts; a target that is a directory is refused; and a job
  whose polls run out ends with 0, the status of its last `sleep`, as if the file had
  come.
* `CountedIsWritten` excludes the bytes of `lost`: a body that is cut short counts
  with the length its headers announced (`job_s3_downloader.sh:49`). So `Delivery`
  promises bytes in order, not all of them.
* `BucketsExpire` has the premise `~faulty`: a bucket whose lifecycle could not be
  set never gets one, as later requests find the bucket there
  (`s3_datatransfer.py:98`). An upload that was opened and abandoned stays open: no
  code aborts one, and no rule of the bucket does.
* `ActiveIsListed` and `WaitingIsShown` have `Listable`: the REST client's `get_job()`
  drops the controller's entries of other users (`slurm_rest_client.py:209`), so
  such a job is shown as the database has it, or not found.
* `KnownIsListed` starts from the database's record: a job that the database has not
  heard of, and that ends between the two answers, is in neither.
* `MetadataFallsBack` asks for job and script from the same source. A comment says "if
  script info is not available, continue" (`slurm_cli_client.py:169`), but what is not
  a list has no length: if the script's command fails, as it does for a job without
  batch script, the query ends with an error.

## 4. Fairness

* `SSHPool`: the event loop runs what is ready, so every request inside
  `get_client()` proceeds; key service, connection and login have time limits
  (5 s, `connect_timeout`, `login_timeout`), so an await there ends, were it
  with a failure; prune is scheduled every 5 seconds; time passes. Not assumed:
  that a request arrives, that a command ends by itself (its time-out ends it),
  or that a connection drops. One weak fairness condition covers all that the
  loop does for one request: its steps follow each other, and a waiter that
  finds the lock taken waits for a holder whose own steps end.
  `asyncio.Lock` is fair to its waiters; the runs do not need it, as requests
  are finitely many.
* `ClusterHealth`: the interval trigger fires; each check ends. The latter is the
  code's for the ssh and file system checks (their commands have a time-out) and
  of the HTTP clients for the others, not of the timeouts configured for those,
  which are never used.
* `Request`: one weak fairness condition on "a request goes on, or gives up a call":
  the event loop runs what is ready, and every ssh command and HTTP request has a
  time limit. The scheduler is not assumed to answer; the authorization service
  answers or fails. One condition for all requests is enough, as each of their
  steps is taken once.
* `Streamer`: `ServerSpec` has the server's coroutines and timer run, and lets
  clients stall for ever. That the connected clients run, too, is a premise of
  `TransferEnds` only.
* `S3Upload`: each request goes on, each call is answered or fails (the S3 client
  has time-outs of its own), the client goes on, and the batch scheduler runs what was
  submitted.
* `S3Outgress`, and the job in `S3Upload`: a shell script runs on, and `curl`, `dd`
  and `cat` end, with or without success. Nothing in the scripts limits `curl`'s
  time; the store and TCP do.
* `JobQuery` and `FileAccess` have safety properties only, and no fairness.

## 5. Proofs

`SSHPoolProofs` proves, for all users, requests, limits and timeouts that meet
the assumptions of `SSHPool` (finite sets, a user for each request,
`CommandTimeout < IdleTimeout` as the constructor demands):

* `TypeCorrect`: `Spec => []TypeOK`.
* `NoLeak`: `Spec => []NoOrphanConnection`. The property is not inductive by
  itself: a state in which a connecting request's user already has an entry
  satisfies it, and the next step loses that entry. `PoolInv` adds what rules
  this out: `LockInv` (a lock is held exactly by the request connecting for that
  user) and `ClientInv` (an entry is a connection of its user; there is none
  while a request connects for that user). `PoolStep` shows that each action
  keeps the three together. This is the argument that the comment on
  `user_locks` in the source only sketches.
* `OwnUser`: `Spec => []RunsAsItsUser`, from `PoolInv` (entries belong to their
  user) and `RunInv` (a command runs on a connection that was established).
* `CommandsSpared`: if no probe is allowed `IdleTimeout` or more,
  `Spec => PruneSparesCommands`. `BudgetInv` says that what a connection has been
  idle plus what its command has left never exceeds the connection's timeout, which
  is below `IdleTimeout`: prune's test cannot hold while a command runs. The
  hypothesis is necessary, and nothing in the code checks it.
* `SoftLimit`: `Spec => []OvershootBounded`: the comment "max_clients is not a hard
  limit" made precise. Uses the cardinality theorems of the library.

`JobQueryProofs` proves, for all jobs, owners and bounds:

* `ActiveListed`, `KnownListed`, `WaitingShown` and `ReportedRecent`: `Spec =>
  []ActiveIsListed` and so on. These speak of the end of a query only and are not
  inductive. `IInv` adds what each answer holds from its moment on, in terms of the
  history: the controller's answer has every job that was active up to now, in a state
  it had (`CtlInv`); the database's has what it knew at the begin, in such a state or
  an old one (`AcctInv`); and Slurm forgets nothing active (`SlurmInv`). As histories
  only grow, later changes in Slurm keep this true (`MoveKeepsAnswers`), and the merge
  turns it into the four properties (`ReplyKeeps`). The order of the two answers is
  nowhere used.
* `MetadataFound`: `Spec => []MetadataFallsBack`. `MetaInv` adds that what the
  controller held at every moment since the begin is in its answer, that its answer has
  nothing it never held, and that the database's has what it knows, so that falling back
  from the one to the other loses no job that either could have told of.

`ClusterHealthProofs` proves, for all services, file systems and paths:

* `TypeCorrect`: `Spec => []TypeOK`.
* `GateAgrees`: `Spec => []GateFollowsCheck`, and `PathsAgree`: if inner file systems are
  configured before outer ones (`InnerFirst`), `Spec => []PathFollowsItsFileSystem`.
  `HealthInv` says that the published list is empty, or the one entry of a check that
  failed as a whole, or entry for entry what the last completed check found. The rest is
  about the list: `ChecksAre` says what is at each of its positions, `ServiceIsChecked`
  and `FileSystemIsChecked` that nothing before the right entry is about the same
  service or path, and `Decides` that the gate therefore reads that entry.

`RequestProofs` proves, for all users, requests, clusters and bounds:

* `OwnUserOnly`: `Spec => []OwnIdentity`. `SpaceInv`: each request that has arrived is
  bound to its own namespace; that holds its own user or nobody, and its own user from
  authentication on; the shared one holds nobody. `ActingInv`: what an endpoint works
  for is what it read there. `JobsInv`: a job's owner is the user of the request that
  submitted it, also when the command runs after the answer.
* `RefusedIsHarmless`: `Spec => []RefusedLeavesNothing`, and `SuccessIsTrue`: `Spec =>
  []SuccessIsDone`. `EffectInv` relates the three places that know of a request: the
  scheduler, the client's call and the reply. Before its one command ran a request left
  no trace (`TraceInv`; `OneCommand` says that each client sends at most one for what
  changes something); a call that returned a value had its effect, and one that ran
  into a quota had none (`KnownInv`, by how each parser reads each answer, `Reading`);
  and the status code follows from that (`AnswerInv`).

`FileAccessProofs` proves, for all requests, jobs, paths and limits, all trees whose
entries are in directories (`TreesAssumption`), and all contents of archives:

* `StaysRooted`: what is in the tree is always in directories of the tree, whatever
  removals, copies, extractions and moves do to it at the same time, an entry at a
  time. `RootedStep` has a case per command; the hardest is `mv`, which carries a
  whole subtree to another place in one step (`MovedRooted`).
* `OnlyWhatIsAsked`: `Spec => ChangesAreAsked`. `Aimed` says that what is left of a
  command that works under one of its paths is under that path; from there,
  `BeginChanges` and `ContinueChanges` say command by command where a first and a later
  step may change the tree, and `ActorSteps` that whoever takes such a step is at work.
* `RefusalsAreClean`: `Spec => []RefusedIsClean`. `Clean` relates what a process has
  changed to its messages: while nobody disturbs it, a command that has changed the
  tree has no message, and will find what it has left to list; `Short` is the upload
  that could not write. `Told` says that the code is that of the messages of a command
  that has ended, or was killed; `KilledIsDone`, with the `HalfDone` of the theorem
  below, that a command killed after its change has no more to do than list it, or was
  an upload; and `WrittenBegins` that what an upload has written by then is the
  beginning of what it was sent. `MarksInv` and `MovesMark` say what each step notes of
  who changed the tree.
* `NoMoreThanTheLimit`: `Spec => []WithinLimit`, whether the answer is what a command
  printed (less than the limit, or it is not answered with it), what was decoded from
  it (never more characters than bytes, `DecodeShortens`), or a piece cut from that.
* `RangesAreRight`: `Spec => []RangesRight`. Two invariants relate the answer to the
  tree: `Earned` (a 200 is what is made of a command that is over without messages) and
  `Saw` (such a command has read what is still there, if nobody interfered). The rest is
  about texts: as many lines begin up to a position as have ended before it, and one
  (`LinesUpTo`), so that the bytes kept by head or skipped by tail end where the next
  line begins (`KeptIsBefore`); a slice of the two blocks that dd reads is one of the file
  (`SliceOfSlice`); and a text of one-byte characters is what it is decoded to
  (`DecodeNarrow`).
* `SuccessIsComplete`: `Spec => []SuccessIsDone`. `HalfDone` says, for each command that
  changes the tree, what there is of its effect while it is at work: no entry but those
  left is there any more (`HasRemoved`), the target has the bytes written so far and is
  still open under the name it was asked for (`HasWritten`), the archive holds exactly the
  entries that are no longer left, each as it still is (`HasPacked`), and each member read
  is at its place or still left (`HasUnpacked`). `BeginDoes`, `ContinueDoes` and `EndsDone`
  go through the commands; a step that leaves no message keeps it, and with nothing left
  it is the whole effect. `Effective` and `ToldWhenOver` carry it to the answer, as long
  as nobody else changes the tree.
* `ReceiverReplacesNothing`: `Spec => StreamerSparesFiles`. The look at the target in
  the request and the creation by the job are steps of two moments, and the
  exclusive creation needs no help from the look.

They share one invariant, `TypeInv /\ ControlInv`. `TypeInv` says what nodes, processes
and answers may be; `BeginTyped` and `ContinueTyped` go through all commands.
`ControlInv` says which states of a request's process and answer, or of a job's process
and state, go together: who has not been answered yet, who may still be at work, and
that a job has a process only once it runs. Induction over numbers (the names of a path,
the positions of a text) goes through `Least` and `Induction`, which follow from the
library's theorem that the natural numbers are well-founded.

`StreamerProofs` proves, for all clients, files, limits and sizes:

* `InitialParts` and `OldStay`: `Spec => []FilesAreInitialParts` and
  `Spec => []OldFilesStay`. The invariant is `FilesInv`: two receivers that write have
  two targets, each of which its writer made (`WriterInv`: the exclusive creation), and
  a file has the chunks its receiver has taken, without the first message (`DataInv`).
* `NothingLeft`: `Spec => []NothingOfTooMuch`. `EndInv` follows the target from the
  refusal to the end of the job: once a receiver over the limit has returned, the file is
  gone, or there is a receiver that has made it since and is writing, over the limit
  itself, or has ended, well or not; and when the server is closed, every handler
  has returned, so that none is still to remove its file. `ReceiverMoves` and
  `ServerMoves` say what one step can do to a receiver, the file and the server,
  `EndStep` that each of them keeps the invariant.

`S3OutgressProofs` proves, for all sizes of the file (when it was announced and when
the job runs), blocks, parts and batches, and all failures:

* `OnlyFailedMissing`: `Spec => []OnlyFailedPartsMissing`. `OutgressInv` says that a part
  file, and a part in the store, is the slice of its number unless its `dd` failed
  (`CutInv`), and that a completed object has every slice that was listed (`ObjectInv`).
  `SlicesCover` is the arithmetic of the script, rounded up three times: the slices have
  no gap and reach the end of the file, whatever its size is by now.
* `SentOnce`: `Spec => NoResend`. What has an ETag has no part file any more, and the
  first loop has not come to it (`ETagInv`).

`S3UploadProofs` proves, for all users, requests, file sizes, parts and polls:

* `BucketsHaveOwners`: `Spec => []PlainIsPending`.
* `CountsWhatItWrites`: `Spec => []CountedIsWritten`. `CountInv` says what the target
  holds at each point of the script: before a range the bytes counted so far; between the
  fetch and the append those before the range, with what the part file lacks noted as
  lost.
* `DeliversAsPromised`: `Spec => PromiseKept`, that is `Spec => Promise!Spec`, the
  refinement of `Delivery`. The initial states map to initial states
  (`StartsAsPromised`) and each step to a step or a stutter (`StepsAsPromised`), given
  `UploadInv`: what the client has sent, or failed to send, are the parts up to the next
  one, and as many as the file needs are enough for it (`Ceiling`), so that what a
  completed upload stores is the file (`CompletedIsWhole`); the object is the stored
  file; and while the job is at work, the target has bytes up to `from`, in order, and
  the fetched part has those that follow (`AppendAscends`).

Each proof has one step per action. The chain for the pool is
`TypeStep`, `PoolStep`, `RunStep`, `BudgetStep`, `SpareStep`, `OvershootStep`, then
temporal logic.

Only model-checked:

* all liveness (`EveryRequestEnds`, `EveryConnectionGoes`, `GateCloses`,
  `CheckerRecovers`, `EveryRequestAnswered`, `JobEndsWithTransfer`, `TransferEnds`,
  `BucketsExpire`, `FileArrives`, `ReliableTransferSucceeds`): out of the prover's reach.

## 6. Not modelled

* Formatting and parsing of command lines, listings, responses, logs and configuration;
  owners, times and sizes in listings; the cryptography of tokens, whose verification is
  an outcome in `Request`; the HTTP requests of the credentials providers, which give
  keys or fail in `SSHPool`.
* The configuration and the demo launcher: the former's settings are the modules'
  constants, the latter is not part of the service.
* The liveness endpoint: it reads the age of the oldest check, and keeps nothing.
* wormhole, base64, tar, coreutils, `websockets`, asyncssh, the schedulers and the
  store: external, modelled as far as the code relies on them.
* How a client finds the URLs in the answer to an upload. The examples differ from the
  service here: the bash one reads `.partsUploadUrls` at the top of an answer in which it
  is in `transferDirectives`, and its `dd` takes whole MiB of `max_part_size`.
* Two S3 uploads to one target that both succeed (their jobs share part files and
  append to one file, so that their ranges mix), reads of the example client that come
  back short, answers of the store other than 206, 404, 416 and none.
* Links to directories in paths, moves between file systems, quotas. In `FileAccess` only
  an upload may find the disk full (and, in the S3 modules, the job's scripts).

`PROJECT.json` lists every component with its status, and under "hazards" what is hard
to test in this code, with the properties that cover it or the reason why none does.

## 7. Plan

What is left, in this order.

1. `ClusterHealth`: checks that hang (the timeouts configured for the storage and the
   scheduler are never used), the age of the last check and the liveness endpoint.
2. `Cluster`: composes `SSHPool` and `ClusterHealth`: checks as requests of the pool, the
   gate in front of it; a clock that jumps.
3. `AbstractPool`: a pool as its users see it (at most one connection per user, each
   command on a live or a lost one), which `SSHPool` is to implement by a refinement
   mapping, checked by TLC and then proved.
4. An upload with two jobs on one target, which shows what the scripts lack.
