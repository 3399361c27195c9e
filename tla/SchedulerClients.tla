-------------------------- MODULE SchedulerClients --------------------------
(***************************************************************************)
(* What the clients for Slurm (SlurmClient, SlurmCliClient and             *)
(* SlurmRestClient) and for PBS (PbsClient) send to a scheduler for each   *)
(* operation, what they make of each answer, and what becomes of the       *)
(* request that asked.  Operators only: module Request runs them.          *)
(*                                                                         *)
(* An answer of a scheduler is one of                                      *)
(*   "good"       what was asked for                                       *)
(*   "empty"      success, with nothing in it                              *)
(*   "garbled"    success, with something else in it                       *)
(*   "complains"  exit status 0, but an error on stderr                    *)
(*   "quota"      an error that names a limit of an account or a QOS       *)
(*   "absent"     there is no such thing (404)                             *)
(*   "failed"     any other exit or HTTP status                            *)
(* and what the client makes of it is "value", "none" (Python's None) or   *)
(* the exception it raises, see ErrorCode.                                 *)
(***************************************************************************)
EXTENDS Naturals, Sequences

\* status/router.py catches everything that these raise.
Wrapped == { "nodes", "reservations", "partitions", "userinfo" }
ComputeOps == { "submit", "jobs", "job", "metadata", "attach", "cancel" }

-----------------------------------------------------------------------------
(* Which client, and which commands.                                        *)

\* A client through ssh gets a pool of connections: PBS, and Slurm unless its
\* connection_mode is "rest".
ViaSsh(sys) == sys.kind = "pbs" \/ sys.mode # "rest"

\* SlurmClient: what only the commands can do is refused without them.
ClientFor(sys, a) ==
    LET cliOnly == a.op = "metadata" \/ (a.op = "submit" /\ a.byPath)
    IN  CASE sys.kind = "pbs" -> "pbs"
          [] sys.kind = "slurm" /\ cliOnly -> IF ViaSsh(sys) THEN "cli" ELSE "unsupported"
          [] OTHER -> IF sys.mode = "ssh" THEN "cli" ELSE "rest"

CliCommands(op, recent) ==
    CASE op = "submit" -> { "sbatch" }
      [] op = "attach" -> { "srun" }
      [] op \in { "job", "jobs" } -> { "sacct", "squeue" }
      [] op = "metadata" -> { "scontrol job", "scontrol script" }
                            \cup IF recent THEN { "sacct job", "sacct script" } ELSE {}
      [] op = "cancel" -> { "scancel" }
      [] op = "nodes" -> { "sinfo" }
      [] op = "reservations" -> { "scontrol reservations" }
      [] op = "partitions" -> { "scontrol partitions" }
      [] op = "userinfo" -> { "sacctmgr", "sacctmgr default" }

\* attach_command() of SlurmRestClient does nothing.
RestCommands(op) ==
    CASE op = "submit" -> { "POST job" }
      [] op = "cancel" -> { "DELETE job" }
      [] op \in { "job", "jobs" } -> { "GET slurmdb", "GET slurm" }
      [] op = "nodes" -> { "GET nodes" }
      [] op = "reservations" -> { "GET reservations" }
      [] op = "partitions" -> { "GET partitions" }
      [] op = "userinfo" -> { "GET associations" }
      [] op = "attach" -> {}

\* get_accounts() of PbsClient asks nobody; attach_command() is not implemented.
PbsCommands(op) ==
    CASE op = "submit" -> { "qsub" }
      [] op = "cancel" -> { "qdel" }
      [] op \in { "job", "jobs" } -> { "qstat" }
      [] op = "metadata" -> { "qstat job" }
      [] op = "nodes" -> { "pbsnodes" }
      [] op = "reservations" -> { "pbs_rstat" }
      [] op = "partitions" -> { "qstat -Q" }
      [] op \in { "userinfo", "attach" } -> {}

CommandsOf(client, op, recent) ==
    CASE client = "cli" -> CliCommands(op, recent)
      [] client = "rest" -> RestCommands(op)
      [] client = "pbs" -> PbsCommands(op)
      [] client = "unsupported" -> {}

\* One group of commands is sent when the one before it is answered.
Stages(client, op, recent) ==
    LET cmds == CommandsOf(client, op, recent)
    IN  (IF cmds = {} THEN << >> ELSE << cmds >>)
        \o (IF op = "userinfo" THEN << { "id" } >> ELSE << >>)

Http == { "POST job", "DELETE job", "GET slurmdb", "GET slurm", "GET nodes",
          "GET reservations", "GET partitions", "GET associations" }

-----------------------------------------------------------------------------
(* What a client makes of the answer to a command.                          *)

\* Most tell success from failure by the exit or HTTP status alone; they differ in
\* what they make of a success with nothing, or something else, in it.
Read(said, empty, garbled) ==
    CASE said = "good" -> "value"
      [] said = "empty" -> empty
      [] said = "garbled" -> garbled
      [] OTHER -> "schedulerError"

\* parse_output() of Slurm's commands.  squeue's is that of sacct.
Sbatch(said) == IF said = "quota" THEN "quotaError" ELSE Read(said, "none", "none")
Srun(said) == Read(said, "none", "none")
Sacct(said) == IF said = "absent" THEN "none" ELSE Read(said, "none", "none")
SacctJobMetadata(said) == Read(said, "none", "none")
SacctBatchScript(said) == Read(said, "none", "none")
ScontrolJob(said) == IF said = "absent" THEN "none" ELSE Read(said, "none", "value")
ScontrolBatchScript(said) == Read(said, "value", "value")
Sinfo(said) == Read(said, "none", "none")
ScontrolReservation(said) == Read(said, "value", "exception")
ScontrolPartition(said) == Read(said, "none", "exception")
SacctmgrAccounts(said) == Read(said, "none", "value")
SacctmgrDefaultAccount(said) == Read(said, "none", "value")

\* Variant: scancel is believed when its exit status is 0.
ExitStatusOnly(said) == IF said = "failed" THEN "schedulerError" ELSE "value"

\* scancel ends with 0 although it complains.
Scancel(said) == IF said = "complains" THEN "schedulerError" ELSE Read(said, "value", "value")

\* parse_output() of the commands for PBS: what is not JSON is an error of the
\* scheduler; a key that is not there an AttributeError, but for jobs.
Qsub(said) == Read(said, "none", "none")
Qdel(said) == Read(said, "value", "value")
Qstat(said) == Read(said, "value", "schedulerError")
QstatJobMetadata(said) == Read(said, "value", "schedulerError")
Pbsnodes(said) == Read(said, "exception", "schedulerError")
PbsPartitions(said) == Read(said, "exception", "schedulerError")
RstatReservations(said) == Read(said, "value", "exception")

\* The methods of SlurmRestClient: any status but 200 is an error, except the 404
\* for one job; what is not JSON an exception.
PostJob(said) == Read(said, "none", "exception")
DeleteJob(said) == Read(said, "value", "value")
GetJob(said) == IF said = "absent" THEN "none" ELSE Read(said, "none", "exception")
GetJobs(said) == Read(said, "value", "exception")
GetNodes(said) == Read(said, "none", "exception")
GetReservations(said) == Read(said, "value", "exception")
GetPartitions(said) == Read(said, "value", "exception")
GetAssociations(said) == Read(said, "none", "exception")

\* id goes through BaseCommandErrorHandling, which raises HTTPException.
Id(said) == IF said \in { "good", "empty", "garbled" } THEN "value" ELSE "httpError"

Parse(cmd, op, said) ==
    CASE cmd = "sbatch" -> Sbatch(said)
      [] cmd = "srun" -> Srun(said)
      [] cmd = "scancel" -> Scancel(said)
      [] cmd \in { "sacct", "squeue" } -> Sacct(said)
      [] cmd = "sacct job" -> SacctJobMetadata(said)
      [] cmd = "sacct script" -> SacctBatchScript(said)
      [] cmd = "scontrol job" -> ScontrolJob(said)
      [] cmd = "scontrol script" -> ScontrolBatchScript(said)
      [] cmd = "sinfo" -> Sinfo(said)
      [] cmd = "scontrol reservations" -> ScontrolReservation(said)
      [] cmd = "scontrol partitions" -> ScontrolPartition(said)
      [] cmd = "sacctmgr" -> SacctmgrAccounts(said)
      [] cmd = "sacctmgr default" -> SacctmgrDefaultAccount(said)
      [] cmd = "qsub" -> Qsub(said)
      [] cmd = "qdel" -> Qdel(said)
      [] cmd = "qstat" -> Qstat(said)
      [] cmd = "qstat job" -> QstatJobMetadata(said)
      [] cmd = "pbsnodes" -> Pbsnodes(said)
      [] cmd = "qstat -Q" -> PbsPartitions(said)
      [] cmd = "pbs_rstat" -> RstatReservations(said)
      [] cmd = "POST job" -> PostJob(said)
      [] cmd = "DELETE job" -> DeleteJob(said)
      [] cmd \in { "GET slurmdb", "GET slurm" } -> IF op = "job" THEN GetJob(said) ELSE GetJobs(said)
      [] cmd = "GET nodes" -> GetNodes(said)
      [] cmd = "GET reservations" -> GetReservations(said)
      [] cmd = "GET partitions" -> GetPartitions(said)
      [] cmd = "GET associations" -> GetAssociations(said)
      [] cmd = "id" -> Id(said)

-----------------------------------------------------------------------------
(* What becomes of the request.                                             *)

\* Variant: a lost connection is reported as an unavailable service.
LostIsUnavailable(exc) == IF exc = "lost" THEN 503 ELSE 500

\* build_http_error_from_exception()
ErrorCode(exc) ==
    CASE exc = "quotaError" -> 403
      [] exc = "tooLong" -> 413
      [] exc = "timeout" -> 408
      [] exc = "lost" -> 424
      [] OTHER -> 500

\* Which of them are answered outside the namespace of their request: there is
\* no handler for them but the one for any exception.
Outside(exc) == exc = "exception"

Fine(result) == result \in { "value", "none" }

\* get_job(), get_jobs() and get_accounts() gather two results.
Gathered(client, op, results) ==
    LET two == IF client = "rest" THEN << "GET slurmdb", "GET slurm" >> ELSE << "sacct", "squeue" >>
        bad == { i \in 1 .. 2 : ~Fine(results[two[i]]) }
    IN  IF bad = {} THEN IF \E i \in 1 .. 2 : results[two[i]] = "value" THEN "value" ELSE "none"
        ELSE IF client = "cli" \/ op = "jobs" THEN "schedulerError"
        ELSE results[two[IF 1 \in bad THEN 1 ELSE 2]]

\* get_job_metadata() of SlurmCliClient falls back to sacct, and returns the
\* exception it finds, which is no valid response; without a script there is no
\* length to compare.
Metadata(results) ==
    LET useSacct == results["scontrol job"] # "value" /\ "sacct job" \in DOMAIN results
        main == results[IF useSacct THEN "sacct job" ELSE "scontrol job"]
        script == results[IF useSacct THEN "sacct script" ELSE "scontrol script"]
    IN  IF main = "value" THEN IF script = "value" THEN "value" ELSE "exception"
        ELSE IF main = "none" THEN "none" ELSE "exception"

\* The default account is only looked up.
Accounts(client, results) ==
    CASE client = "cli" -> IF Fine(results["sacctmgr"]) THEN "value" ELSE "schedulerError"
      [] client = "rest" -> results["GET associations"]
      [] client = "pbs" -> "value"

\* What the client returns or raises when the results of a group are there.
Returned(client, op, results) ==
    CASE op \in { "job", "jobs" } /\ client # "pbs" -> Gathered(client, op, results)
      [] op = "metadata" /\ client = "cli" -> Metadata(results)
      [] op = "userinfo" -> IF ~Fine(Accounts(client, results)) THEN Accounts(client, results)
                            ELSE results["id"]
      [] OTHER -> IF DOMAIN results = {} THEN "value"
                  ELSE results[CHOOSE cmd \in DOMAIN results : TRUE]

SuccessCode(op) ==
    CASE op = "submit" -> 201
      [] op \in { "attach", "cancel" } -> 204
      [] OTHER -> 200

\* The endpoint: the status code, and whether the answer is made outside.
Answer(op, returned) ==
    CASE returned = "value" -> [code |-> SuccessCode(op), outside |-> FALSE]
      [] returned = "none" /\ op \in { "job", "metadata", "cancel" } -> [code |-> 404, outside |-> FALSE]
      [] returned = "none" /\ op \in { "submit", "nodes" } -> [code |-> 500, outside |-> FALSE]
      [] returned = "none" /\ op = "partitions" -> [code |-> 500, outside |-> TRUE]
      [] returned = "none" /\ op \in { "jobs", "attach", "reservations", "userinfo" } ->
            [code |-> SuccessCode(op), outside |-> FALSE]
      [] ~Fine(returned) /\ op \in Wrapped -> [code |-> 500, outside |-> FALSE]
      [] OTHER -> [code |-> ErrorCode(returned), outside |-> Outside(returned)]

=============================================================================
