------------------------------ MODULE FileJobs ------------------------------
(***************************************************************************)
(* The transfer endpoints (filesystem/transfer/router.py) and their jobs.  *)
(* A request checks the configuration and its arguments, for a transfer by *)
(* the streamer looks at the path over SSH, writes a job script and gives  *)
(* it to the scheduler; the job runs later, on the same tree of files.     *)
(* The answer of the scheduler, or the one to the client, may be lost: the *)
(* job is queued all the same, and the user may repeat the request.        *)
(***************************************************************************)
EXTENDS FileCommands

CONSTANTS
    Jobs,          \* requests to the transfer endpoints, with the job of each
    NoWorkDir,     \* systems without a file system that is default_work_dir
    NeedAccount,   \* systems with "{account}" among their job directives
    Method         \* Method[s]: the data transfer service of system s

ASSUME JobsAssumption == Jobs \subseteq Actors

VARIABLES
    reply,   \* the status code of each request: 0 before it is sent, 1 while
             \* it waits
    job      \* its job: "none", "stat" (the path is looked at), "asked",
             \* "queued", "running", "COMPLETED", "FAILED"

jobVars == << reply, job >>

Transfers == { "receive", "send", "wormhole receive", "wormhole send" }

\* transfer_method of the request; only the names are compared.
MethodOf(a) == IF a.op \in { "receive", "send" } THEN "streamer" ELSE "wormhole"

\* _format_directives()
LacksAccount(a) == a.site \in NeedAccount /\ ~a.account

\* DataTransferDependency and post_upload, post_download: the dependency runs
\* before the endpoint, the directives are written after its check.
TransferRefused(a) ==
    CASE a.site \in NoWorkDir -> 500
      [] a.site \notin NoWorkDir /\ MethodOf(a) # Method[a.site] -> 400
      [] OTHER -> IF LacksAccount(a) THEN 400 ELSE 0

\* post_cp writes the directives before it looks for the working directory.
CpRefused(a) ==
    CASE LacksAccount(a) -> 400
      [] ~LacksAccount(a) /\ a.site \in NoWorkDir -> 500
      [] OTHER -> 0

\* The other endpoints for jobs look for the working directory first.
FileJobRefused(a) ==
    CASE a.site \in NoWorkDir -> 500
      [] a.site \notin NoWorkDir /\ LacksAccount(a) -> 400
      [] OTHER -> 0

SetReply(j, code) == reply' = [reply EXCEPT ![j] = code]
SetJob(j, state) == job' = [job EXCEPT ![j] = state]

-----------------------------------------------------------------------------

\* A request is refused, or goes on with a step of its job.
Post(j, a, refusal, step) ==
    /\ reply[j] = 0
    /\ IF refusal # 0
       THEN /\ SetReply(j, refusal)
            /\ UNCHANGED << job, proc >>
       ELSE /\ SetReply(j, 1)
            /\ SetJob(j, step)
            /\ proc' = [proc EXCEPT ![j].ask = a]
    /\ UNCHANGED << tree, marks >>

\* Only the streamer's transfers look at the path before they submit the job.
Prepared(a) == IF MethodOf(a) = "streamer" THEN "stat" ELSE "asked"

AsksFor(j, ops) == { a \in Asks[j] : a.op \in ops }

PostUpload(j) == \E a \in AsksFor(j, { "receive", "wormhole receive" }) :
                     Post(j, a, TransferRefused(a), Prepared(a))
PostDownload(j) == \E a \in AsksFor(j, { "send", "wormhole send" }) :
                       Post(j, a, TransferRefused(a), Prepared(a))
PostMv(j) == \E a \in AsksFor(j, { "mv" }) : Post(j, a, FileJobRefused(a), "asked")
PostCp(j) == \E a \in AsksFor(j, { "cp" }) : Post(j, a, CpRefused(a), "asked")
DeleteRm(j) == \E a \in AsksFor(j, { "rm" }) : Post(j, a, FileJobRefused(a), "asked")
PostCompress(j) ==
    \E a \in AsksFor(j, { "compress" }) : Post(j, a, FileJobRefused(a), "asked")
PostExtract(j) ==
    \E a \in AsksFor(j, { "extract" }) : Post(j, a, FileJobRefused(a), "asked")

\* What the look at the path says: of an upload, that it is taken, unless it is
\* missing; of a download, that it is missing, and nothing else.
UploadLook(errs) ==
    CASE errs = {} -> 403
      [] Missing \in errs -> 0
      [] Missing \notin errs /\ Denied \in errs -> 403
      [] OTHER -> 500

DownloadLook(errs) == IF Missing \in errs THEN 404 ELSE 0

Look(j) ==
    LET errs == Reach(tree, proc[j].ask.path)
        code == IF proc[j].ask.op = "receive" THEN UploadLook(errs) ELSE DownloadLook(errs)
    IN  /\ job[j] = "stat"
        /\ IF code = 0 THEN SetJob(j, "asked") /\ UNCHANGED reply
           ELSE SetJob(j, "none") /\ SetReply(j, code)
        /\ UNCHANGED fileVars

\* 408, 424 or 500: not to be told from one another here.
Failed == 500

\* The command times out or its connection fails: neither is an HTTPException.
LookFails(j) ==
    /\ job[j] = "stat"
    /\ SetJob(j, "none")
    /\ SetReply(j, Failed)
    /\ UNCHANGED fileVars

Submit(j) ==
    /\ job[j] = "asked"
    /\ SetJob(j, "queued")
    /\ UNCHANGED << reply, fileVars >>

\* The scheduler refuses the job, or cannot be reached.
SubmitFails(j) ==
    /\ job[j] = "asked"
    /\ SetJob(j, "none")
    /\ SetReply(j, Failed)
    /\ UNCHANGED fileVars

Submitted(j) == job[j] \in { "queued", "running", "COMPLETED", "FAILED" }

\* The id of the job reaches the client.
Confirm(j) ==
    /\ Submitted(j)
    /\ reply[j] = 1
    /\ SetReply(j, IF proc[j].ask.op = "rm" THEN 200 ELSE 201)
    /\ UNCHANGED << job, fileVars >>

\* sbatch or the REST API answered, but its answer does not arrive.
ReplyLost(j) ==
    /\ Submitted(j)
    /\ reply[j] = 1
    /\ SetReply(j, Failed)
    /\ UNCHANGED << job, fileVars >>

-----------------------------------------------------------------------------
(* The job.                                                                 *)

StartJob(j) ==
    /\ job[j] = "queued"
    /\ SetJob(j, "running")
    /\ proc' = [proc EXCEPT ![j].state = "ready"]
    /\ UNCHANGED << reply, tree, marks >>

Work(j) == (BeginCommand(j) \/ GoOn(j)) /\ UNCHANGED jobVars

\* The scripts write ${?} into a message, with a date in it, and end with
\* `exit $?': the status of that echo, not of the command.
ExitCode(a, errs) == IF errs # {} /\ a.op \in Transfers THEN 1 ELSE 0

EndJob(j) ==
    /\ job[j] = "running"
    /\ proc[j].state = "over"
    /\ SetJob(j, IF ExitCode(proc[j].ask, proc[j].errs) = 0 THEN "COMPLETED" ELSE "FAILED")
    /\ UNCHANGED << reply, fileVars >>

\* The job reaches its time limit, is cancelled, or its peer does not come.
JobDies(j) ==
    /\ job[j] = "running"
    /\ Dies(j)
    /\ SetJob(j, "FAILED")
    /\ UNCHANGED reply

JobsNext(j) ==
    \/ PostUpload(j) \/ PostDownload(j)
    \/ PostMv(j) \/ PostCp(j) \/ DeleteRm(j) \/ PostCompress(j) \/ PostExtract(j)
    \/ Look(j)
    \/ LookFails(j)
    \/ Submit(j)
    \/ SubmitFails(j)
    \/ Confirm(j)
    \/ ReplyLost(j)
    \/ StartJob(j)
    \/ Work(j)
    \/ EndJob(j)
    \/ JobDies(j)

=============================================================================
