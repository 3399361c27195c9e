------------------------------- MODULE JobQuery -------------------------------
(***************************************************************************)
(* One query of a Slurm client: get_job(), get_jobs() or                   *)
(* get_job_metadata().  The accounting database and the controller are     *)
(* asked side by side, by commands through ssh (SlurmCliClient) or by HTTP *)
(* requests (SlurmRestClient); they answer at different moments, one may   *)
(* fail, and the answers are merged when both are there.                   *)
(*                                                                         *)
(* Slurm is external: a job is in the controller's memory until it is      *)
(* forgotten some time after its end, it may be put back into the queue,   *)
(* and the database learns of its state with a delay.                      *)
(***************************************************************************)
EXTENDS Naturals

CONSTANTS
    Jobs,
    Own,       \* the jobs of the user who asks
    Scripted,  \* the jobs that have a batch script
    MaxMoves   \* bound: what happens in Slurm during a query

ASSUME QueryAssumption ==
    /\ Own \subseteq Jobs
    /\ Scripted \subseteq Jobs
    /\ MaxMoves \in Nat

VARIABLES
    truth,     \* external: of each job, "none", "PENDING", "RUNNING", "COMPLETED"
    held,      \* external: the jobs in the controller's memory
    ledger,    \* external: the state the database has of each job
    query,     \* what is asked, see Queries
    status,    \* of each source: "waiting", "answered" or "failed"
    listed,    \* of each source: the jobs in its answer, with their states
    result,    \* "open", "answered", "notfound" or "error"
    reported,  \* the jobs in the answer to the user, with their states
    seen,      \* history: the states each job had since the query began
    known,     \* history: the jobs in the database when the query began
    behind,    \* history: the jobs that the database had an old state of
    kept,      \* history: the jobs held since the query began
    met,       \* history: the jobs held at any time since it began
    moves      \* history: how often something happened in Slurm

slurm == << truth, held, ledger >>
history == << seen, known, behind, kept, met, moves >>
client == << status, listed, result, reported >>
vars == << slurm, query, client, history >>

Active == {"PENDING", "RUNNING"}
States == Active \cup {"none", "COMPLETED"}
Sources == {"acct", "ctl", "acctScript", "ctlScript"}

\* get_job() and get_job_metadata() ask for one job.  The endpoint leaves
\* "allusers" of get_job() at its default, True, and the metadata commands at
\* theirs, False; metadata are not to be had by REST.  "recent": Slurm 24.05.
Queries ==
    [op : {"get_jobs"}, rest : BOOLEAN, asked : {Jobs}, allusers : BOOLEAN,
     recent : {TRUE}]
    \cup [op : {"get_job"}, rest : BOOLEAN, asked : {{j} : j \in Jobs},
          allusers : {TRUE}, recent : {TRUE}]
    \cup [op : {"get_job_metadata"}, rest : {FALSE}, asked : {{j} : j \in Jobs},
          allusers : {FALSE}, recent : BOOLEAN]

Metadata == query.op = "get_job_metadata"

\* The commands and requests of the query.
Asked ==
    IF ~Metadata THEN {"acct", "ctl"}
    ELSE IF query.recent THEN Sources ELSE {"ctl", "ctlScript"}

Nothing == [j \in {} |-> "none"]

\* A job that the controller has forgotten is over, and the database knows of
\* none that was never submitted; a query for one job is about that one only.
Init ==
    /\ query \in Queries
    /\ truth \in [Jobs -> States]
    /\ ledger \in [Jobs -> States]
    /\ held \in SUBSET Jobs
    /\ \A j \in Jobs :
         /\ truth[j] \in Active => j \in held
         /\ truth[j] = "none" => j \notin held /\ ledger[j] = "none"
         /\ j \notin query.asked => truth[j] = "none"
    /\ status = [s \in Sources |-> "waiting"]
    /\ listed = [s \in Sources |-> Nothing]
    /\ result = "open"
    /\ reported = Nothing
    /\ seen = [j \in Jobs |-> {truth[j]}]
    /\ known = { j \in Jobs : ledger[j] # "none" }
    /\ behind = {}
    /\ kept = held
    /\ met = held
    /\ moves = 0

-----------------------------------------------------------------------------
(* Slurm.                                                                   *)

Open == result = "open"

\* Something happens to the job while the query is under way.
Move(j) ==
    /\ Open
    /\ j \in query.asked
    /\ moves < MaxMoves
    /\ moves' = moves + 1
    /\ UNCHANGED << query, client, known, behind >>

\* The job is in the state from now on.
Become(j, state) ==
    /\ Move(j)
    /\ truth' = [truth EXCEPT ![j] = state]
    /\ seen' = [seen EXCEPT ![j] = @ \cup {state}]
    /\ UNCHANGED << ledger, kept >>

Submit(j) ==
    /\ truth[j] = "none"
    /\ Become(j, "PENDING")
    /\ held' = held \cup {j}
    /\ met' = met \cup {j}

Start(j) ==
    /\ truth[j] = "PENDING"
    /\ Become(j, "RUNNING")
    /\ UNCHANGED << held, met >>

\* It ends, or is cancelled.
End(j) ==
    /\ truth[j] \in Active
    /\ Become(j, "COMPLETED")
    /\ UNCHANGED << held, met >>

\* As long as the controller has it, it may be queued again.
Requeue(j) ==
    /\ truth[j] \in {"RUNNING", "COMPLETED"}
    /\ j \in held
    /\ Become(j, "PENDING")
    /\ UNCHANGED << held, met >>

Forget(j) ==
    /\ truth[j] = "COMPLETED"
    /\ j \in held
    /\ Move(j)
    /\ held' = held \ {j}
    /\ kept' = kept \ {j}
    /\ UNCHANGED << truth, ledger, seen, met >>

\* The database catches up.
Record(j) ==
    /\ ledger[j] # truth[j]
    /\ Move(j)
    /\ ledger' = [ledger EXCEPT ![j] = truth[j]]
    /\ UNCHANGED << truth, held, seen, kept, met >>

-----------------------------------------------------------------------------
(* The query.                                                               *)

MaySee(j) == query.allusers \/ j \in Own

\* Variant: the user's own jobs in any case.
QueueShowsOwn(j) == j \in held /\ truth[j] \in Active /\ j \in Own

\* squeue lists what waits or runs; the controller's HTTP answer has all it
\* holds.  get_job() of the REST client applies "allusers" to entries with the
\* field "user", which are those of the database.  "scontrol show job" has no
\* filter.
QueueShows(j) ==
    /\ j \in held
    /\ \/ Metadata
       \/ /\ query.rest \/ truth[j] \in Active
          /\ MaySee(j)
          /\ query.rest /\ query.op = "get_job" => j \in Own

\* Scripts are given to the owner only.
Shown(s) ==
    { j \in query.asked :
        \/ s \in {"acct", "acctScript"} /\ ledger[j] # "none" /\ MaySee(j)
        \/ s = "ctl" /\ QueueShows(j)
        \/ s = "ctlScript" /\ j \in held \cap Scripted \cap Own }

StateFrom(s, j) == IF s \in {"acct", "acctScript"} THEN ledger[j] ELSE truth[j]

\* A source answers.  "scontrol write batch_script" fails if there is none.
Answer(s) ==
    /\ Open
    /\ s \in Asked
    /\ status[s] = "waiting"
    /\ status' = [status EXCEPT ![s] =
                    IF s = "ctlScript" /\ Shown(s) = {} THEN "failed" ELSE "answered"]
    /\ listed' = [listed EXCEPT ![s] = [j \in Shown(s) |-> StateFrom(s, j)]]
    /\ behind' = IF s = "acct"
                 THEN { j \in Jobs : ledger[j] \notin {"none", truth[j]} }
                 ELSE behind
    /\ UNCHANGED << slurm, query, result, reported, seen, known, kept, met, moves >>

\* A time-out, a lost connection, an unexpected exit code or HTTP status.
Fail(s) ==
    /\ Open
    /\ s \in Asked
    /\ status[s] = "waiting"
    /\ status' = [status EXCEPT ![s] = "failed"]
    /\ UNCHANGED << slurm, query, listed, result, reported, history >>

\* gather() is over.
AllIn == Open /\ \A s \in Asked : status[s] # "waiting"

\* Variant: the database decides.
MergedByLedger ==
    LET acct == listed["acct"]
        ctl == listed["ctl"]
    IN  [ j \in DOMAIN acct \cup DOMAIN ctl |->
            IF j \in DOMAIN acct THEN acct[j] ELSE ctl[j] ]

\* Variant: "pending" is believed of either source.
MergedPending ==
    LET acct == listed["acct"]
        ctl == listed["ctl"]
    IN  [ j \in DOMAIN acct \cup DOMAIN ctl |->
            IF j \in DOMAIN acct /\ j \in DOMAIN ctl THEN "PENDING"
            ELSE IF j \in DOMAIN acct THEN acct[j] ELSE ctl[j] ]

\* Variant: started anew with each answer.
MergedLast == listed["ctl"]

\* The database comes first; of the controller's jobs, those count that it
\* does not have, and those that are pending.
Merged ==
    LET acct == listed["acct"]
        ctl == listed["ctl"]
    IN  [ j \in DOMAIN acct \cup DOMAIN ctl |->
            IF j \notin DOMAIN acct \/ (j \in DOMAIN ctl /\ ctl[j] = "PENDING")
            THEN ctl[j] ELSE acct[j] ]

Failed == { s \in Asked : status[s] = "failed" }

\* Either of the two having failed, the query has.
Reply ==
    /\ AllIn
    /\ ~Metadata
    /\ IF Failed # {}
       THEN result' = "error" /\ UNCHANGED reported
       ELSE /\ reported' = Merged
            /\ result' = IF query.op = "get_job" /\ DOMAIN Merged = {}
                         THEN "notfound" ELSE "answered"
    /\ UNCHANGED << slurm, query, status, listed, history >>

Listing(s) == status[s] = "answered" /\ DOMAIN listed[s] # {}

\* Variant: never falls back.
ControllerOnly == TRUE

\* Without a list from scontrol, and with Slurm 24.05, sacct's answer is taken.
FromController == Listing("ctl") \/ ~query.recent

\* What goes with the job information taken, by position, is the answer of the
\* same tool to the question for the script: without a list, its length is not
\* to be had, and the request ends with an error.
ReplyMetadata ==
    LET info == IF FromController THEN "ctl" ELSE "acct"
        script == IF FromController THEN "ctlScript" ELSE "acctScript"
    IN  /\ AllIn
        /\ Metadata
        /\ result' = IF status[info] = "failed" THEN "error"
                     ELSE IF DOMAIN listed[info] = {} THEN "notfound"
                     ELSE IF Listing(script) THEN "answered" ELSE "error"
        /\ reported' = IF result' = "answered" THEN listed[info] ELSE reported
        /\ UNCHANGED << slurm, query, status, listed, history >>

-----------------------------------------------------------------------------

Slurm ==
    \E j \in Jobs :
        Submit(j) \/ Start(j) \/ End(j) \/ Requeue(j) \/ Forget(j) \/ Record(j)

Client ==
    \/ Reply \/ ReplyMetadata
    \/ \E s \in Sources : Answer(s) \/ Fail(s)

Next == Slurm \/ Client

Spec == Init /\ [][Next]_vars

-----------------------------------------------------------------------------
(* Properties.                                                              *)

\* get_job() or get_jobs() gave its answer, "not found" being one.
Told == ~Metadata /\ result \in {"answered", "notfound"}

\* The controller lists it to the user if it waits or runs.  It is not so for
\* the REST client's get_job() of another user's job.
Listable(j) ==
    /\ j \in query.asked
    /\ MaySee(j)
    /\ query.rest /\ query.op = "get_job" => j \in Own

\* "Does not affect currently pending or running jobs, which are always
\* returned": a job that waits or runs from the begin of a query to its end
\* is in the answer, though the database may not have heard of it and its
\* state may change between the two answers.
ActiveIsListed ==
    Told => \A j \in Jobs :
        Listable(j) /\ seen[j] \subseteq Active => j \in DOMAIN reported

\* No job falls between the two answers: what the database knew when the query
\* began is in the answer, whenever it ends, is queued again or is forgotten.
KnownIsListed ==
    Told => \A j \in known \cap query.asked : MaySee(j) => j \in DOMAIN reported

\* A job that was waiting all the time is shown as waiting, also after it was
\* queued again and the database still has it running or completed.
WaitingIsShown ==
    Told => \A j \in Jobs :
        Listable(j) /\ seen[j] = {"PENDING"}
            => j \in DOMAIN reported /\ reported[j] = "PENDING"

\* The state shown is one that the job had during the query, unless the
\* database was behind when it answered.
ReportedIsRecent ==
    Told => \A j \in DOMAIN reported : reported[j] \in seen[j] \/ j \in behind

\* get_job_metadata() finds the user's own job: from the controller when it has
\* job and script all the time and tells them; with Slurm 24.05 from the
\* database ("fallback to sacct command if scontrol failed to retrieve job
\* info") when that tells what it has and the controller never had the job or
\* could not be asked.
MetadataFallsBack ==
    Metadata /\ ~Open =>
        \A j \in query.asked \cap Own :
            \/ /\ j \in kept \cap Scripted
               /\ status["ctl"] = "answered" /\ status["ctlScript"] = "answered"
            \/ /\ query.recent /\ j \in known
               /\ j \notin met \/ status["ctl"] = "failed"
               /\ status["acct"] = "answered" /\ status["acctScript"] = "answered"
            => result = "answered"

=============================================================================
