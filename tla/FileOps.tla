------------------------------ MODULE FileOps -------------------------------
(***************************************************************************)
(* The file endpoints (filesystem/ops/router.py): each request checks its  *)
(* arguments, runs one command on the cluster over an SSH connection, and  *)
(* turns exit status, messages and output into an HTTP answer.             *)
(*                                                                         *)
(* SSHClient.execute() waits no longer than execute_timeout and takes no   *)
(* more than MaxOps bytes; after that the request is answered, while its   *)
(* command may go on for a while on the cluster.                           *)
(***************************************************************************)
EXTENDS FileCommands

CONSTANTS
    Requests,   \* requests to the file endpoints
    MaxOps      \* max_ops_file_size, which is the buffer_limit of SSHClient, too

FileOperations ==
    { "chmod", "chown", "ls", "checksum", "file", "stat", "rm", "mkdir", "symlink",
      "compress", "extract", "head", "tail", "view", "download", "upload" }

ASSUME OpsAssumption ==
    /\ Requests \subseteq Actors /\ MaxOps \in Nat \ {0}
    /\ \A r \in Requests : \A a \in Asks[r] : a.op \in FileOperations

VARIABLE answer   \* of each request: its status code, or None or Waiting, what
                  \* it says of the file, and the positions it claims for that

None == 0
Waiting == 1

NoAnswer == [code |-> None, bytes |-> << >>, from |-> 0, upto |-> 0]

Coded(code) == [NoAnswer EXCEPT !.code = code]

\* Endpoints that only run a command and return its output: their codes.
AttributeOps == [op \in { "chmod", "chown", "ls" } |-> 200]
InspectOps == [op \in { "checksum", "file", "stat" } |-> 200]
TreeOps == [op \in { "rm", "mkdir", "symlink" } |-> IF op = "rm" THEN 204 ELSE 201]
ArchiveOps == [op \in { "compress", "extract" } |-> 204]

\* BaseCommandErrorHandling: the first of these texts that stderr contains.
ErrorCode(errs) ==
    IF Missing \in errs THEN 404
    ELSE IF { Denied, NotPermitted } \cap errs # {} THEN 403
    ELSE IF { Exists, BadUser } \cap errs # {} THEN 400 ELSE 500

\* get_head: what is refused, and what a success says.
BothGiven(a) == a.lines > 0 /\ a.bytes > 0

HeadAnswer(a, out) ==
    LET n == IF a.lines >= 0 THEN a.lines ELSE IF a.bytes >= 0 THEN a.bytes ELSE 10
    IN  [code |-> 200, bytes |-> Decode(out), from |-> 0,
         upto |-> IF a.flag /\ (a.lines >= 0 \/ a.bytes >= 0) THEN -n ELSE n]

\* get_tail: the position of its default is 10, not -10.
TailAnswer(a, out) ==
    LET n == IF a.lines >= 0 THEN a.lines ELSE a.bytes
    IN  [code |-> 200, bytes |-> Decode(out), upto |-> -1,
         from |-> IF a.lines < 0 /\ a.bytes < 0 THEN 10 ELSE IF a.flag THEN n ELSE -n]

\* get_view
ViewRefused(a) == a.offset < 0 \/ a.bytes <= 0 \/ a.bytes > MaxOps

ViewAnswer(a, out) == [Coded(200) EXCEPT !.bytes = Chunk(Decode(out), a)]

\* get_download: base64 writes four bytes for every three that it reads.
Base64Length(n) == 4 * ((n + 2) \div 3)

DownloadAnswer(out) ==
    IF Len(out) > MaxOps THEN Coded(413) ELSE [Coded(200) EXCEPT !.bytes = out]

\* post_upload
UploadRefused(a) == Len(a.data) > MaxOps

Success(a, out) ==
    CASE a.op = "head" -> HeadAnswer(a, out.bytes)
      [] a.op = "tail" -> TailAnswer(a, out.bytes)
      [] a.op = "view" -> ViewAnswer(a, out.bytes)
      [] a.op = "download" -> DownloadAnswer(out.bytes)
      [] a.op = "upload" -> Coded(204)
      [] a.op \in DOMAIN InspectOps -> [Coded(InspectOps[a.op]) EXCEPT !.bytes = out.bytes]
      [] a.op \in DOMAIN AttributeOps -> Coded(AttributeOps[a.op])
      [] a.op \in DOMAIN TreeOps -> Coded(TreeOps[a.op])
      [] a.op \in DOMAIN ArchiveOps -> Coded(ArchiveOps[a.op])

\* What is refused before a connection is asked for.
Refused(a) ==
    CASE a.op \in { "head", "tail" } /\ BothGiven(a) -> 400
      [] a.op = "view" /\ ViewRefused(a) -> 400
      [] a.op = "upload" /\ UploadRefused(a) -> 413
      [] OTHER -> None

\* Variant: the output is not counted.
OutSizeIgnored(a, out) == 0

\* The bytes on stdout: a name takes a byte and the end of its line.
OutSize(a, out) ==
    CASE a.op = "download" -> Base64Length(Len(out.bytes))
      [] a.op = "checksum" -> 1
      [] OTHER -> Len(out.bytes) + 2 * Cardinality(out.names)

Answer(r, what) == answer' = [answer EXCEPT ![r] = what]
Unanswered(r) == answer[r].code = Waiting

-----------------------------------------------------------------------------

Request(r) ==
    /\ answer[r].code = None
    /\ \E a \in Asks[r] :
         IF Refused(a) # None
         THEN /\ Answer(r, Coded(Refused(a)))
              /\ UNCHANGED proc
         ELSE /\ Answer(r, Coded(Waiting))
              /\ proc' = [proc EXCEPT ![r].state = "ready", ![r].ask = a]
    /\ UNCHANGED << tree, marks >>

Command(r) == (BeginCommand(r) \/ GoOn(r) \/ WriteFails(r) \/ Dies(r)) /\ UNCHANGED answer

\* Both streams are read up to the limit, which is an error when it is reached,
\* if the command has ended or not.
OverLimit(r) ==
    /\ Unanswered(r)
    /\ proc[r].state \in { "going", "over" }
    /\ OutSize(proc[r].ask, proc[r].out) >= MaxOps
    /\ Answer(r, Coded(413))
    /\ UNCHANGED fileVars

\* Variant: the exit status is not waited for.
FinishEarly(r) ==
    /\ Unanswered(r)
    /\ proc[r].state \in { "going", "over" }
    /\ OutSize(proc[r].ask, proc[r].out) < MaxOps
    /\ Answer(r, IF proc[r].errs = {} THEN Success(proc[r].ask, proc[r].out)
                 ELSE Coded(ErrorCode(proc[r].errs)))
    /\ UNCHANGED fileVars

\* parse_output() of the command.  timeout(1) exits with 124 if it has ended the
\* command; one that was ended otherwise is judged by its messages.
Finish(r) ==
    /\ Unanswered(r)
    /\ \/ /\ proc[r].state = "over"
          /\ OutSize(proc[r].ask, proc[r].out) < MaxOps
          /\ Answer(r, IF proc[r].errs = {} THEN Success(proc[r].ask, proc[r].out)
                       ELSE Coded(ErrorCode(proc[r].errs)))
       \/ /\ proc[r].state = "dead"
          /\ \E code \in { 408, ErrorCode(proc[r].errs) } : Answer(r, Coded(code))
    /\ UNCHANGED fileVars

\* execute_timeout: the command is told to end, and may go on until it does.
ExecuteTimeout(r) ==
    /\ Unanswered(r)
    /\ Answer(r, Coded(408))
    /\ UNCHANGED fileVars

\* The connection, or the channel, fails; nobody tells the command.
ConnectionFails(r) ==
    /\ Unanswered(r)
    /\ Answer(r, Coded(424))
    /\ UNCHANGED fileVars

OpsNext(r) ==
    \/ Request(r)
    \/ Command(r)
    \/ OverLimit(r)
    \/ Finish(r)
    \/ ExecuteTimeout(r)
    \/ ConnectionFails(r)

=============================================================================
