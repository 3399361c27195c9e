------------------------------ MODULE S3Outgress ------------------------------
(***************************************************************************)
(* The job that brings a file from the cluster to the staging area         *)
(* (job_s3_uploader_multipart.sh): cut the file into parts, upload them in *)
(* batches of parallel background jobs, upload what is left once more,     *)
(* collect the ETags and complete the multipart upload.                    *)
(*                                                                         *)
(* A file is the set of its byte positions, a part a subset of them: parts *)
(* are numbered in the order of the file, and the store joins them in the  *)
(* order of their numbers, so a set says what arrived.  The number of      *)
(* parts comes from the size the file had when the transfer was requested  *)
(* (S3Datatransfer.download), the size of a part from what the job finds.  *)
(*                                                                         *)
(* The store (S3) is external: it keeps the last upload of each part, and  *)
(* completes an upload from a list of parts of which only the last one may *)
(* be shorter than MinPart.                                                *)
(***************************************************************************)
EXTENDS Naturals, FiniteSets

CONSTANTS
    Sizes,       \* sizes of the file, when requested and when the job runs
    Block,       \* BLOCK_SIZE
    MaxPart,     \* max_part_size
    Parallel,    \* parallel_runs
    UseSplit,    \* use_split
    MinPart,     \* the store's minimum for a part that is not the last one
    Failures,    \* what may go wrong: subset of {"disk", "net", "kill"}
    None         \* no such file, part, object or exit code

ASSUME OutgressAssumption ==
    /\ Sizes \subseteq Nat
    /\ {Block, MaxPart, Parallel} \subseteq Nat \ {0}
    /\ UseSplit \in BOOLEAN
    /\ MinPart \in Nat
    /\ Failures \subseteq {"disk", "net", "kill"}

VARIABLES
    faulty,     \* whether any of Failures may happen in this behaviour
    announced,  \* the size of the file when the transfer was requested
    present,    \* whether the file is there when the job runs
    size,       \* its size then
    pc,         \* where the script is: "start", "first" and "second" upload
                \* loop, "collect", "posted", "exited", "killed"
    exit,       \* its exit code
    next,       \* p, the next part of upload_loop()
    work,       \* of each part's background job: "idle", "dd", "curl", "sent"
    file,       \* the .part files
    etag,       \* the parts with a .result file
    listed,     \* the parts in the XML that completes the upload
    stored,     \* external: the parts at the store
    object,     \* external: the object at the store
    damaged     \* history: the parts whose dd failed

vars == << faulty, announced, present, size, pc, exit, next, work, file, etag,
           listed, stored, object, damaged >>

params == << faulty, announced, present, size >>
store == << stored, object >>

May(kind) == faulty /\ kind \in Failures

Ceil(a, b) == (a + b - 1) \div b

NumParts == Ceil(announced, MaxPart)
Parts == 1 .. NumParts
Bytes == 0 .. size - 1

PartSize == Ceil(size, NumParts)

\* Variant: the part size is rounded down to whole blocks.
StepRoundedDown == Block * (PartSize \div Block)

\* Bytes of a part: blocks_per_part blocks.
Step == Block * Ceil(PartSize, Block)

\* Variant: the offset counts from part_id.
SliceFromId(p) == { b \in Bytes : p * Step <= b /\ b < (p + 1) * Step }

\* What dd copies: Step bytes from (part_id - 1) * Step on.
Slice(p) == { b \in Bytes : (p - 1) * Step <= b /\ b < p * Step }

Busy == { p \in Parts : work[p] # "idle" }

Init ==
    /\ faulty \in BOOLEAN
    /\ announced \in Sizes
    /\ present \in BOOLEAN
    /\ size \in Sizes
    /\ pc = "start"
    /\ exit = None
    /\ next = 1
    /\ work = [p \in Parts |-> "idle"]
    /\ file = [p \in Parts |-> None]
    /\ etag = {}
    /\ listed = {}
    /\ stored = [p \in Parts |-> None]
    /\ object = None
    /\ damaged = {}

-----------------------------------------------------------------------------
(* The script up to its loops.                                              *)

ExitWith(c) ==
    /\ pc' = "exited"
    /\ exit' = c
    /\ UNCHANGED << params, next, work, file, etag, listed, store, damaged >>

NoFile ==
    /\ pc = "start"
    /\ ~present
    /\ ExitWith(34)

\* The temporary folder cannot be created.
NoFolder ==
    /\ pc = "start"
    /\ present
    /\ May("disk")
    /\ ExitWith(34)

\* Without parts the division fails, which abandons the whole "if".
TooBig == ~UseSplit /\ NumParts > 0 /\ PartSize > MaxPart

TooLarge ==
    /\ pc = "start"
    /\ present
    /\ TooBig
    /\ ExitWith(27)

\* With use_split, split is told to name its files after the input file; no
\* directory of that name is there, and no .part file is called so.
Begin ==
    /\ pc = "start"
    /\ present
    /\ ~TooBig
    /\ pc' = "first"
    /\ UNCHANGED << params, exit, next, work, file, etag, listed, store, damaged >>

-----------------------------------------------------------------------------
(* upload_loop(): batches of Parallel parts, with a wait after each.        *)

Looping == pc \in {"first", "second"}

\* Part "next" is in the batch of the part before, or that batch is over.
Room == (next - 1) % Parallel # 0 \/ Busy = {}

\* The first loop makes the part files, unless they were to be made by split.
Launch ==
    /\ Looping
    /\ next <= NumParts
    /\ Room
    /\ work' = [work EXCEPT ![next] =
                    IF pc = "first" /\ ~UseSplit THEN "dd"
                    ELSE IF file[next] # None THEN "curl"
                    ELSE "idle"]
    /\ next' = next + 1
    /\ UNCHANGED << params, pc, exit, file, etag, listed, store, damaged >>

LoopEnds ==
    /\ Looping
    /\ next > NumParts
    /\ Busy = {}
    /\ pc' = IF pc = "first" THEN "second" ELSE "collect"
    /\ next' = 1
    /\ UNCHANGED << params, exit, work, file, etag, listed, store, damaged >>

-----------------------------------------------------------------------------
(* job_dd() and job_upload() in the background.                             *)

MakePart(p) ==
    /\ work[p] = "dd"
    /\ file' = [file EXCEPT ![p] = Slice(p)]
    /\ work' = [work EXCEPT ![p] = "curl"]
    /\ UNCHANGED << params, pc, exit, next, etag, listed, store, damaged >>

\* dd fails, and leaves what it has written (if anything).
MakePartFails(p) ==
    /\ work[p] = "dd"
    /\ May("disk")
    /\ \E left \in {None} \cup { {b \in Slice(p) : b < last} : last \in Slice(p) } :
           file' = [file EXCEPT ![p] = left]
    /\ work' = [work EXCEPT ![p] = "idle"]
    /\ damaged' = damaged \cup {p}
    /\ UNCHANGED << params, pc, exit, next, etag, listed, store >>

\* The store receives the part.
Receive(p) ==
    /\ work[p] = "curl"
    /\ stored' = [stored EXCEPT ![p] = file[p]]
    /\ work' = [work EXCEPT ![p] = "sent"]
    /\ UNCHANGED << params, pc, exit, next, file, etag, listed, object, damaged >>

\* Variant: the part file stays.
KeepETagAndFile(p) ==
    /\ work[p] = "sent"
    /\ etag' = etag \cup {p}
    /\ work' = [work EXCEPT ![p] = "idle"]
    /\ UNCHANGED << params, pc, exit, next, file, listed, store, damaged >>

\* curl prints the ETag: keep it, and remove the part file.
KeepETag(p) ==
    /\ work[p] = "sent"
    /\ etag' = etag \cup {p}
    /\ file' = [file EXCEPT ![p] = None]
    /\ work' = [work EXCEPT ![p] = "idle"]
    /\ UNCHANGED << params, pc, exit, next, listed, store, damaged >>

\* No ETag, before or after the store has the part: the part file stays.
UploadFails(p) ==
    /\ work[p] \in {"curl", "sent"}
    /\ May("net")
    /\ work' = [work EXCEPT ![p] = "idle"]
    /\ UNCHANGED << params, pc, exit, next, file, etag, listed, store, damaged >>

-----------------------------------------------------------------------------
(* The end of the script.                                                   *)

\* The ETags there are make the XML; "error" is set and never read.
Post ==
    /\ pc = "collect"
    /\ listed' = { p \in Parts : p \in etag }
    /\ pc' = "posted"
    /\ UNCHANGED << params, exit, next, work, file, etag, store, damaged >>

\* The store knows every part listed, and none but the last one is too short.
Acceptable ==
    /\ listed # {}
    /\ \A p \in listed :
           /\ stored[p] # None
           /\ (\E q \in listed : q > p) => Cardinality(stored[p]) >= MinPart

Join ==
    /\ pc = "posted"
    /\ object = None
    /\ Acceptable
    /\ object' = UNION { stored[p] : p \in listed }
    /\ UNCHANGED << params, pc, exit, next, work, file, etag, listed, stored, damaged >>

\* 200: remove the temporary folder.
Done ==
    /\ pc = "posted"
    /\ object # None
    /\ pc' = "exited"
    /\ exit' = 0
    /\ file' = [p \in Parts |-> None]
    /\ etag' = {}
    /\ UNCHANGED << params, next, work, listed, store, damaged >>

\* Another status, or none: the temporary folder stays.
NotDone ==
    /\ pc = "posted"
    /\ May("net") \/ (object = None /\ ~Acceptable)
    /\ ExitWith(70)

\* The batch scheduler ends the job (time limit, scancel).
Kill ==
    /\ pc \notin {"exited", "killed"}
    /\ May("kill")
    /\ pc' = "killed"
    /\ work' = [p \in Parts |-> "idle"]
    /\ UNCHANGED << params, exit, next, file, etag, listed, store, damaged >>

-----------------------------------------------------------------------------

Script ==
    \/ NoFile \/ NoFolder \/ TooLarge \/ Begin
    \/ Launch \/ LoopEnds \/ Post \/ Join \/ Done \/ NotDone
    \/ \E p \in Parts :
           \/ MakePart(p) \/ MakePartFails(p)
           \/ Receive(p) \/ KeepETag(p) \/ UploadFails(p)

Next == Script \/ Kill

Spec == Init /\ [][Next]_vars

\* The script runs, and the store and the network answer it in the end,
\* were it with a failure.
LiveSpec == Spec /\ WF_vars(Script)

-----------------------------------------------------------------------------
(* Properties.                                                              *)

\* Of an object that was completed nothing is missing but bytes of parts that
\* could not be made or were not listed: the slices leave no gap between
\* them, whatever happened to the size of the file since the request, and an
\* upload that is repeated does not lose what an earlier one brought.
OnlyFailedPartsMissing ==
    object # None =>
        /\ object \subseteq Bytes
        /\ Bytes \ object \subseteq
               UNION { Slice(p) : p \in damaged \cup (Parts \ listed) }

\* A part whose ETag is kept is not sent again: the store would replace the
\* part that the ETag stands for.
NoResend ==
    [][\A p \in Parts : p \in etag => work'[p] = "idle"]_vars

\* The object at the store is the file.
ObjectIsWhole == object # None => object = Bytes

\* If nothing fails and the file is as large as it was, the whole file gets
\* to the store, and the script says so.
ReliableTransferSucceeds ==
    (~faulty /\ present /\ size = announced /\ size > 0)
        => <>(exit = 0 /\ object = Bytes)

=============================================================================
