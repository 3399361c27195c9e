------------------------------- MODULE S3Ingress -------------------------------
(***************************************************************************)
(* The job that brings a file from the staging area to the cluster         *)
(* (job_s3_downloader.sh): ask for the object at most MaxPolls times, then *)
(* fetch it range by range and append each range to the target.            *)
(*                                                                         *)
(* A file is the sequence of the byte positions of the object it was made  *)
(* from.  The store (S3) is external: an object appears when its multipart *)
(* upload is completed, never changes (its name is unique), and may        *)
(* expire.  Module S3Upload runs the script.                               *)
(***************************************************************************)
EXTENDS Naturals, Sequences

CONSTANTS
    Sizes,       \* sizes of the object
    MaxPart,     \* max_part_size, the length of a range
    MaxPolls,    \* 1440 in the script
    Failures,    \* what may go wrong: subset of
                 \* {"gone", "net", "cut", "disk", "kill"}
    None         \* no object, file or exit code

\* Whatever was at the target path before the job: a file or a directory.
Old == << 0 >>
Folder == << 0, 0 >>

VARIABLES
    faulty,   \* whether any of Failures may happen in this behaviour
    object,   \* external: the size of the object, None if there is none
    pc,       \* where the script is: "start", "poll", "fetch", "append",
              \* "exited", "killed"
    exit,     \* its exit code
    polls,    \* HEAD requests without success
    from,     \* range_from
    count,    \* downloaded_data_count
    part,     \* the part file
    target,   \* what is at target_path
    found,    \* the size of the object, once the job has found it
    lost      \* history: the bytes of fetched ranges that did not arrive

vars == << faulty, object, pc, exit, polls, from, count, part, target, found,
           lost >>

May(kind) == faulty /\ kind \in Failures

Smaller(a, b) == IF a < b THEN a ELSE b

Init ==
    /\ faulty \in BOOLEAN
    /\ object = None
    /\ pc = "start"
    /\ exit = None
    /\ polls = 0
    /\ from = 0
    /\ count = 0
    /\ part = None
    /\ target \in {None, Old, Folder}
    /\ found = None
    /\ lost = {}

-----------------------------------------------------------------------------
(* The store.                                                               *)

\* The lifecycle of the bucket removes the object.
Expire ==
    /\ May("gone")
    /\ object # None
    /\ object' = None
    /\ UNCHANGED << faulty, pc, exit, polls, from, count, part, target, found, lost >>

-----------------------------------------------------------------------------
(* The script.                                                              *)

ExitWith(c) ==
    /\ pc' = "exited"
    /\ exit' = c
    /\ UNCHANGED << faulty, object, polls, from, count, target, found, lost >>

TargetIsFolder ==
    /\ pc = "start"
    /\ target = Folder
    /\ ExitWith(3)
    /\ UNCHANGED part

Begin ==
    /\ pc = "start"
    /\ target # Folder
    /\ pc' = "poll"
    /\ UNCHANGED << faulty, object, exit, polls, from, count, part, target, found, lost >>

\* The HEAD request is answered with 200: remove what is at the target.
Find ==
    /\ pc = "poll"
    /\ object # None
    /\ found' = object
    /\ target' = None
    /\ pc' = "fetch"
    /\ UNCHANGED << faulty, object, exit, polls, from, count, part, lost >>

\* Not yet there, or no answer; after MaxPolls times the loop is over and the
\* exit code is that of its last "sleep".
Poll ==
    /\ pc = "poll"
    /\ object = None \/ May("net")
    /\ polls' = polls + 1
    /\ IF polls' = MaxPolls
       THEN pc' = "exited" /\ exit' = 0
       ELSE UNCHANGED << pc, exit >>
    /\ UNCHANGED << faulty, object, from, count, part, target, found, lost >>

\* Variant: range_to is range_from + range_length.
RangeOneMore == [i \in 1 .. Smaller(MaxPart + 1, object - from) |-> from + i]

\* The bytes of the object in range_from .. range_to, counted from 1.
Range == [i \in 1 .. Smaller(MaxPart, object - from) |-> from + i]

\* 206: the lengths are those of the headers, whatever part of the body came.
Fetch ==
    /\ pc = "fetch"
    /\ object # None
    /\ from < found
    /\ \E k \in 0 .. Len(Range) :
           /\ k < Len(Range) => May("cut")
           /\ part' = SubSeq(Range, 1, k)
           /\ lost' = lost \cup { Range[i] : i \in k + 1 .. Len(Range) }
    /\ count' = count + Len(Range)
    /\ pc' = "append"
    /\ UNCHANGED << faulty, object, exit, polls, from, target, found >>

\* 404 if the object is gone, 416 if it is empty, nothing if the store does
\* not answer: give up.
FetchFails ==
    /\ pc = "fetch"
    /\ object = None \/ from >= found \/ May("net")
    /\ ExitWith(1)
    /\ UNCHANGED part

\* Variant: as if something remained after the last byte.
AllCountedLate == found < count

\* remaining is not positive.
AllCounted == found <= count

File(path) == IF path = None THEN << >> ELSE path

\* cat and rm, and the next range unless all of the file is counted; cat may
\* write less than all of the part file.
Enqueue ==
    /\ pc = "append"
    /\ \E k \in 0 .. Len(part) :
           /\ k < Len(part) => May("disk")
           /\ target' = File(target) \o SubSeq(part, 1, k)
           /\ lost' = lost \cup { part[i] : i \in k + 1 .. Len(part) }
    /\ part' = None
    /\ IF AllCounted
       THEN pc' = "exited" /\ exit' = 0 /\ UNCHANGED from
       ELSE pc' = "fetch" /\ from' = from + MaxPart /\ UNCHANGED exit
    /\ UNCHANGED << faulty, object, polls, count, found >>

Kill ==
    /\ pc \notin {"exited", "killed"}
    /\ May("kill")
    /\ pc' = "killed"
    /\ UNCHANGED << faulty, object, exit, polls, from, count, part, target, found, lost >>

-----------------------------------------------------------------------------

Script ==
    TargetIsFolder \/ Begin \/ Find \/ Poll \/ Fetch \/ FetchFails \/ Enqueue

-----------------------------------------------------------------------------
(* Properties.                                                              *)

\* The file holds the bytes 1 .. n without those that were lost, in order.
Holds(file, n) ==
    /\ { file[i] : i \in DOMAIN file } = (1 .. n) \ lost
    /\ \A i, j \in DOMAIN file : i < j => file[i] < file[j]

\* Between two ranges the target is the beginning of the object, up to the
\* bytes counted and but for those lost on the way: no byte twice and none
\* out of its place; a job that exits with 0 has counted every byte of the
\* object it found.
CountedIsWritten ==
    found # None =>
        /\ pc \in {"fetch", "exited"} => Holds(File(target), count)
        /\ pc = "fetch" => from = count
        /\ exit = 0 => count = found

=============================================================================
