------------------------------- MODULE S3Upload -------------------------------
(***************************************************************************)
(* An upload from the user's file to the target on the cluster: the        *)
(* request (S3Staging), with others at the same time; the client, which    *)
(* sends the parts to the store and completes the upload (Upload() of the  *)
(* example client in docs/user_guide/file_transfer_dotnet); and the job    *)
(* that polls for the object (S3Ingress), which runs from the moment the   *)
(* request has submitted it, whether or not the user has an answer.        *)
(*                                                                         *)
(* A file is the sequence of the positions of its bytes.  How the client   *)
(* finds the URLs in the answer is left out.                               *)
(***************************************************************************)
EXTENDS Naturals, Sequences, FiniteSets

CONSTANTS
    Users, Requests, UserOf, Downloads,          \* see S3Staging
    Own,                                         \* the request of this upload
    Sizes, MaxPart, MaxPolls, Failures, None     \* see S3Ingress

ASSUME UploadAssumption ==
    /\ UserOf \in [Requests -> Users]
    /\ Downloads \subseteq Requests
    /\ Own \in Requests \ Downloads
    /\ Sizes \subseteq Nat
    /\ { MaxPart, MaxPolls } \subseteq Nat \ { 0 }
    /\ Failures \subseteq { "gone", "net", "cut", "disk", "kill" }
    /\ None \notin Nat \cup Seq(Nat)

VARIABLES
    faulty,                            \* of both: whether anything may fail
    refuses, pc, bucket, uploads, jobs,                      \* see S3Staging
    object, script, exit, polls, from, count, part, target, found, lost,
                                                             \* see S3Ingress
    size,     \* of the user's file
    at,       \* the client: "asking", "sending", "completing", "done", "failed"
    next,     \* partIndex
    eTags,    \* the parts of which it has the ETag
    failedParts,
    stored    \* external: what the store made of the parts, or None

staging == << refuses, pc, bucket, uploads, jobs >>
job == << object, script, exit, polls, from, count, part, target, found, lost >>
client == << size, at, next, eTags, failedParts, stored >>
vars == << faulty, staging, job, client >>

Staging == INSTANCE S3Staging
Job == INSTANCE S3Ingress WITH pc <- script

Init ==
    /\ Staging!Init
    /\ Job!Init
    /\ size \in Sizes
    /\ at = "asking"
    /\ next = 1
    /\ eTags = {}
    /\ failedParts = {}
    /\ stored = None

-----------------------------------------------------------------------------
(* The client.                                                              *)

\* A URL for each part: ceil(file_size / max_part_size).
Parts == (size + MaxPart - 1) \div MaxPart

\* RequestPost() ends in EnsureSuccessStatusCode(), and the answer may be lost.
Answered ==
    /\ at = "asking"
    /\ \/ pc[Own] = "ok" /\ at' = "sending"
       \/ pc[Own] = "failed" /\ at' = "failed"
       \/ pc[Own] = "ok" /\ faulty /\ at' = "failed"
    /\ UNCHANGED << faulty, staging, job, size, next, eTags, failedParts, stored >>

\* The next MaxPart bytes of the file are read, then sent; an ETag comes back, or
\* whatever goes wrong is caught, and the next part is sent all the same.
UploadPart ==
    /\ at = "sending"
    /\ next <= Parts
    /\ next' = next + 1
    /\ \/ eTags' = eTags \cup { next } /\ UNCHANGED failedParts
       \/ faulty /\ failedParts' = failedParts \cup { next } /\ UNCHANGED eTags
    /\ UNCHANGED << faulty, staging, job, size, at, stored >>

\* Variant: the upload is completed from the parts that arrived.
CompleteAnyway ==
    /\ at = "sending"
    /\ next > Parts
    /\ at' = "completing"
    /\ UNCHANGED << faulty, staging, job, size, next, eTags, failedParts, stored >>

CheckCompletion ==
    /\ at = "sending"
    /\ next > Parts
    /\ at' = IF failedParts = {} THEN "completing" ELSE "failed"
    /\ UNCHANGED << faulty, staging, job, size, next, eTags, failedParts, stored >>

\* The ETags are listed by their number from 1 on.  A store makes no object of no
\* part; it may fail, or its answer may be lost.
CompleteMultipartUpload ==
    /\ at = "completing"
    /\ \/ /\ eTags # {} /\ eTags = 1 .. Cardinality(eTags)
          /\ stored' = [b \in 1 .. Job!Smaller(size, MaxPart * Cardinality(eTags)) |-> b]
          /\ object' = Len(stored')
          /\ at' = "done" \/ (faulty /\ at' = "failed")
       \/ /\ faulty \/ eTags = {} \/ eTags # 1 .. Cardinality(eTags)
          /\ at' = "failed"
          /\ UNCHANGED << stored, object >>
    /\ UNCHANGED << faulty, staging, script, exit, polls, from, count, part, target,
                    found, lost, size, next, eTags, failedParts >>

Upload == Answered \/ UploadPart \/ CheckCompletion \/ CompleteMultipartUpload

-----------------------------------------------------------------------------

Request(r) == Staging!Serve(r) /\ UNCHANGED << job, client >>

Arrives(r) == Staging!Arrive(r) /\ UNCHANGED << job, client >>

\* The batch scheduler starts what was submitted.
RunJob == Own \in jobs /\ Job!Script /\ UNCHANGED << staging, client >>

KillJob == Own \in jobs /\ Job!Kill /\ UNCHANGED << staging, client >>

\* Only the lifecycle of the bucket removes an object.
Expire ==
    /\ bucket[UserOf[Own]] = "expiring"
    /\ Job!Expire
    /\ UNCHANGED << staging, client >>

Next ==
    \/ \E r \in Requests : Arrives(r) \/ Request(r)
    \/ Upload
    \/ RunJob
    \/ KillJob
    \/ Expire

\* The event loop and the client go on as long as they have something to do, and
\* each of their calls is answered or fails; the job, once submitted, runs.
Fairness ==
    /\ \A r \in Requests : WF_vars(Request(r))
    /\ WF_vars(Upload)
    /\ WF_vars(RunJob)

Spec == Init /\ [][Next]_vars /\ Fairness

-----------------------------------------------------------------------------
(* Properties.                                                              *)

\* A bucket without lifecycle is one whose creator is still about to set it or
\* has failed: no two requests leave it to each other (s3_datatransfer.py, the
\* handling of BucketAlreadyOwnedByYou).
PlainIsPending == Staging!PlainIsPending

\* If no call fails, every bucket gets the lifecycle that removes its objects in
\* time, whichever of a user's concurrent requests creates it.
BucketsExpire == Staging!BucketsExpire

\* Between two ranges the target is the beginning of the object, up to the bytes
\* counted and but for those lost on the way; a job that exits with 0 has counted
\* every byte of the object it found (job_s3_downloader.sh).
CountedIsWritten == Job!CountedIsWritten

\* The request, the client and the job together keep the promise of Delivery: in
\* particular, a job whose request or client failed leaves the target as it was.
Promise ==
    INSTANCE Delivery WITH
        Before   <- { None, Job!Old, Job!Folder },
        accepted <- CASE pc[Own] = "ok" -> "yes" [] pc[Own] = "failed" -> "no"
                      [] OTHER -> "pending",
        staged   <- stored = [b \in 1 .. size |-> b],
        replaced <- found # None,
        ended    <- script \in { "exited", "killed" }

PromiseKept == Promise!Spec

\* If nothing fails, a file that is not empty arrives, or the target is a
\* directory, or the client took longer than the job asks for the object.
FileArrives ==
    (~faulty /\ size > 0 /\ pc[Own] # "idle")
        ~> \/ exit = 0 /\ target = [b \in 1 .. size |-> b]
           \/ target = Job!Folder
           \/ polls = MaxPolls

=============================================================================
