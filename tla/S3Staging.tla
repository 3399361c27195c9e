------------------------------- MODULE S3Staging -------------------------------
(***************************************************************************)
(* What a transfer request does before its job exists: S3Datatransfer      *)
(* .upload() and .download().  Requests of a user share the user's bucket, *)
(* and run side by side on the event loop: each call of another service is *)
(* an await at which the others proceed, and may fail with or without      *)
(* having had its effect.                                                  *)
(*                                                                         *)
(* The store (S3), the batch scheduler and ssh are external.  A store may  *)
(* answer the creation of a bucket that the caller owns already with an    *)
(* error (BucketAlreadyOwnedByYou) or, as one region of AWS does, with     *)
(* success.  Module S3Upload runs the requests.                            *)
(***************************************************************************)
EXTENDS Naturals, FiniteSets

CONSTANTS
    Users,
    Requests,
    UserOf,        \* [Requests -> Users]
    Downloads      \* the requests that call download(); the others call upload()

VARIABLES
    faulty,    \* whether calls of other services may fail in this behaviour
    refuses,   \* external: whether the store answers BucketAlreadyOwnedByYou
    pc,        \* of each request: the call it makes next, "idle", "ok", "failed"
    bucket,    \* external: of each user: "none", "plain" or "expiring"
    uploads,   \* external: the requests whose multipart upload is open
    jobs       \* external: the requests whose job was submitted

params == << faulty, refuses >>

vars == << faulty, refuses, pc, bucket, uploads, jobs >>

Calls == {"stat", "bucket", "lifecycle", "multipart", "submit", "sign"}

Init ==
    /\ faulty \in BOOLEAN
    /\ refuses \in BOOLEAN
    /\ pc = [r \in Requests |-> "idle"]
    /\ bucket = [u \in Users |-> "none"]
    /\ uploads = {}
    /\ jobs = {}

\* The call before is answered, and the request goes on.
Goto(r, where) == pc' = [pc EXCEPT ![r] = where]

\* The exception leaves the handler; what was created stays.
Raise(r) == faulty /\ Goto(r, "failed")

Arrive(r) ==
    /\ pc[r] = "idle"
    /\ Goto(r, IF r \in Downloads THEN "stat" ELSE "bucket")
    /\ UNCHANGED << params, bucket, uploads, jobs >>

\* download() asks for the size of the file first, through ssh.
Stat(r) ==
    /\ pc[r] = "stat"
    /\ Goto(r, "bucket") \/ Raise(r)
    /\ UNCHANGED << params, bucket, uploads, jobs >>

Exists(u) == bucket[u] # "none"

\* Variant: the handler of BucketAlreadyOwnedByYou gets new buckets, too.
CreateBucketOnly(r) ==
    LET u == UserOf[r] IN
    /\ pc[r] = "bucket"
    /\ bucket' = [bucket EXCEPT ![u] = IF Exists(u) THEN @ ELSE "plain"]
    /\ Goto(r, "multipart") \/ Raise(r)
    /\ UNCHANGED << params, uploads, jobs >>

CreateBucket(r) ==
    LET u == UserOf[r] IN
    /\ pc[r] = "bucket"
    /\ bucket' = [bucket EXCEPT ![u] = IF Exists(u) THEN @ ELSE "plain"]
    /\ \/ Goto(r, IF Exists(u) /\ refuses THEN "multipart" ELSE "lifecycle")
       \/ Raise(r)
    /\ UNCHANGED << params, uploads, jobs >>

PutLifecycle(r) ==
    /\ pc[r] = "lifecycle"
    /\ bucket' = [bucket EXCEPT ![UserOf[r]] = "expiring"]
    /\ Goto(r, "multipart") \/ Raise(r)
    /\ UNCHANGED << params, uploads, jobs >>

\* The presigned URLs that follow are computed without a call.
CreateMultipart(r) ==
    /\ pc[r] = "multipart"
    /\ uploads' = uploads \cup {r}
    /\ Goto(r, "submit") \/ Raise(r)
    /\ UNCHANGED << params, bucket, jobs >>

\* upload() is done with it; download() still opens the public client.
Submit(r) ==
    /\ pc[r] = "submit"
    /\ jobs' = jobs \cup {r}
    /\ Goto(r, IF r \in Downloads THEN "sign" ELSE "ok") \/ Raise(r)
    /\ UNCHANGED << params, bucket, uploads >>

Sign(r) ==
    /\ pc[r] = "sign"
    /\ Goto(r, "ok") \/ Raise(r)
    /\ UNCHANGED << params, bucket, uploads, jobs >>

\* A call that fails before it has its effect.
Fail(r) ==
    /\ pc[r] \in Calls
    /\ Raise(r)
    /\ UNCHANGED << params, bucket, uploads, jobs >>

-----------------------------------------------------------------------------

Serve(r) ==
    \/ Stat(r) \/ CreateBucket(r) \/ PutLifecycle(r) \/ CreateMultipart(r)
    \/ Submit(r) \/ Sign(r) \/ Fail(r)

-----------------------------------------------------------------------------
(* Properties.                                                              *)

\* A bucket without lifecycle is one whose creator is still about to set it
\* or has failed: no two requests leave it to each other.
PlainIsPending ==
    \A u \in Users : bucket[u] = "plain" =>
        \E r \in Requests : UserOf[r] = u /\ pc[r] \in {"lifecycle", "failed"}

\* If no call fails, every bucket gets the lifecycle that removes its objects
\* in time, whichever of a user's concurrent requests creates it.
BucketsExpire ==
    \A u \in Users : (Exists(u) /\ ~faulty) ~> (bucket[u] = "expiring")

=============================================================================
