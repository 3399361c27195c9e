---------------------------- MODULE S3UploadProofs ----------------------------
(***************************************************************************)
(* Proofs about S3Upload, for any users, requests, sizes and part lengths: *)
(* no two requests of a user leave the lifecycle of a new bucket to each   *)
(* other, and the request, the client and the job together implement       *)
(* Delivery.                                                               *)
(***************************************************************************)
EXTENDS S3Upload, FiniteSetTheorems, SequenceTheorems, TLAPS

(***************************************************************************)
(* The requests.                                                           *)
(***************************************************************************)

PCs == { "idle", "stat", "bucket", "lifecycle", "multipart", "submit", "sign", "ok", "failed" }

RequestsInv ==
    /\ pc \in [Requests -> PCs]
    /\ bucket \in [Users -> { "none", "plain", "expiring" }]
    /\ PlainIsPending

\* The steps of the client, of the job and of the store leave the requests alone.
LEMMA OthersKeepRequests ==
    ASSUME Upload \/ RunJob \/ KillJob \/ Expire
    PROVE  UNCHANGED staging
BY DEF Upload, Answered, UploadPart, CheckCompletion, CompleteMultipartUpload,
       RunJob, KillJob, Expire

\* A request that finds no bucket is the one that sets the lifecycle of its own.
LEMMA RequestsStep == RequestsInv /\ [Next]_vars => RequestsInv'
<1> SUFFICES ASSUME RequestsInv, [Next]_vars PROVE RequestsInv'
  OBVIOUS
<1> USE UploadAssumption DEF RequestsInv, PCs, PlainIsPending, Staging!PlainIsPending,
        Staging!Goto, Staging!Raise
<1>1. ASSUME NEW r \in Requests, Staging!Arrive(r) PROVE RequestsInv'
  BY <1>1 DEF Staging!Arrive
<1>2. ASSUME NEW r \in Requests, Staging!Stat(r) PROVE RequestsInv'
  BY <1>2 DEF Staging!Stat
<1>3. ASSUME NEW r \in Requests, Staging!CreateBucket(r) PROVE RequestsInv'
  BY <1>3 DEF Staging!CreateBucket, Staging!Exists
<1>4. ASSUME NEW r \in Requests, Staging!PutLifecycle(r) PROVE RequestsInv'
  BY <1>4 DEF Staging!PutLifecycle
<1>5. ASSUME NEW r \in Requests, Staging!CreateMultipart(r) PROVE RequestsInv'
  BY <1>5 DEF Staging!CreateMultipart
<1>6. ASSUME NEW r \in Requests, Staging!Submit(r) PROVE RequestsInv'
  BY <1>6 DEF Staging!Submit
<1>7. ASSUME NEW r \in Requests, Staging!Sign(r) PROVE RequestsInv'
  BY <1>7 DEF Staging!Sign
<1>8. ASSUME NEW r \in Requests, Staging!Fail(r) PROVE RequestsInv'
  BY <1>8 DEF Staging!Fail
<1>9. CASE UNCHANGED staging
  BY <1>9 DEF staging
<1> QED
  BY <1>1, <1>2, <1>3, <1>4, <1>5, <1>6, <1>7, <1>8, <1>9, OthersKeepRequests
  DEF Next, Arrives, Request, Staging!Serve, vars

(***************************************************************************)
(* The client and the job.                                                 *)
(*                                                                         *)
(* What the client has sent when it completes the upload, what an object   *)
(* in the store is, and where the job is in the target.                    *)
(***************************************************************************)

Whole == [b \in 1 .. size |-> b]

\* Positions of the file up to n, each once and in order.
Ascends(s, n) ==
    /\ s \in Seq(Nat)
    /\ \A i \in 1 .. Len(s) : s[i] \in 1 .. size /\ s[i] <= n
    /\ \A i, j \in 1 .. Len(s) : i < j => s[i] < s[j]

ClientInv ==
    /\ size \in Nat
    /\ next \in Nat \ { 0 } /\ next <= Parts + 1
    /\ at \in { "asking", "sending", "completing", "done", "failed" }
    /\ at \in { "sending", "completing" } =>
         pc[Own] = "ok" /\ eTags \cup failedParts = 1 .. next - 1
    /\ at = "asking" => next = 1 /\ eTags = {} /\ failedParts = {}
    /\ at = "completing" => failedParts = {} /\ next = Parts + 1
    /\ at \in { "asking", "sending", "completing" } => stored = None
    /\ stored \in { None, Whole }

StoreInv == object = None \/ (object = size /\ stored = Whole)

JobInv ==
    /\ script \in { "start", "poll", "fetch", "append", "exited", "killed" }
    /\ from \in Nat
    /\ found \in { None, size }
    /\ script \in { "start", "poll" } => found = None
    /\ script \in { "fetch", "append" } =>
         found = size /\ target \in { None } \cup Seq(Nat) /\ Ascends(Job!File(target), from)
    /\ script = "append" =>
         /\ part \in Seq(Nat)
         /\ Len(part) <= MaxPart
         /\ \A i \in 1 .. Len(part) : part[i] = from + i /\ part[i] <= size

UploadInv == ClientInv /\ StoreInv /\ JobInv

\* ceil(n / m) parts of length m are enough for n bytes.
LEMMA Ceiling ==
    ASSUME NEW n \in Nat, NEW m \in Nat \ { 0 }
    PROVE  /\ (n + m - 1) \div m \in Nat
           /\ n <= m * ((n + m - 1) \div m)
<1> DEFINE q == (n + m - 1) \div m
<1>1. q \in Int
  OBVIOUS
<1>2. n + m - 1 \in Nat /\ n + m - 1 < m * (q + 1)
  BY SMTT(30)
<1>3. q >= 0
  BY SMTT(30)
<1>4. m * (q + 1) = m * q + m
  BY <1>1
<1> QED
  BY <1>1, <1>2, <1>3, <1>4

\* None is neither a file nor a size.
LEMMA NoFile == size \in Nat => Whole \in Seq(Nat) /\ Len(Whole) = size /\ Whole # None /\ size # None
BY UploadAssumption DEF Whole

\* An upload that is completed is that of the whole file.
LEMMA CompletedIsWhole ==
    ASSUME ClientInv, CompleteMultipartUpload
    PROVE  \/ stored' = Whole /\ object' = size
           \/ UNCHANGED << stored, object >>
<1>1. Parts \in Nat /\ size <= MaxPart * Parts
  BY Ceiling, UploadAssumption DEF ClientInv, Parts
<1>2. eTags = 1 .. Parts
  <2>1. failedParts = {} /\ next - 1 = Parts /\ eTags \cup failedParts = 1 .. next - 1
    BY <1>1 DEF ClientInv, CompleteMultipartUpload
  <2> QED
    BY <2>1
<1>3. Cardinality(eTags) = Parts
  BY <1>1, <1>2, FS_Interval
<1>4. Job!Smaller(size, MaxPart * Parts) = size
  BY <1>1, UploadAssumption DEF Job!Smaller, ClientInv
<1>5. Len(Whole) = size
  BY NoFile DEF ClientInv
<1> QED
  BY <1>3, <1>4, <1>5 DEF CompleteMultipartUpload, Whole

\* What is appended to the target are the next bytes of the file.
LEMMA AppendAscends ==
    ASSUME JobInv, size \in Nat, script = "append", NEW k \in 0 .. Len(part),
           target' = Job!File(target) \o SubSeq(part, 1, k)
    PROVE  /\ target' \in Seq(Nat)
           /\ Ascends(target', from + MaxPart)
           /\ Job!File(target) = SubSeq(target', 1, Len(Job!File(target)))
<1> DEFINE old == Job!File(target)
           more == SubSeq(part, 1, k)
<1>1. old \in Seq(Nat) /\ Len(old) \in Nat
  BY DEF JobInv, Ascends
<1>2. part \in Seq(Nat) /\ Len(part) \in Nat /\ Len(part) <= MaxPart
  BY DEF JobInv
<1>3. /\ more \in Seq(Nat) /\ Len(more) = k
      /\ \A i \in 1 .. k : more[i] = part[i]
  BY <1>2, SubSeqProperties
<1>4. /\ target' \in Seq(Nat)
      /\ Len(target') = Len(old) + k
      /\ \A i \in 1 .. Len(old) + k : target'[i] = IF i <= Len(old) THEN old[i] ELSE more[i - Len(old)]
  BY <1>1, <1>3, ConcatProperties
<1>5. \A i \in 1 .. k : more[i] = from + i /\ more[i] <= size /\ i <= MaxPart
  BY <1>2, <1>3, UploadAssumption DEF JobInv
<1>6. \A i \in 1 .. Len(old) : old[i] \in 1 .. size /\ old[i] <= from
  BY DEF JobInv, Ascends
<1>7. \A i, j \in 1 .. Len(old) : i < j => old[i] < old[j]
  BY DEF JobInv, Ascends
<1>8. from \in Nat /\ MaxPart \in Nat
  BY UploadAssumption DEF JobInv
<1>9. \A i \in 1 .. Len(old) + k : target'[i] \in 1 .. size /\ target'[i] <= from + MaxPart
  <2> SUFFICES ASSUME NEW i \in 1 .. Len(old) + k
               PROVE  target'[i] \in 1 .. size /\ target'[i] <= from + MaxPart
    OBVIOUS
  <2>1. CASE i <= Len(old)
    <3>1. target'[i] = old[i] /\ i \in 1 .. Len(old)
      BY <2>1, <1>1, <1>4
    <3> QED
      BY <3>1, <1>1, <1>6, <1>8
  <2>2. CASE i > Len(old)
    <3>1. i - Len(old) \in 1 .. k
      BY <2>2, <1>1, <1>2
    <3>2. target'[i] = more[i - Len(old)]
      BY <2>2, <1>1, <1>4
    <3>3. PICK m \in 1 .. k : target'[i] = more[m]
      BY <3>1, <3>2
    <3>4. target'[i] = from + m /\ target'[i] <= size /\ m <= MaxPart
      BY <1>5, <3>3
    <3> QED
      BY <3>4, <1>8
  <2> QED
    BY <2>1, <2>2, <1>1, <1>2
<1>10. \A i, j \in 1 .. Len(old) + k : i < j => target'[i] < target'[j]
  <2> SUFFICES ASSUME NEW i \in 1 .. Len(old) + k, NEW j \in 1 .. Len(old) + k, i < j
               PROVE  target'[i] < target'[j]
    OBVIOUS
  <2>1. CASE j <= Len(old)
    <3>1. target'[i] = old[i] /\ target'[j] = old[j] /\ i \in 1 .. Len(old) /\ j \in 1 .. Len(old)
      BY <2>1, <1>1, <1>4
    <3> QED
      BY <3>1, <1>7
  <2>2. CASE j > Len(old) /\ i <= Len(old)
    <3>1. j - Len(old) \in 1 .. k /\ i \in 1 .. Len(old)
      BY <2>2, <1>1, <1>2
    <3>2. target'[i] = old[i] /\ target'[j] = more[j - Len(old)]
      BY <2>2, <1>1, <1>4
    <3> QED
      BY <3>1, <3>2, <1>5, <1>6, <1>8
  <2>3. CASE i > Len(old)
    <3>1. i - Len(old) \in 1 .. k /\ j - Len(old) \in 1 .. k
      BY <2>3, <1>1, <1>2
    <3>2. target'[i] = more[i - Len(old)] /\ target'[j] = more[j - Len(old)]
      BY <2>3, <1>1, <1>4
    <3> QED
      BY <3>1, <3>2, <1>1, <1>2, <1>5, <1>8
  <2>4. i \in Int /\ j \in Int /\ Len(old) \in Int
    BY <1>1, <1>2
  <2> QED
    BY <2>1, <2>2, <2>3, <2>4
<1>11. old = SubSeq(target', 1, Len(old))
  <2>1. \A i \in 1 .. Len(old) : i \in 1 .. Len(old) + k /\ target'[i] \in Nat
    BY <1>1, <1>2, <1>4, <1>6
  <2>2. /\ SubSeq(target', 1, Len(old)) \in Seq(Nat)
        /\ Len(SubSeq(target', 1, Len(old))) = Len(old)
        /\ \A i \in 1 .. Len(old) : SubSeq(target', 1, Len(old))[i] = target'[i]
    BY <2>1, <1>1, SubSeqProperties
  <2> QED
    BY <2>1, <2>2, <1>1, <1>4, SeqEqual
<1> QED
  BY <1>4, <1>9, <1>10, <1>11 DEF Ascends

\* The bytes that a range has brought are behind those that are there.
LEMMA AppendHolds ==
    ASSUME JobInv, size \in Nat, script = "append", NEW k \in 0 .. Len(part),
           target' = Job!File(target) \o SubSeq(part, 1, k),
           Job!Holds(Job!File(target), from), NEW n \in Nat, from + Len(part) <= n,
           lost \cap (from + 1 .. n) = from + Len(part) + 1 .. n,
           lost' = lost \cup { part[i] : i \in k + 1 .. Len(part) }
    PROVE  Job!Holds(target, n)'
<1> DEFINE old == Job!File(target)
           more == SubSeq(part, 1, k)
<1>1. old \in Seq(Nat) /\ Len(old) \in Nat /\ DOMAIN old = 1 .. Len(old)
  BY DEF JobInv, Ascends
<1>2. part \in Seq(Nat) /\ Len(part) \in Nat /\ from \in Nat
  BY DEF JobInv
<1>3. more \in Seq(Nat) /\ Len(more) = k /\ \A i \in 1 .. k : more[i] = from + i
  BY <1>2, SubSeqProperties DEF JobInv
<1>4. /\ target' \in Seq(Nat) /\ Len(target') = Len(old) + k /\ DOMAIN target' = 1 .. Len(old) + k
      /\ \A i \in 1 .. Len(old) + k : target'[i] = IF i <= Len(old) THEN old[i] ELSE more[i - Len(old)]
  BY <1>1, <1>3, ConcatProperties
<1>5. \A b : b \in lost' <=> b \in lost \/ b \in from + k + 1 .. from + Len(part)
  <2>1. \A i \in k + 1 .. Len(part) : part[i] = from + i
    BY <1>2 DEF JobInv
  <2>2. ASSUME NEW b \in from + k + 1 .. from + Len(part)
        PROVE  \E i \in k + 1 .. Len(part) : part[i] = b
    <3>1. b - from \in k + 1 .. Len(part) /\ from + (b - from) = b
      BY <1>2
    <3> QED
      BY <2>1, <3>1
  <2>3. ASSUME NEW i \in k + 1 .. Len(part) PROVE part[i] \in from + k + 1 .. from + Len(part)
    <3>1. part[i] = from + i
      BY <2>1
    <3> QED
      BY <3>1, <1>2
  <2> QED
    BY <2>2, <2>3
<1>6. \A i \in 1 .. Len(old) : target'[i] = old[i]
  BY <1>1, <1>4
<1>7. \A i \in 1 .. k : Len(old) + i \in 1 .. Len(old) + k /\ target'[Len(old) + i] = from + i
  BY <1>1, <1>3, <1>4
<1>8. { old[i] : i \in 1 .. Len(old) } = (1 .. from) \ lost
  BY <1>1 DEF Job!Holds
<1>9. { target'[i] : i \in 1 .. Len(old) + k } = ((1 .. from) \ lost) \cup (from + 1 .. from + k)
  <2>1. ASSUME NEW i \in 1 .. Len(old) + k
        PROVE  target'[i] \in ((1 .. from) \ lost) \cup (from + 1 .. from + k)
    <3>1. CASE i <= Len(old)
      <4>1. i \in 1 .. Len(old)
        BY <3>1, <1>1
      <4> QED
        BY <4>1, <1>6, <1>8
    <3>2. CASE i > Len(old)
      <4>1. i - Len(old) \in 1 .. k /\ Len(old) + (i - Len(old)) = i
        BY <3>2, <1>1
      <4>2. target'[i] = from + (i - Len(old))
        BY <4>1, <1>7
      <4>3. target'[i] \in from + 1 .. from + k
        BY <4>1, <4>2, <1>2
      <4> QED
        BY <4>3
    <3> QED
      BY <3>1, <3>2, <1>1
  <2>2. ASSUME NEW b \in (1 .. from) \ lost PROVE \E i \in 1 .. Len(old) + k : target'[i] = b
    <3>1. PICK i \in 1 .. Len(old) : old[i] = b
      BY <2>2, <1>8
    <3>2. i \in 1 .. Len(old) + k
      BY <1>1
    <3> QED
      BY <3>1, <3>2, <1>6
  <2>3. ASSUME NEW b \in from + 1 .. from + k PROVE \E i \in 1 .. Len(old) + k : target'[i] = b
    <3>1. b - from \in 1 .. k /\ from + (b - from) = b
      BY <1>2
    <3> QED
      BY <3>1, <1>7
  <2> QED
    BY <2>1, <2>2, <2>3
<1>10. (1 .. n) \ lost' = ((1 .. from) \ lost) \cup (from + 1 .. from + k)
  <2>1. ASSUME NEW b \in 1 .. from PROVE b \in 1 .. n /\ b \notin from + k + 1 .. from + Len(part)
    BY <1>2
  <2>2. ASSUME NEW b \in from + 1 .. from + k
        PROVE  b \in 1 .. n /\ b \notin lost /\ b \notin from + k + 1 .. from + Len(part)
    <3>1. b \in from + 1 .. n /\ b \notin from + Len(part) + 1 .. n
      BY <1>2
    <3>2. b \in 1 .. n /\ b \notin from + k + 1 .. from + Len(part)
      BY <1>2
    <3> QED
      BY <3>1, <3>2
  <2>3. ASSUME NEW b \in 1 .. n, b \notin 1 .. from, b \notin from + 1 .. from + k
        PROVE  b \in lost \/ b \in from + k + 1 .. from + Len(part)
    <3>1. b \in from + k + 1 .. from + Len(part) \/ b \in from + Len(part) + 1 .. n
      BY <2>3, <1>2
    <3> QED
      BY <3>1
  <2>4. \A b : b \in (1 .. n) \ lost' <=> b \in ((1 .. from) \ lost) \cup (from + 1 .. from + k)
    BY <2>1, <2>2, <2>3, <1>5
  <2> QED
    BY <2>4
<1>11. \A i, j \in 1 .. Len(old) + k : i < j => target'[i] < target'[j]
  BY UploadAssumption, AppendAscends, <1>4 DEF Ascends
<1> QED
  BY <1>4, <1>9, <1>10, <1>11 DEF Job!Holds

\* The request: its answer is given once.
LEMMA AnswerStays ==
    ASSUME RequestsInv, NEW r \in Requests, Arrives(r) \/ Request(r)
    PROVE  /\ UNCHANGED << job, client >>
           /\ pc[Own] \in { "ok", "failed" } => pc'[Own] = pc[Own]
BY UploadAssumption
   DEF Arrives, Request, RequestsInv, PCs, Staging!Arrive, Staging!Serve, Staging!Stat,
       Staging!CreateBucket, Staging!PutLifecycle, Staging!CreateMultipart, Staging!Submit,
       Staging!Sign, Staging!Fail, Staging!Goto, Staging!Raise, Staging!Calls

LEMMA UploadStep == RequestsInv /\ UploadInv /\ [Next]_vars => UploadInv'
<1> SUFFICES ASSUME RequestsInv, UploadInv, [Next]_vars PROVE UploadInv'
  OBVIOUS
<1> USE DEF UploadInv
<1>0. Parts \in Nat
  BY Ceiling, UploadAssumption DEF ClientInv, Parts
<1>1. ASSUME NEW r \in Requests, Arrives(r) \/ Request(r) PROVE UploadInv'
  <2>1. UNCHANGED << job, client >> /\ (pc[Own] = "ok" => pc'[Own] = pc[Own])
    BY <1>1, AnswerStays
  <2>2. ClientInv'
    BY <2>1 DEF ClientInv, Whole, Parts, client
  <2> QED
    BY <2>1, <2>2 DEF StoreInv, JobInv, Ascends, Whole, Job!File, job, client
<1>2. CASE Answered
  <2>1. UNCHANGED << staging, job, size, next, eTags, failedParts, stored >> /\ at = "asking"
    BY <1>2 DEF Answered
  <2>2. ClientInv'
    BY <1>2, <2>1, <1>0 DEF Answered, ClientInv, Parts, Whole, staging
  <2> QED
    BY <2>1, <2>2 DEF StoreInv, JobInv, Ascends, Whole, Job!File, job
<1>3. CASE UploadPart
  <2>1. UNCHANGED << staging, job, size, at, stored >>
    BY <1>3 DEF UploadPart
  <2>2. eTags' \cup failedParts' = 1 .. next' - 1
    BY <1>3 DEF UploadPart, ClientInv
  <2>3. ClientInv'
    BY <1>3, <2>1, <2>2, <1>0 DEF UploadPart, ClientInv, Parts, Whole, staging
  <2> QED
    BY <2>1, <2>3 DEF StoreInv, JobInv, Ascends, Whole, Job!File, job
<1>4. CASE CheckCompletion
  <2>1. UNCHANGED << staging, job, size, next, eTags, failedParts, stored >>
    BY <1>4 DEF CheckCompletion
  <2>2. ClientInv'
    BY <1>4, <2>1, <1>0 DEF CheckCompletion, ClientInv, Parts, Whole, staging
  <2> QED
    BY <2>1, <2>2 DEF StoreInv, JobInv, Ascends, Whole, Job!File, job
<1>5. CASE CompleteMultipartUpload
  <2>1. /\ UNCHANGED << staging, script, from, part, target, found, size, next, eTags, failedParts >>
        /\ at' \in { "done", "failed" }
    BY <1>5 DEF CompleteMultipartUpload
  <2>2. Whole' = Whole
    BY <2>1 DEF Whole
  <2>3. ClientInv'
    BY <2>1, <2>2, <1>5, CompletedIsWhole, <1>0 DEF ClientInv, Parts
  <2>4. StoreInv'
    BY <2>1, <2>2, <1>5, CompletedIsWhole DEF StoreInv
  <2> QED
    BY <2>1, <2>3, <2>4 DEF JobInv, Ascends, Job!File
<1>6. CASE RunJob
  <2>1. UNCHANGED << staging, client, object >>
    BY <1>6 DEF RunJob, Job!Script, Job!TargetIsFolder, Job!Begin, Job!Find, Job!Poll, Job!Fetch,
       Job!FetchFails, Job!Enqueue, Job!ExitWith
  <2>2. ClientInv' /\ StoreInv'
    BY <2>1 DEF ClientInv, StoreInv, Parts, Whole, staging, client
  <2>3. size' = size /\ size \in Nat
    BY <2>1 DEF ClientInv, client
  <2>4. CASE Job!TargetIsFolder \/ Job!FetchFails \/ Job!Begin \/ Job!Poll
    BY <2>2, <2>3, <2>4 DEF Job!TargetIsFolder, Job!FetchFails, Job!Begin, Job!Poll, Job!ExitWith, JobInv
  <2>5. CASE Job!Find
    <3>1. Ascends(Job!File(None), from)
      BY DEF Ascends, Job!File
    <3>2. object = size
      BY <2>5 DEF Job!Find, StoreInv
    <3>3. Ascends(Job!File(target), from)'
      BY <2>5, <2>3, <3>1 DEF Job!Find, Ascends, Job!File
    <3> QED
      BY <2>2, <2>3, <2>5, <3>2, <3>3 DEF Job!Find, JobInv
  <2>6. CASE Job!Fetch
    <3>1. object = size /\ from \in Nat /\ from < size
      BY <2>6 DEF Job!Fetch, StoreInv, JobInv
    <3> DEFINE n == Job!Smaller(MaxPart, object - from)
    <3>2. n \in Nat /\ n <= MaxPart /\ from + n <= size
      BY <3>1, <2>3, UploadAssumption DEF Job!Smaller
    <3>3. Job!Range = [i \in 1 .. n |-> from + i]
      BY DEF Job!Range
    <3>4. Job!Range \in Seq(Nat) /\ Len(Job!Range) = n /\ \A i \in 1 .. n : Job!Range[i] = from + i
      BY <3>1, <3>2, <3>3
    <3>5. PICK k \in 0 .. n : part' = SubSeq(Job!Range, 1, k)
      BY <2>6, <3>4 DEF Job!Fetch
    <3>6. /\ part' \in Seq(Nat) /\ Len(part') = k
          /\ \A i \in 1 .. k : part'[i] = from + i
      BY <3>2, <3>4, <3>5, SubSeqProperties
    <3>7. script' = "append" /\ UNCHANGED << from, target, found >> /\ script = "fetch"
      BY <2>6 DEF Job!Fetch
    <3>8. Ascends(Job!File(target), from)' 
      BY <3>7, <2>3 DEF JobInv, Ascends, Job!File
    <3>9. Len(part') <= MaxPart /\ \A i \in 1 .. Len(part') : part'[i] = from + i /\ part'[i] <= size
      BY <3>1, <3>2, <3>5, <3>6, <2>3, UploadAssumption
    <3>10. JobInv'
      BY <3>6, <3>7, <3>8, <3>9, <2>3 DEF JobInv
    <3> QED
      BY <2>2, <3>10
  <2>7. CASE Job!Enqueue
    <3>1. PICK k \in 0 .. Len(part) : target' = Job!File(target) \o SubSeq(part, 1, k)
      BY <2>7 DEF Job!Enqueue
    <3>2. script = "append" /\ UNCHANGED found
      BY <2>7 DEF Job!Enqueue
    <3>3. target' \in Seq(Nat) /\ Ascends(target', from + MaxPart)
      BY <2>3, <3>1, <3>2, AppendAscends
    <3>4. target' # None
      BY <3>3, UploadAssumption
    <3>5. CASE script' = "exited"
      BY <2>7, <3>2, <3>5, <2>2, <2>3 DEF JobInv, Job!Enqueue
    <3>6. CASE script' = "fetch" /\ from' = from + MaxPart
      <4>1. Ascends(Job!File(target), from)'
        BY <3>3, <3>4, <3>6, <2>3 DEF Ascends, Job!File
      <4> QED
        BY <3>2, <3>3, <3>6, <4>1, <2>2, <2>3, UploadAssumption DEF JobInv
    <3> QED
      BY <2>7, <3>5, <3>6 DEF Job!Enqueue
  <2> QED
    BY <1>6, <2>4, <2>5, <2>6, <2>7 DEF RunJob, Job!Script
<1>7. CASE KillJob
  <2>1. UNCHANGED << staging, client, object, from, found >> /\ script' = "killed"
    BY <1>7 DEF KillJob, Job!Kill
  <2> QED
    BY <2>1 DEF ClientInv, StoreInv, JobInv, Parts, Whole, staging, client
<1>8. CASE Expire
  <2>1. UNCHANGED << staging, client, script, from, found, target, part >> /\ object' = None
    BY <1>8 DEF Expire, Job!Expire
  <2> QED
    BY <2>1 DEF ClientInv, StoreInv, JobInv, Ascends, Parts, Whole, Job!File, staging, client
<1>9. CASE UNCHANGED vars
  BY <1>9 DEF vars, staging, job, client, ClientInv, StoreInv, JobInv, Ascends, Parts, Whole, Job!File
<1> QED
  BY <1>1, <1>2, <1>3, <1>4, <1>5, <1>6, <1>7, <1>8, <1>9 DEF Next, Upload

(***************************************************************************)
(* The job counts what it asked for and writes what came of it.            *)
(***************************************************************************)

Behind(n) == Job!Holds(Job!File(target), n)

\* In a range nothing is lost yet but its end, which is not in the part file.
CountInv ==
    /\ count \in Nat
    /\ lost \subseteq 1 .. count
    /\ script # "exited" => exit = None
    /\ script \in { "start", "poll" } => count = 0 /\ from = 0
    /\ script = "fetch" => from = count /\ Behind(count)
    /\ script = "append" =>
         /\ count = Job!Smaller(from + MaxPart, size)
         /\ from + Len(part) <= count
         /\ lost \cap (from + 1 .. count) = from + Len(part) + 1 .. count
         /\ Behind(from)
    /\ script = "exited" /\ found # None => Behind(count) /\ (exit = 0 => count = found)

LEMMA CountFollows == ClientInv /\ CountInv => CountedIsWritten
BY UploadAssumption DEF ClientInv, CountInv, Behind, CountedIsWritten, Job!CountedIsWritten

LEMMA InitCount == Init => CountInv
BY DEF Init, Job!Init, CountInv

LEMMA CountStep == RequestsInv /\ UploadInv /\ CountInv /\ [Next]_vars => CountInv'
<1> SUFFICES ASSUME RequestsInv, UploadInv, CountInv, [Next]_vars PROVE CountInv'
  OBVIOUS
<1>1. size \in Nat /\ None \notin Nat /\ MaxPart \in Nat \ { 0 } /\ None \notin Seq(Nat)
  BY UploadAssumption DEF UploadInv, ClientInv
<1>2. ASSUME UNCHANGED << script, from, target, part, found, lost, count, exit, size >>
      PROVE  CountInv'
  BY <1>2 DEF CountInv, Behind, Job!Holds, Job!File
<1>3. ASSUME NEW r \in Requests, Arrives(r) \/ Request(r) PROVE CountInv'
  BY <1>2, <1>3, AnswerStays DEF job, client
<1>4. CASE Upload
  BY <1>2, <1>4 DEF Upload, Answered, UploadPart, CheckCompletion, CompleteMultipartUpload, job
<1>5. CASE Expire \/ UNCHANGED vars
  BY <1>2, <1>5 DEF Expire, Job!Expire, vars, job, client
<1>6. CASE KillJob
  BY <1>6 DEF KillJob, Job!Kill, CountInv
<1>7. CASE RunJob
  <2>1. size' = size
    BY <1>7 DEF RunJob, client
  <2>2. CASE Job!TargetIsFolder \/ Job!Begin \/ Job!Poll
    <3>1. found = None /\ script \in { "start", "poll" } /\ script' \in { "poll", "exited" }
      BY <2>2 DEF Job!TargetIsFolder, Job!Begin, Job!Poll, Job!ExitWith, UploadInv, JobInv
    <3>2. UNCHANGED << count, lost, from, found >> /\ (script' # "exited" => UNCHANGED exit)
      BY <2>2 DEF Job!TargetIsFolder, Job!Begin, Job!Poll, Job!ExitWith
    <3> QED
      BY <3>1, <3>2 DEF CountInv
  <2>3. CASE Job!Find
    <3>1. /\ script = "poll" /\ script' = "fetch" /\ target' = None
          /\ UNCHANGED << count, lost, from, exit >>
      BY <2>3 DEF Job!Find
    <3>2. Behind(0)'
      BY <3>1 DEF Behind, Job!Holds, Job!File
    <3> QED
      BY <3>1, <3>2 DEF CountInv
  <2>4. CASE Job!Fetch
    <3>1. object = size /\ found = size /\ from \in Nat /\ from < size /\ script = "fetch" /\ from = count
      BY <2>4 DEF Job!Fetch, UploadInv, StoreInv, JobInv, CountInv
    <3> DEFINE n == Job!Smaller(MaxPart, object - from)
    <3>2. n \in Nat /\ from + n = Job!Smaller(from + MaxPart, size)
      BY <3>1, <1>1 DEF Job!Smaller
    <3>3. Job!Range \in Seq(Nat) /\ Len(Job!Range) = n /\ \A i \in 1 .. n : Job!Range[i] = from + i
      BY <3>1, <3>2 DEF Job!Range
    <3>4. PICK k \in 0 .. n :
             /\ part' = SubSeq(Job!Range, 1, k)
             /\ lost' = lost \cup { Job!Range[i] : i \in k + 1 .. n }
      BY <2>4, <3>3 DEF Job!Fetch
    <3>5. Len(part') = k /\ count' = from + n
      BY <2>4, <3>1, <3>2, <3>3, <3>4, SubSeqProperties DEF Job!Fetch
    <3>6. \A b : b \in lost' <=> b \in lost \/ b \in from + k + 1 .. from + n
      <4>1. ASSUME NEW b \in from + k + 1 .. from + n
            PROVE  \E i \in k + 1 .. n : Job!Range[i] = b
        <5>1. b - from \in k + 1 .. n /\ b - from \in 1 .. n /\ from + (b - from) = b
          BY <3>1, <3>2
        <5> QED
          BY <3>3, <5>1
      <4>2. ASSUME NEW i \in k + 1 .. n PROVE Job!Range[i] \in from + k + 1 .. from + n
        <5>1. Job!Range[i] = from + i
          BY <3>2, <3>3
        <5> QED
          BY <5>1, <3>1, <3>2
      <4> QED
        BY <3>4, <4>1, <4>2
    <3> HIDE DEF n
    <3>7. script' = "append" /\ UNCHANGED << from, target, exit >>
      BY <2>4 DEF Job!Fetch
    <3>8. lost \subseteq 1 .. from
      BY <3>1 DEF CountInv
    <3>9. lost' \subseteq 1 .. count'
      <4>1. \A b \in 1 .. from : b \in 1 .. from + n
        BY <3>1, <3>2
      <4>2. \A b \in from + k + 1 .. from + n : b \in 1 .. from + n
        BY <3>1, <3>2
      <4> QED
        BY <3>5, <3>6, <3>8, <4>1, <4>2
    <3>10. lost' \cap (from + 1 .. count') = from + k + 1 .. count'
      BY <3>1, <3>2, <3>5, <3>6, <3>8
    <3>11. Behind(from)'
      <4>1. \A b \in 1 .. from : b \in lost' <=> b \in lost
        BY <3>1, <3>2, <3>6
      <4>2. (1 .. from) \ lost' = (1 .. from) \ lost
        BY <4>1
      <4>3. Job!File(target)' = Job!File(target) /\ Behind(from)
        BY <3>1, <3>7 DEF CountInv, Job!File
      <4> QED
        BY <3>7, <4>2, <4>3 DEF Behind, Job!Holds
    <3> QED
      BY <2>1, <3>1, <3>2, <3>5, <3>7, <3>9, <3>10, <3>11 DEF CountInv
  <2>5. CASE Job!FetchFails
    <3>1. /\ script = "fetch" /\ script' = "exited" /\ exit' = 1
          /\ UNCHANGED << count, lost, from, found, target >>
      BY <2>5 DEF Job!FetchFails, Job!ExitWith
    <3>2. Behind(count)'
      BY <3>1 DEF CountInv, Behind, Job!Holds, Job!File
    <3> QED
      BY <3>1, <3>2 DEF CountInv
  <2>6. CASE Job!Enqueue
    <3>1. PICK k \in 0 .. Len(part) :
             /\ target' = Job!File(target) \o SubSeq(part, 1, k)
             /\ lost' = lost \cup { part[i] : i \in k + 1 .. Len(part) }
      BY <2>6 DEF Job!Enqueue
    <3>2. /\ script = "append" /\ UNCHANGED << found, count >> /\ found = size
          /\ JobInv /\ from \in Nat /\ Len(part) \in Nat
      BY <2>6 DEF Job!Enqueue, UploadInv, JobInv
    <3>3. /\ count \in Nat /\ count = Job!Smaller(from + MaxPart, size) /\ Behind(from)
          /\ from + Len(part) <= count
          /\ lost \cap (from + 1 .. count) = from + Len(part) + 1 .. count
      BY <3>2 DEF CountInv
    <3>4. Job!Holds(target, count)'
      BY <1>1, <3>1, <3>2, <3>3, AppendHolds DEF Behind, Job!Holds
    <3>5. target' \in Seq(Nat)
      BY <1>1, <3>1, <3>2, AppendAscends
    <3>6. Behind(count)'
      BY <1>1, <3>4, <3>5 DEF Behind, Job!File
    <3>7. lost' \subseteq 1 .. count'
      <4>1. ASSUME NEW i \in k + 1 .. Len(part) PROVE part[i] \in 1 .. count
        <5>1. i \in 1 .. Len(part) /\ part[i] = from + i
          BY <3>2 DEF JobInv
        <5> QED
          BY <5>1, <3>2, <3>3
      <4> QED
        BY <3>1, <3>2, <4>1 DEF CountInv
    <3>8. CASE script' = "exited"
      <4>1. size <= count /\ count = size
        BY <1>1, <2>6, <3>2, <3>3, <3>8 DEF Job!Enqueue, Job!AllCounted, Job!Smaller
      <4> QED
        BY <3>2, <3>3, <3>6, <3>7, <3>8, <4>1 DEF CountInv
    <3>9. CASE script' = "fetch"
      <4>1. /\ from' = from + MaxPart /\ count < size /\ UNCHANGED exit
        BY <1>1, <2>6, <3>2, <3>3, <3>9 DEF Job!Enqueue, Job!AllCounted
      <4>2. from' = count'
        BY <1>1, <3>2, <3>3, <4>1 DEF Job!Smaller
      <4> QED
        BY <3>2, <3>3, <3>6, <3>7, <3>9, <4>1, <4>2 DEF CountInv
    <3> QED
      BY <2>6, <3>8, <3>9 DEF Job!Enqueue
  <2> QED
    BY <1>7, <2>2, <2>3, <2>4, <2>5, <2>6 DEF RunJob, Job!Script
<1> QED
  BY <1>3, <1>4, <1>5, <1>6, <1>7 DEF Next

(***************************************************************************)
(* The refinement.                                                         *)
(***************************************************************************)

\* At the start nothing is decided, staged, replaced or ended.
LEMMA StartsAsPromised == Init => RequestsInv /\ UploadInv /\ Promise!Init
<1> SUFFICES ASSUME Init PROVE RequestsInv /\ UploadInv /\ Promise!Init
  OBVIOUS
<1>1. RequestsInv
  BY UploadAssumption
  DEF Init, Staging!Init, RequestsInv, PCs, PlainIsPending, Staging!PlainIsPending
<1>2. size \in Nat /\ Parts \in Nat
  BY Ceiling, UploadAssumption DEF Init, Parts
<1>3. stored = None /\ Whole # None
  BY <1>2, NoFile DEF Init
<1>4. UploadInv
  BY <1>2, <1>3 DEF Init, Job!Init, UploadInv, ClientInv, StoreInv, JobInv
<1>5. pc[Own] = "idle"
  BY UploadAssumption DEF Init, Staging!Init
<1>6. Promise!Init
  BY <1>2, <1>3, <1>5 DEF Init, Job!Init, Promise!Init, Whole
<1> QED
  BY <1>1, <1>4, <1>6

\* Every step is one of Delivery, or changes nothing that it speaks of.
LEMMA StepsAsPromised == RequestsInv /\ UploadInv /\ [Next]_vars => [Promise!Next]_(Promise!vars)
<1> SUFFICES ASSUME RequestsInv, UploadInv, [Next]_vars
             PROVE  [Promise!Next]_(Promise!vars)
  OBVIOUS
<1>1. ASSUME NEW r \in Requests, Arrives(r) \/ Request(r) PROVE [Promise!Next]_(Promise!vars)
  <2>1. UNCHANGED << job, client >> /\ (pc[Own] \in { "ok", "failed" } => pc'[Own] = pc[Own])
    BY <1>1, AnswerStays
  <2> QED
    BY <2>1 DEF Promise!Next, Promise!Decide, Promise!vars, job, client
<1>2. CASE Answered \/ UploadPart \/ CheckCompletion
  BY <1>2 DEF Answered, UploadPart, CheckCompletion, Promise!vars, staging, job
<1>3. CASE CompleteMultipartUpload
  <2>1. /\ UNCHANGED << size, pc, found, target, script >>
        /\ at = "completing" /\ pc[Own] = "ok" /\ stored = None /\ Whole # None
    BY <1>3, NoFile DEF CompleteMultipartUpload, staging, UploadInv, ClientInv
  <2> QED
    BY <1>3, <2>1, CompletedIsWhole
    DEF Promise!Next, Promise!Stage, Promise!vars, Whole, UploadInv
<1>4. CASE RunJob
  <2>1. UNCHANGED << size, pc, stored >>
    BY <1>4 DEF RunJob, staging, client
  <2>2. CASE Job!TargetIsFolder \/ Job!FetchFails
    BY <2>1, <2>2
    DEF Job!TargetIsFolder, Job!FetchFails, Job!ExitWith, Promise!Next, Promise!End, Promise!vars
  <2>3. CASE Job!Poll
    BY <2>1, <2>3 DEF Job!Poll, Promise!Next, Promise!End, Promise!vars
  <2>4. CASE Job!Begin \/ Job!Fetch
    BY <2>1, <2>4 DEF Job!Begin, Job!Fetch, Promise!vars
  <2>5. CASE Job!Find
    <3>1. object = size /\ stored = Whole /\ found = None /\ size # None
      BY <2>5, NoFile DEF Job!Find, UploadInv, ClientInv, StoreInv, JobInv
    <3> QED
      BY <2>1, <2>5, <3>1 DEF Job!Find, Promise!Next, Promise!Replace, Promise!vars, Whole
  <2>6. CASE Job!Enqueue
    <3>1. script = "append" /\ UNCHANGED found /\ script' \in { "exited", "fetch" }
      BY <2>6 DEF Job!Enqueue
    <3>2. PICK k \in 0 .. Len(part) : target' = Job!File(target) \o SubSeq(part, 1, k)
      BY <2>6 DEF Job!Enqueue
    <3>3. /\ target' \in Seq(Nat)
          /\ Ascends(target', from + MaxPart)
          /\ Job!File(target) = SubSeq(target', 1, Len(Job!File(target)))
      BY <3>1, <3>2, AppendAscends DEF UploadInv, ClientInv
    <3>4. Promise!Written(target') = target' /\ Promise!Written(target) = Job!File(target)
      BY <3>3, UploadAssumption DEF Promise!Written, Job!File
    <3>5. found # None
      BY <3>1, NoFile DEF UploadInv, ClientInv, JobInv
    <3>6. Promise!Write
      BY <2>1, <3>1, <3>3, <3>4, <3>5 DEF Promise!Write, Ascends
    <3> QED
      BY <3>6 DEF Promise!Next
  <2> QED
    BY <1>4, <2>2, <2>3, <2>4, <2>5, <2>6 DEF RunJob, Job!Script
<1>5. CASE KillJob
  BY <1>5 DEF KillJob, Job!Kill, Promise!Next, Promise!End, Promise!vars, staging, client
<1>6. CASE Expire
  BY <1>6 DEF Expire, Job!Expire, Promise!vars, staging, client
<1>7. CASE UNCHANGED vars
  BY <1>7 DEF vars, staging, job, client, Promise!vars
<1> QED
  BY <1>1, <1>2, <1>3, <1>4, <1>5, <1>6, <1>7 DEF Next, Upload

\* A bucket without lifecycle has a creator that is about to set it, or has failed.
THEOREM BucketsHaveOwners == Spec => []PlainIsPending
<1>1. RequestsInv => PlainIsPending
  BY DEF RequestsInv
<1> QED
  BY <1>1, StartsAsPromised, RequestsStep, PTL DEF Spec

\* Range by range the target is what was counted, but for the bytes that were
\* lost on the way (job_s3_downloader.sh, the loop over downloaded_data_count).
THEOREM CountsWhatItWrites == Spec => []CountedIsWritten
<1>1. UploadInv => ClientInv
  BY DEF UploadInv
<1> QED
  BY <1>1, StartsAsPromised, RequestsStep, UploadStep, InitCount, CountStep, CountFollows, PTL DEF Spec

\* The request, the client and the job implement Delivery: nothing is replaced at
\* the target before the whole of the file is in the store, and what replaces it
\* are bytes of the file, each once and in order.
THEOREM DeliversAsPromised == Spec => PromiseKept
<1> QED
  BY StartsAsPromised, StepsAsPromised, RequestsStep, UploadStep, PTL
  DEF Spec, PromiseKept, Promise!Spec

=============================================================================
