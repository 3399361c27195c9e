--------------------------- MODULE S3OutgressProofs ---------------------------
(***************************************************************************)
(* Proofs about S3Outgress, for any sizes at request and at run time, any  *)
(* sizes of blocks, parts and batches, and any failures: what an upload    *)
(* that was completed may lack, and that no part is sent twice.            *)
(***************************************************************************)
EXTENDS S3Outgress, Integers, TLAPS

(***************************************************************************)
(* The slices.                                                             *)
(***************************************************************************)

\* ceil(n / m) times m is at least n.
LEMMA CeilCovers ==
    ASSUME NEW n \in Nat, NEW m \in Nat \ { 0 }
    PROVE  Ceil(n, m) \in Nat /\ n <= m * Ceil(n, m)
<1> DEFINE q == (n + m - 1) \div m
<1>1. q \in Int
  OBVIOUS
<1>2. n + m - 1 \in Nat /\ n + m - 1 < m * (q + 1)
  BY SMTT(30)
<1>3. q >= 0
  BY SMTT(30)
<1>4. m * (q + 1) = m * q + m
  BY <1>1
<1> QED
  BY <1>1, <1>2, <1>3, <1>4 DEF Ceil

LEMMA Times == ASSUME NEW a \in Nat, NEW b \in Nat, NEW c \in Nat, a <= b
               PROVE  c * a <= c * b /\ a * c <= b * c
BY SMTT(30)

\* Where a number lies between two multiples of m.
LEMMA Between ==
    ASSUME NEW b \in Nat, NEW m \in Nat \ { 0 }
    PROVE  /\ b \div m \in Nat
           /\ (b \div m) * m <= b /\ b < (b \div m + 1) * m
BY SMTT(30)

\* With a part at all, the slices leave no gap.
LEMMA SlicesCover ==
    ASSUME size \in Nat, NumParts \in Nat, NumParts # 0, NEW b \in Bytes
    PROVE  \E p \in Parts : b \in Slice(p)
<1>1. PartSize \in Nat /\ size <= NumParts * PartSize
  BY CeilCovers DEF PartSize
<1>2. Ceil(PartSize, Block) \in Nat /\ PartSize <= Step /\ Step \in Nat
  BY <1>1, CeilCovers, OutgressAssumption DEF Step
<1>3. NumParts * PartSize <= NumParts * Step
  BY <1>1, <1>2, Times
<1>4. b \in Nat /\ b < size /\ b < NumParts * Step
  BY <1>1, <1>2, <1>3 DEF Bytes
<1>5. Step # 0
  BY <1>4
<1> DEFINE q == b \div Step
<1>6. q \in Nat /\ q * Step <= b /\ b < (q + 1) * Step
  BY <1>2, <1>4, <1>5, Between
<1>7. q < NumParts
  <2>1. SUFFICES ASSUME NumParts <= q PROVE FALSE
    BY <1>6
  <2>2. NumParts * Step <= q * Step
    BY <1>2, <1>6, <2>1, Times
  <2>3. q * Step \in Nat /\ NumParts * Step \in Nat
    BY <1>2, <1>6
  <2> QED
    BY <1>4, <1>6, <2>2, <2>3
<1> HIDE DEF q
<1>8. q + 1 \in Parts /\ (q + 1) - 1 = q
  BY <1>6, <1>7 DEF Parts
<1> QED
  BY <1>6, <1>8 DEF Slice

(***************************************************************************)
(* The invariant.                                                          *)
(***************************************************************************)

Works == { "idle", "dd", "curl", "sent" }

TypeInv ==
    /\ announced \in Nat /\ size \in Nat
    /\ work \in [Parts -> Works]
    /\ listed \subseteq Parts
    /\ DOMAIN file = Parts /\ DOMAIN stored = Parts
    /\ next \in Nat \ { 0 }

\* A part file, and what the store has, are within the slice of their part, and
\* all of it unless dd failed for that part.
Cut(what, p) == what # None => what \subseteq Slice(p) /\ (p \notin damaged => what = Slice(p))

CutInv == \A p \in Parts : Cut(file[p], p) /\ Cut(stored[p], p)

\* The object has the parts that were listed.
ObjectInv ==
    object # None =>
        /\ pc \in { "posted", "exited", "killed" }
        /\ Parts # {}
        /\ object \subseteq Bytes
        /\ \A p \in listed \ damaged : Slice(p) \subseteq object

\* The first loop has not come to what has no ETag, and an ETag has taken the
\* place of the part file.
ETagInv ==
    /\ \A p \in Parts : p \in etag => work[p] = "idle" /\ file[p] = None
    /\ pc = "start" => next = 1
    /\ pc \in { "start", "first" } =>
         \A p \in Parts : p >= next => p \notin etag /\ work[p] = "idle"

OutgressInv == TypeInv /\ CutInv /\ ObjectInv /\ ETagInv

LEMMA InitOutgress == Init => OutgressInv
BY OutgressAssumption DEF Init, OutgressInv, TypeInv, CutInv, Cut, ObjectInv, ETagInv, Works

LEMMA SlicesAreBytes == ASSUME NEW p PROVE Slice(p) \subseteq Bytes
BY DEF Slice

\* Parts and slices are what they are from the start.
LEMMA ParamsFixed ==
    ASSUME UNCHANGED params
    PROVE  /\ NumParts' = NumParts /\ Parts' = Parts /\ Bytes' = Bytes
           /\ \A p : Slice(p)' = Slice(p)
BY DEF params, NumParts, Parts, Bytes, Slice, Step, PartSize

LEMMA OutgressStep == OutgressInv /\ [Next]_vars => OutgressInv'
<1> SUFFICES ASSUME OutgressInv, [Next]_vars PROVE OutgressInv'
  OBVIOUS
<1>0. UNCHANGED params
  BY DEF Next, Script, vars, params, NoFile, NoFolder, TooLarge, Begin, Launch, LoopEnds,
         Post, Join, Done, NotDone, MakePart, MakePartFails, Receive, KeepETag, UploadFails,
         Kill, ExitWith
<1>1. /\ announced' = announced /\ size' = size /\ NumParts' = NumParts /\ Parts' = Parts
      /\ Bytes' = Bytes /\ \A p : Slice(p)' = Slice(p)
  BY <1>0, ParamsFixed DEF params
<1> USE <1>1 DEF OutgressInv
<1>2. CASE NoFile \/ NoFolder \/ TooLarge \/ NotDone
  <2>1. UNCHANGED << next, work, file, etag, listed, stored, object, damaged >>
        /\ pc' = "exited"
    BY <1>2 DEF NoFile, NoFolder, TooLarge, NotDone, ExitWith, store
  <2> QED
    BY <2>1 DEF TypeInv, CutInv, Cut, ObjectInv, ETagInv
<1>3. CASE Begin
  BY <1>3 DEF Begin, store, TypeInv, CutInv, Cut, ObjectInv, ETagInv
<1>4. CASE Launch
  <2>1. /\ next \in Parts /\ next' = next + 1 /\ pc \in { "first", "second" }
        /\ UNCHANGED << pc, file, etag, listed, stored, object, damaged >>
        /\ work' = [work EXCEPT ![next] =
                      IF pc = "first" /\ ~UseSplit THEN "dd"
                      ELSE IF file[next] # None THEN "curl" ELSE "idle"]
    BY <1>4 DEF Launch, Looping, store, TypeInv, Parts
  <2>2. TypeInv'
    BY <2>1 DEF TypeInv, Works
  <2>3. CutInv' /\ ObjectInv'
    BY <2>1 DEF CutInv, Cut, ObjectInv
  <2>4. ETagInv'
    BY <2>1 DEF TypeInv, ETagInv, Parts
  <2> QED
    BY <2>2, <2>3, <2>4
<1>5. CASE LoopEnds
  BY <1>5 DEF LoopEnds, Looping, store, TypeInv, CutInv, Cut, ObjectInv, ETagInv
<1>6. ASSUME NEW p \in Parts, MakePart(p) PROVE OutgressInv'
  <2>1. /\ work[p] = "dd" /\ file' = [file EXCEPT ![p] = Slice(p)]
        /\ work' = [work EXCEPT ![p] = "curl"]
        /\ UNCHANGED << pc, next, etag, listed, stored, object, damaged >>
    BY <1>6 DEF MakePart, store
  <2> QED
    BY <2>1 DEF TypeInv, Works, CutInv, Cut, ObjectInv, ETagInv
<1>7. ASSUME NEW p \in Parts, MakePartFails(p) PROVE OutgressInv'
  <2>1. /\ work[p] = "dd" /\ work' = [work EXCEPT ![p] = "idle"]
        /\ damaged' = damaged \cup { p }
        /\ UNCHANGED << pc, next, etag, listed, stored, object >>
    BY <1>7 DEF MakePartFails, store
  <2>2. PICK left : (left # None => left \subseteq Slice(p)) /\ file' = [file EXCEPT ![p] = left]
    BY <1>7 DEF MakePartFails
  <2> QED
    BY <2>1, <2>2 DEF TypeInv, Works, CutInv, Cut, ObjectInv, ETagInv
<1>8. ASSUME NEW p \in Parts, Receive(p) PROVE OutgressInv'
  <2>1. /\ work[p] = "curl" /\ work' = [work EXCEPT ![p] = "sent"]
        /\ stored' = [stored EXCEPT ![p] = file[p]]
        /\ UNCHANGED << pc, next, file, etag, listed, object, damaged >>
    BY <1>8 DEF Receive
  <2> QED
    BY <2>1 DEF TypeInv, Works, CutInv, Cut, ObjectInv, ETagInv
<1>9. ASSUME NEW p \in Parts, KeepETag(p) PROVE OutgressInv'
  <2>1. /\ work[p] = "sent" /\ work' = [work EXCEPT ![p] = "idle"]
        /\ file' = [file EXCEPT ![p] = None] /\ etag' = etag \cup { p }
        /\ UNCHANGED << pc, next, listed, stored, object, damaged >>
    BY <1>9 DEF KeepETag, store
  <2> QED
    BY <2>1 DEF TypeInv, Works, CutInv, Cut, ObjectInv, ETagInv
<1>10. ASSUME NEW p \in Parts, UploadFails(p) PROVE OutgressInv'
  BY <1>10 DEF UploadFails, store, TypeInv, Works, CutInv, Cut, ObjectInv, ETagInv
<1>11. CASE Post
  BY <1>11 DEF Post, store, TypeInv, CutInv, Cut, ObjectInv, ETagInv
<1>12. CASE Join
  <2>1. UNCHANGED << pc, next, work, file, etag, listed, stored, damaged >> /\ pc = "posted"
    BY <1>12 DEF Join
  <2>2. /\ object' = UNION { stored[p] : p \in listed }
        /\ listed # {} /\ \A p \in listed : stored[p] # None
    BY <1>12 DEF Join, Acceptable
  <2>3. \A p \in listed : stored[p] \subseteq Bytes
                           /\ (p \notin damaged => stored[p] = Slice(p))
    BY <2>2, SlicesAreBytes DEF TypeInv, CutInv, Cut
  <2>4. object' \subseteq Bytes /\ \A p \in listed \ damaged : Slice(p) \subseteq object'
    BY <2>2, <2>3
  <2>5. ObjectInv'
    BY <2>1, <2>2, <2>4 DEF TypeInv, ObjectInv
  <2>6. TypeInv' /\ CutInv' /\ ETagInv'
    BY <2>1 DEF TypeInv, CutInv, Cut, ETagInv
  <2> QED
    BY <2>5, <2>6
<1>13. CASE Done
  BY <1>13 DEF Done, store, TypeInv, CutInv, Cut, ObjectInv, ETagInv
<1>14. CASE Kill
  BY <1>14 DEF Kill, store, TypeInv, Works, CutInv, Cut, ObjectInv, ETagInv
<1>15. CASE UNCHANGED vars
  BY <1>15 DEF vars, TypeInv, CutInv, Cut, ObjectInv, ETagInv
<1> QED
  BY <1>2, <1>3, <1>4, <1>5, <1>6, <1>7, <1>8, <1>9, <1>10, <1>11, <1>12, <1>13, <1>14,
     <1>15 DEF Next, Script

\* Whatever fails, and whatever size the file has by then: of an object that was
\* completed nothing is missing but parts that could not be made or were not listed
\* (upload_loop, job_dd and the collection of the ETags).
THEOREM OnlyFailedMissing == Spec => []OnlyFailedPartsMissing
<1>1. OutgressInv => OnlyFailedPartsMissing
  <2> SUFFICES ASSUME OutgressInv, object # None,
                      NEW b \in Bytes \ object
               PROVE  \E p \in damaged \cup (Parts \ listed) : b \in Slice(p)
    BY DEF OnlyFailedPartsMissing, OutgressInv, ObjectInv
  <2>1. NumParts \in Nat /\ NumParts # 0
    <3>1. NumParts \in Nat
      BY CeilCovers, OutgressAssumption DEF NumParts, OutgressInv, TypeInv
    <3>2. 1 .. NumParts # {}
      BY DEF Parts, OutgressInv, ObjectInv
    <3> QED
      BY <3>1, <3>2
  <2>2. PICK p \in Parts : b \in Slice(p)
    BY <2>1, SlicesCover DEF OutgressInv, TypeInv
  <2> QED
    BY <2>2 DEF OutgressInv, ObjectInv
<1> QED
  BY <1>1, InitOutgress, OutgressStep, PTL DEF Spec

\* A part whose ETag was kept is not sent again, by neither of the loops: its part
\* file is gone (upload_loop, job_upload).
THEOREM SentOnce == Spec => NoResend
<1>1. ASSUME OutgressInv, [Next]_vars, NEW p \in Parts, p \in etag PROVE work'[p] = "idle"
  <2>1. work[p] = "idle" /\ file[p] = None /\ work \in [Parts -> Works]
    BY <1>1 DEF OutgressInv, ETagInv, TypeInv
  <2>2. CASE Launch
    <3>1. pc = "first" => p # next
      BY <1>1, <2>2 DEF OutgressInv, ETagInv, TypeInv, Parts, Launch
    <3> QED
      BY <2>1, <2>2, <3>1 DEF Launch, Looping
  <2>3. ASSUME NEW q \in Parts,
               MakePart(q) \/ MakePartFails(q) \/ Receive(q) \/ KeepETag(q) \/ UploadFails(q)
        PROVE  work'[p] = "idle"
    <3>1. p # q
      BY <2>1, <2>3 DEF MakePart, MakePartFails, Receive, KeepETag, UploadFails
    <3> QED
      BY <2>1, <2>3, <3>1 DEF MakePart, MakePartFails, Receive, KeepETag, UploadFails
  <2>4. CASE Kill
    BY <2>4 DEF Kill
  <2>5. CASE NoFile \/ NoFolder \/ TooLarge \/ Begin \/ LoopEnds \/ Post \/ Join \/ Done
             \/ NotDone \/ UNCHANGED vars
    BY <2>1, <2>5 DEF NoFile, NoFolder, TooLarge, Begin, LoopEnds, Post, Join, Done, NotDone,
                      ExitWith, vars
  <2> QED
    BY <1>1, <2>2, <2>3, <2>4, <2>5 DEF Next, Script
<1>2. OutgressInv /\ [Next]_vars => [\A p \in Parts : p \in etag => work'[p] = "idle"]_vars
  BY <1>1
<1> QED
  BY <1>2, InitOutgress, OutgressStep, PTL DEF Spec, NoResend

=============================================================================
