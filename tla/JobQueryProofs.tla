---------------------------- MODULE JobQueryProofs ----------------------------
(* Proofs about JobQuery: what an answer of get_job() and get_jobs() holds.  *)
EXTENDS JobQuery, TLAPS

(***************************************************************************)
(* The inductive invariant.  ActiveIsListed and its like speak of the end  *)
(* of a query, so they are not inductive: what they need of the moments in *)
(* between is said of each source's answer, in the history since the query *)
(* began, and of Slurm.                                                    *)
(***************************************************************************)

\* Of Slurm: what waits or runs is in the controller's memory, what the
\* database knows was submitted, and what it knew it still knows.
SlurmInv ==
    /\ truth \in [Jobs -> States]
    /\ ledger \in [Jobs -> States]
    /\ seen \in [Jobs -> SUBSET States]
    /\ \A j \in Jobs :
         /\ truth[j] \in seen[j]
         /\ truth[j] \in Active => j \in held
         /\ truth[j] = "none" => j \notin held /\ ledger[j] = "none"
         /\ j \in known => ledger[j] # "none"

\* Of the controller's answer.
CtlInv ==
    /\ \A j \in DOMAIN listed["ctl"] : listed["ctl"][j] \in seen[j]
    /\ status["ctl"] = "answered" /\ ~Metadata =>
         \A j \in Jobs : Listable(j) /\ seen[j] \subseteq Active
                            => j \in DOMAIN listed["ctl"]

\* Of the database's answer.
AcctInv ==
    /\ \A j \in DOMAIN listed["acct"] :
         listed["acct"][j] \in seen[j] \/ j \in behind
    /\ status["acct"] = "answered" =>
         \A j \in known \cap query.asked : MaySee(j) => j \in DOMAIN listed["acct"]

\* Before its answer a source has told nothing.
StatusInv ==
    /\ status \in [Sources -> {"waiting", "answered", "failed"}]
    /\ DOMAIN listed = Sources
    /\ \A s \in Sources :
         /\ DOMAIN listed[s] \subseteq Jobs
         /\ status[s] = "waiting" => DOMAIN listed[s] = {}
    /\ query.asked \subseteq Jobs
    /\ known \subseteq Jobs

AnswerInv == ActiveIsListed /\ KnownIsListed /\ WaitingIsShown /\ ReportedIsRecent

IInv == SlurmInv /\ StatusInv /\ CtlInv /\ AcctInv /\ AnswerInv

\* Every query asks for jobs there are.
LEMMA AskedJobs == ASSUME NEW q \in Queries PROVE q.asked \subseteq Jobs
<1>1. CASE q \in [op : {"get_jobs"}, rest : BOOLEAN, asked : {Jobs},
                  allusers : BOOLEAN, recent : {TRUE}]
  BY <1>1
<1>2. CASE q \in [op : {"get_job"}, rest : BOOLEAN, asked : {{j} : j \in Jobs},
                  allusers : {TRUE}, recent : {TRUE}]
  BY <1>2
<1>3. CASE q \in [op : {"get_job_metadata"}, rest : {FALSE},
                  asked : {{j} : j \in Jobs}, allusers : {FALSE}, recent : BOOLEAN]
  BY <1>3
<1> QED
  BY <1>1, <1>2, <1>3 DEF Queries

\* It holds at the begin of a query.
LEMMA InitIInv == Init => IInv
<1> SUFFICES ASSUME Init PROVE IInv
  OBVIOUS
<1>1. query.asked \subseteq Jobs
  BY AskedJobs DEF Init
<1>2. \A s \in Sources : DOMAIN listed[s] = {}
  BY DEF Init, Nothing
<1>3. "acct" \in Sources /\ "ctl" \in Sources
  BY DEF Sources
<1>4. SlurmInv
  BY DEF Init, SlurmInv, States, Active
<1>5. StatusInv
  BY <1>1, <1>2 DEF Init, StatusInv
<1>6. CtlInv /\ AcctInv
  BY <1>2, <1>3 DEF Init, CtlInv, AcctInv
<1>7. AnswerInv
  BY DEF Init, AnswerInv, ActiveIsListed, KnownIsListed, WaitingIsShown,
         ReportedIsRecent, Told, Nothing
<1> QED
  BY <1>4, <1>5, <1>6, <1>7 DEF IInv

-----------------------------------------------------------------------------

\* What happens in Slurm makes a job's history longer and leaves the answers
\* alone; what was said of an answer in terms of the history stays true.
LEMMA MoveKeepsAnswers ==
    ASSUME IInv, NEW j \in Jobs, Move(j), SlurmInv',
           \A i \in Jobs : seen[i] \subseteq seen'[i]
    PROVE IInv'
<1>1. Open /\ UNCHANGED << query, status, listed, result, reported, known, behind >>
  BY DEF Move, client
<1>2. StatusInv'
  BY <1>1 DEF IInv, StatusInv
<1>3. DOMAIN listed["ctl"] \subseteq Jobs /\ DOMAIN listed["acct"] \subseteq Jobs
  BY DEF IInv, StatusInv, Sources
<1>4. CtlInv'
  BY <1>1, <1>3 DEF IInv, CtlInv, Metadata, Listable, MaySee
<1>5. AcctInv'
  BY <1>1, <1>3 DEF IInv, AcctInv, MaySee
<1>6. ~Told'
  BY <1>1 DEF Told, Open, Metadata
<1> QED
  BY <1>2, <1>4, <1>5, <1>6 DEF IInv, AnswerInv, ActiveIsListed, KnownIsListed,
                            WaitingIsShown, ReportedIsRecent

\* A change of a job's state by Become() lengthens the history by that state.
LEMMA BecomeSeen ==
    ASSUME SlurmInv, NEW j \in Jobs, NEW state \in States, Become(j, state)
    PROVE  /\ Move(j)
           /\ truth' = [truth EXCEPT ![j] = state]
           /\ seen' = [seen EXCEPT ![j] = @ \cup {state}]
           /\ truth' \in [Jobs -> States]
           /\ ledger' = ledger
           /\ seen' \in [Jobs -> SUBSET States]
           /\ known' = known
           /\ \A i \in Jobs : seen[i] \subseteq seen'[i]
           /\ \A i \in Jobs : truth'[i] \in seen'[i]
BY DEF SlurmInv, Become, Move

\* Slurm keeps the invariant, whatever happens in it.
LEMMA SlurmKeeps == ASSUME IInv, Slurm PROVE IInv'
<1> USE DEF Active, States
<1>0. SlurmInv
  BY DEF IInv
<1>1. PICK j \in Jobs :
        Submit(j) \/ Start(j) \/ End(j) \/ Requeue(j) \/ Forget(j) \/ Record(j)
  BY DEF Slurm
<1>2. CASE Submit(j)
  <2>1. Become(j, "PENDING") /\ held' = held \cup {j}
    BY <1>2 DEF Submit
  <2>2. SlurmInv'
    BY <1>0, <2>1, BecomeSeen DEF SlurmInv
  <2> QED
    BY <1>0, <2>1, <2>2, BecomeSeen, MoveKeepsAnswers
<1>3. CASE Start(j)
  <2>1. Become(j, "RUNNING") /\ held' = held /\ truth[j] = "PENDING"
    BY <1>3 DEF Start
  <2>2. SlurmInv'
    BY <1>0, <2>1, BecomeSeen DEF SlurmInv
  <2> QED
    BY <1>0, <2>1, <2>2, BecomeSeen, MoveKeepsAnswers
<1>4. CASE End(j)
  <2>1. Become(j, "COMPLETED") /\ held' = held
    BY <1>4 DEF End
  <2>2. SlurmInv'
    BY <1>0, <2>1, BecomeSeen DEF SlurmInv
  <2> QED
    BY <1>0, <2>1, <2>2, BecomeSeen, MoveKeepsAnswers
<1>5. CASE Requeue(j)
  <2>1. Become(j, "PENDING") /\ held' = held /\ j \in held
    BY <1>5 DEF Requeue
  <2>2. SlurmInv'
    BY <1>0, <2>1, BecomeSeen DEF SlurmInv
  <2> QED
    BY <1>0, <2>1, <2>2, BecomeSeen, MoveKeepsAnswers
<1>6. CASE Forget(j)
  <2>1. /\ Move(j) /\ truth[j] = "COMPLETED" /\ held' = held \ {j}
        /\ truth' = truth /\ ledger' = ledger /\ seen' = seen /\ known' = known
    BY <1>6 DEF Forget, Move
  <2>2. SlurmInv'
    BY <1>0, <2>1 DEF SlurmInv
  <2> QED
    BY <2>1, <2>2, MoveKeepsAnswers
<1>7. CASE Record(j)
  <2>1. /\ Move(j) /\ ledger' = [ledger EXCEPT ![j] = truth[j]]
        /\ truth' = truth /\ held' = held /\ seen' = seen /\ known' = known
    BY <1>7 DEF Record, Move
  <2>2. SlurmInv'
    BY <1>0, <2>1 DEF SlurmInv
  <2> QED
    BY <2>1, <2>2, MoveKeepsAnswers
<1> QED
  BY <1>1, <1>2, <1>3, <1>4, <1>5, <1>6, <1>7

-----------------------------------------------------------------------------

\* A source answers: its answer is what Slurm has at that moment.
LEMMA AnswerKeeps == ASSUME IInv, NEW s \in Sources, Answer(s) PROVE IInv'
<1> USE DEF Active, States
<1>1. /\ Open /\ status[s] = "waiting"
      /\ UNCHANGED << truth, held, ledger, query, result, reported, seen, known >>
  BY DEF Answer, slurm
<1>2. /\ status' = [status EXCEPT ![s] =
           IF s = "ctlScript" /\ Shown(s) = {} THEN "failed" ELSE "answered"]
      /\ listed' = [listed EXCEPT ![s] = [j \in Shown(s) |-> StateFrom(s, j)]]
      /\ behind' = IF s = "acct"
                   THEN { j \in Jobs : ledger[j] \notin {"none", truth[j]} }
                   ELSE behind
  BY DEF Answer
<1>3. Shown(s) \subseteq Jobs
  BY DEF Shown, IInv, StatusInv
<1>4. SlurmInv'
  BY <1>1 DEF IInv, SlurmInv
<1>5. StatusInv'
  BY <1>1, <1>2, <1>3 DEF IInv, StatusInv
<1>6. CtlInv'
  <2>1. CASE s = "ctl"
    <3>1. listed'["ctl"] = [j \in Shown("ctl") |-> truth[j]]
      BY <1>2, <2>1 DEF IInv, StatusInv, StateFrom
    <3>2. \A j \in Shown("ctl") : truth[j] \in seen[j]
      BY <1>3, <2>1 DEF IInv, SlurmInv
    <3>3. ASSUME ~Metadata, NEW j \in Jobs, Listable(j), seen[j] \subseteq Active
          PROVE j \in Shown("ctl")
      <4>1. truth[j] \in Active /\ j \in held
        BY <3>3 DEF IInv, SlurmInv
      <4>2. QueueShows(j)
        BY <3>3, <4>1 DEF QueueShows, Listable
      <4> QED
        BY <3>3, <4>2 DEF Shown, Listable
    <3> QED
      BY <1>1, <3>1, <3>2, <3>3 DEF CtlInv, Metadata, Listable, MaySee
  <2>2. CASE s # "ctl"
    <3>1. listed'["ctl"] = listed["ctl"] /\ status'["ctl"] = status["ctl"]
      BY <1>2, <2>2 DEF IInv, StatusInv, Sources
    <3> QED
      BY <1>1, <3>1 DEF IInv, CtlInv, Metadata, Listable, MaySee
  <2> QED
    BY <2>1, <2>2
<1>7. AcctInv'
  <2>1. CASE s = "acct"
    <3>1. listed'["acct"] = [j \in Shown("acct") |-> ledger[j]]
      BY <1>2, <2>1 DEF IInv, StatusInv, StateFrom
    <3>2. ASSUME NEW j \in Shown("acct") PROVE ledger[j] \in seen[j] \/ j \in behind'
      <4>1. j \in Jobs /\ truth[j] \in seen[j]
        BY <1>3, <2>1 DEF IInv, SlurmInv
      <4>2. ledger[j] # "none"
        BY <3>2 DEF Shown
      <4> QED
        BY <1>2, <2>1, <4>1, <4>2
    <3>3. ASSUME NEW j \in known \cap query.asked, MaySee(j)
          PROVE j \in Shown("acct")
      BY <3>3 DEF Shown, IInv, SlurmInv, StatusInv
    <3> QED
      BY <1>1, <3>1, <3>2, <3>3 DEF AcctInv, MaySee
  <2>2. CASE s # "acct"
    <3>1. listed'["acct"] = listed["acct"] /\ status'["acct"] = status["acct"]
      BY <1>2, <2>2 DEF IInv, StatusInv, Sources
    <3> QED
      BY <1>1, <1>2, <2>2, <3>1 DEF IInv, AcctInv, MaySee
  <2> QED
    BY <2>1, <2>2
<1>8. ~Told'
  BY <1>1 DEF Told, Open
<1> QED
  BY <1>4, <1>5, <1>6, <1>7, <1>8 DEF IInv, AnswerInv, ActiveIsListed,
        KnownIsListed, WaitingIsShown, ReportedIsRecent

\* A source fails: it tells nothing.
LEMMA FailKeeps == ASSUME IInv, NEW s \in Sources, Fail(s) PROVE IInv'
<1>1. /\ Open
      /\ status' = [status EXCEPT ![s] = "failed"]
      /\ UNCHANGED << truth, held, ledger, query, listed, result, reported,
                      seen, known, behind >>
  BY DEF Fail, slurm, history
<1>2. SlurmInv'
  BY <1>1 DEF IInv, SlurmInv
<1>3. StatusInv'
  BY <1>1 DEF IInv, StatusInv
<1>4. \A t \in Sources : status'[t] = "answered" => status[t] = "answered"
  BY <1>1 DEF IInv, StatusInv
<1>5. CtlInv' /\ AcctInv'
  BY <1>1, <1>4 DEF IInv, CtlInv, AcctInv, Sources, Metadata, Listable, MaySee
<1>6. ~Told'
  BY <1>1 DEF Told, Open
<1> QED
  BY <1>2, <1>3, <1>5, <1>6 DEF IInv, AnswerInv, ActiveIsListed, KnownIsListed,
        WaitingIsShown, ReportedIsRecent

\* What the merge of the two answers holds.
LEMMA MergedIs ==
    ASSUME NEW j
    PROVE  /\ j \in DOMAIN Merged
                <=> j \in DOMAIN listed["acct"] \/ j \in DOMAIN listed["ctl"]
           /\ j \in DOMAIN Merged =>
                Merged[j] =
                  IF \/ j \notin DOMAIN listed["acct"]
                     \/ j \in DOMAIN listed["ctl"] /\ listed["ctl"][j] = "PENDING"
                  THEN listed["ctl"][j] ELSE listed["acct"][j]
BY DEF Merged

\* The answer to the user is as the two answers were, and as the history is.
LEMMA ReplyKeeps == ASSUME IInv, Reply PROVE IInv'
<1> USE DEF Active, States
<1>1. AllIn /\ ~Metadata
      /\ UNCHANGED << truth, held, ledger, query, status, listed,
                      seen, known, behind >>
  BY DEF Reply, slurm, history
<1>2. SlurmInv' /\ StatusInv' /\ CtlInv' /\ AcctInv'
  BY <1>1 DEF IInv, SlurmInv, StatusInv, CtlInv, AcctInv, Metadata, Listable, MaySee
<1>3. CASE Failed # {}
  <2>1. ~Told'
    BY <1>3 DEF Reply, Told
  <2> QED
    BY <1>2, <2>1 DEF IInv, AnswerInv, ActiveIsListed, KnownIsListed,
          WaitingIsShown, ReportedIsRecent
<1>4. CASE Failed = {}
  <2>1. reported' = Merged
    BY <1>4 DEF Reply
  <2>2. status["acct"] = "answered" /\ status["ctl"] = "answered"
    BY <1>1, <1>4 DEF AllIn, Asked, Failed, IInv, StatusInv, Sources
  <2>3. ASSUME NEW j \in Jobs, Listable(j), seen[j] \subseteq Active
        PROVE  /\ j \in DOMAIN Merged
               /\ seen[j] = {"PENDING"} => Merged[j] = "PENDING"
    <3>1. j \in DOMAIN listed["ctl"] /\ listed["ctl"][j] \in seen[j]
      BY <1>1, <2>2, <2>3 DEF IInv, CtlInv
    <3> QED
      BY <3>1, MergedIs
  <2>4. ASSUME NEW j \in known \cap query.asked, MaySee(j)
        PROVE  j \in DOMAIN Merged
    <3>1. j \in DOMAIN listed["acct"]
      BY <2>2, <2>4 DEF IInv, AcctInv
    <3> QED
      BY <3>1, MergedIs
  <2>5. ASSUME NEW j \in DOMAIN Merged
        PROVE  Merged[j] \in seen[j] \/ j \in behind
    BY MergedIs DEF IInv, CtlInv, AcctInv
  <2> QED
    BY <1>1, <1>2, <2>1, <2>3, <2>4, <2>5 DEF IInv, AnswerInv, ActiveIsListed,
          KnownIsListed, WaitingIsShown, ReportedIsRecent, Listable, MaySee
<1> QED
  BY <1>3, <1>4

\* Metadata are no answer of get_job() or get_jobs().
LEMMA ReplyMetadataKeeps == ASSUME IInv, ReplyMetadata PROVE IInv'
<1>1. Metadata
      /\ UNCHANGED << truth, held, ledger, query, status, listed,
                      seen, known, behind >>
  BY DEF ReplyMetadata, slurm, history
<1>2. SlurmInv' /\ StatusInv' /\ CtlInv' /\ AcctInv'
  BY <1>1 DEF IInv, SlurmInv, StatusInv, CtlInv, AcctInv, Metadata, Listable, MaySee
<1>3. ~Told'
  BY <1>1 DEF Told, Metadata
<1> QED
  BY <1>2, <1>3 DEF IInv, AnswerInv, ActiveIsListed, KnownIsListed,
        WaitingIsShown, ReportedIsRecent

\* A step that changes nothing.
LEMMA StutterKeeps == ASSUME IInv, UNCHANGED vars PROVE IInv'
BY DEF vars, slurm, client, history, IInv, SlurmInv, StatusInv, CtlInv, AcctInv,
       AnswerInv, ActiveIsListed, KnownIsListed, WaitingIsShown,
       ReportedIsRecent, Told, Metadata, Listable, MaySee

-----------------------------------------------------------------------------

\* The invariant holds in every behaviour.
THEOREM Invariance == Spec => []IInv
<1>1. IInv /\ [Next]_vars => IInv'
  BY SlurmKeeps, AnswerKeeps, FailKeeps, ReplyKeeps, ReplyMetadataKeeps,
     StutterKeeps DEF Next, Client
<1> QED
  BY InitIInv, <1>1, PTL DEF Spec

\* get_job() and get_jobs() of both Slurm clients: a job that waits or runs all
\* the time that a query takes is in its answer, for any jobs, owners and
\* number of changes meanwhile.
THEOREM ActiveListed == Spec => []ActiveIsListed
BY Invariance, PTL DEF IInv, AnswerInv

\* The merge of the two answers drops no job of the database's.
THEOREM KnownListed == Spec => []KnownIsListed
BY Invariance, PTL DEF IInv, AnswerInv

\* The merge shows a waiting job as waiting whatever the database has.
THEOREM WaitingShown == Spec => []WaitingIsShown
BY Invariance, PTL DEF IInv, AnswerInv

\* The state shown is one the job had, unless the database was behind.
THEOREM ReportedRecent == Spec => []ReportedIsRecent
BY Invariance, PTL DEF IInv, AnswerInv

-----------------------------------------------------------------------------
(***************************************************************************)
(* The query for metadata, which takes the answers of one of two tools.    *)
(***************************************************************************)

\* What the controller held all the time is what it holds, and that is what it
\* ever held.
HeldInv == kept \subseteq held /\ held \subseteq met

\* What a source told has what was there to tell all the time, and nothing that
\* never was.
ToldInv ==
    /\ \E j \in Jobs : query.asked = {j}
    /\ DOMAIN listed["ctl"] \subseteq met \cap query.asked
    /\ status["ctl"] = "answered" => kept \cap query.asked \subseteq DOMAIN listed["ctl"]
    /\ status["ctlScript"] = "answered" =>
         kept \cap query.asked \cap Scripted \cap Own \subseteq DOMAIN listed["ctlScript"]
    /\ \A s \in { "acct", "acctScript" } :
         status[s] = "answered" => known \cap query.asked \cap Own \subseteq DOMAIN listed[s]

MetaInv == HeldInv /\ (Metadata => ToldInv) /\ MetadataFallsBack

LEMMA InitMeta == Init => MetaInv
<1> SUFFICES ASSUME Init PROVE MetaInv
  OBVIOUS
<1>1. Metadata => \E j \in Jobs : query.asked = {j}
  BY DEF Init, Queries, Metadata
<1>2. \A s \in Sources : status[s] = "waiting" /\ DOMAIN listed[s] = {}
  BY DEF Init, Nothing
<1> QED
  BY <1>1, <1>2 DEF Init, MetaInv, HeldInv, ToldInv, MetadataFallsBack, Open, Sources

\* Slurm moves: what was there all the time gets less, what ever was gets more.
LEMMA SlurmKeepsMeta == ASSUME IInv, MetaInv, Slurm PROVE MetaInv'
<1>1. PICK j \in Jobs :
        Submit(j) \/ Start(j) \/ End(j) \/ Requeue(j) \/ Forget(j) \/ Record(j)
  BY DEF Slurm
<1>2. Open /\ UNCHANGED << query, status, listed, result, known >>
  BY <1>1 DEF Submit, Start, End, Requeue, Forget, Record, Become, Move, client
<1>3. kept' \subseteq kept /\ met \subseteq met' /\ HeldInv'
  BY <1>1 DEF Submit, Start, End, Requeue, Forget, Record, Become, MetaInv, HeldInv
<1>4. Metadata => ToldInv'
  BY <1>2, <1>3 DEF MetaInv, ToldInv
<1> QED
  BY <1>2, <1>3, <1>4 DEF MetaInv, MetadataFallsBack, Metadata, Open

LEMMA AnswerKeepsMeta == ASSUME IInv, MetaInv, NEW s \in Sources, Answer(s) PROVE MetaInv'
<1>1. Open /\ UNCHANGED << held, kept, met, query, result, known >>
  BY DEF Answer, slurm
<1>2. /\ status' = [status EXCEPT ![s] =
           IF s = "ctlScript" /\ Shown(s) = {} THEN "failed" ELSE "answered"]
      /\ listed' = [listed EXCEPT ![s] = [j \in Shown(s) |-> StateFrom(s, j)]]
  BY DEF Answer
<1>3. /\ \A t \in Sources \ {s} : status'[t] = status[t] /\ listed'[t] = listed[t]
      /\ DOMAIN listed'[s] = Shown(s)
  BY <1>2 DEF IInv, StatusInv
<1>4. ASSUME Metadata PROVE ToldInv'
  <2>1. ToldInv /\ HeldInv
    BY <1>4 DEF MetaInv
  <2>2. s = "ctl" => Shown(s) = held \cap query.asked
    BY <1>4 DEF Shown, QueueShows
  <2>3. s = "ctlScript" => Shown(s) = held \cap Scripted \cap Own \cap query.asked
    BY DEF Shown
  <2>4. s \in { "acct", "acctScript" } => known \cap query.asked \cap Own \subseteq Shown(s)
    BY DEF Shown, MaySee, IInv, SlurmInv, StatusInv
  <2>5. DOMAIN listed'["ctl"] \subseteq met \cap query.asked
    BY <1>3, <2>1, <2>2 DEF ToldInv, HeldInv, Sources
  <2>6. status'["ctl"] = "answered" => kept \cap query.asked \subseteq DOMAIN listed'["ctl"]
    BY <1>3, <2>1, <2>2 DEF ToldInv, HeldInv, Sources
  <2>7. status'["ctlScript"] = "answered" =>
          kept \cap query.asked \cap Scripted \cap Own \subseteq DOMAIN listed'["ctlScript"]
    BY <1>3, <2>1, <2>3 DEF ToldInv, HeldInv, Sources
  <2>8. \A t \in { "acct", "acctScript" } :
          status'[t] = "answered" => known \cap query.asked \cap Own \subseteq DOMAIN listed'[t]
    BY <1>3, <2>1, <2>4 DEF ToldInv, Sources
  <2> QED
    BY <1>1, <2>1, <2>5, <2>6, <2>7, <2>8 DEF ToldInv
<1> QED
  BY <1>1, <1>4 DEF MetaInv, HeldInv, MetadataFallsBack, Metadata, Open

LEMMA FailKeepsMeta == ASSUME IInv, MetaInv, NEW s \in Sources, Fail(s) PROVE MetaInv'
<1>1. /\ Open /\ UNCHANGED << held, kept, met, query, result, known, listed >>
      /\ status' = [status EXCEPT ![s] = "failed"]
  BY DEF Fail, slurm, history
<1>2. \A t \in Sources : status'[t] = "answered" => status[t] = "answered"
  BY <1>1 DEF IInv, StatusInv
<1>3. ToldInv => ToldInv'
  BY <1>1, <1>2 DEF ToldInv, Sources
<1> QED
  BY <1>1, <1>3 DEF MetaInv, HeldInv, MetadataFallsBack, Metadata, Open

\* The job asked for is in the list that is taken, and so is its script.
LEMMA MetadataTold == ASSUME IInv, MetaInv, ReplyMetadata PROVE MetaInv'
<1>1. /\ AllIn /\ Metadata
      /\ UNCHANGED << held, kept, met, query, status, listed, known >>
  BY DEF ReplyMetadata, slurm, history
<1>2. ToldInv /\ HeldInv
  BY <1>1 DEF MetaInv
<1>3. HeldInv' /\ ToldInv'
  BY <1>1, <1>2 DEF HeldInv, ToldInv
<1>4. ASSUME NEW j \in query.asked \cap Own, j \in kept \cap Scripted,
             status["ctl"] = "answered", status["ctlScript"] = "answered"
      PROVE  result' = "answered"
  <2>1. j \in DOMAIN listed["ctl"] /\ j \in DOMAIN listed["ctlScript"]
    BY <1>2, <1>4 DEF ToldInv
  <2>2. Listing("ctl") /\ Listing("ctlScript") /\ FromController
    BY <1>4, <2>1 DEF Listing, FromController
  <2> QED
    BY <1>4, <2>1, <2>2 DEF ReplyMetadata
<1>5. ASSUME NEW j \in query.asked \cap Own, query.recent, j \in known,
             j \notin met \/ status["ctl"] = "failed",
             status["acct"] = "answered", status["acctScript"] = "answered"
      PROVE  result' = "answered"
  <2>1. ~Listing("ctl")
    BY <1>2, <1>5 DEF ToldInv, Listing
  <2>2. j \in DOMAIN listed["acct"] /\ j \in DOMAIN listed["acctScript"]
    BY <1>2, <1>5 DEF ToldInv
  <2>3. ~FromController /\ Listing("acctScript")
    BY <1>5, <2>1, <2>2 DEF Listing, FromController
  <2> QED
    BY <1>5, <2>2, <2>3 DEF ReplyMetadata
<1> QED
  BY <1>1, <1>3, <1>4, <1>5 DEF MetaInv, MetadataFallsBack

LEMMA ReplyKeepsMeta == ASSUME IInv, MetaInv, Reply PROVE MetaInv'
BY DEF Reply, Metadata, MetaInv, HeldInv, MetadataFallsBack, slurm, history

LEMMA StutterKeepsMeta == ASSUME MetaInv, UNCHANGED vars PROVE MetaInv'
BY DEF vars, slurm, client, history, MetaInv, HeldInv, ToldInv, MetadataFallsBack,
       Metadata, Open

\* get_job_metadata(): job and script come from the controller if it has both all
\* the time, and else, with Slurm 24.05, from the database, if that can tell.
THEOREM MetadataFound == Spec => []MetadataFallsBack
<1>1. IInv /\ MetaInv /\ [Next]_vars => MetaInv'
  BY SlurmKeepsMeta, AnswerKeepsMeta, FailKeepsMeta, ReplyKeepsMeta, MetadataTold,
     StutterKeepsMeta DEF Next, Client
<1>2. MetaInv => MetadataFallsBack
  BY DEF MetaInv
<1> QED
  BY InitMeta, Invariance, <1>1, <1>2, PTL DEF Spec

=============================================================================
