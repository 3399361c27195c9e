-------------------------- MODULE ClusterHealthProofs --------------------------
(***************************************************************************)
(* Proofs about ClusterHealth, for any services, file systems and paths:   *)
(* the gate agrees with what the last completed check found.               *)
(***************************************************************************)
EXTENDS ClusterHealth, SequenceTheorems, TLAPS

(***************************************************************************)
(* The checks.                                                             *)
(***************************************************************************)

Types == { "scheduler", "ssh", "filesystem", "external_storage" }
Entries == [type : Types, path : Seq(STRING)]

Scheduler == Plain("scheduler")
Ssh == Plain("ssh")
Files == IF ProbesFiles THEN [i \in DOMAIN FileSystems |-> Target("filesystem", FileSystems[i])]
         ELSE << >>
Storage == Plain("external_storage")

LEMMA PlainIsSeq ==
    ASSUME NEW type \in Types
    PROVE  /\ Plain(type) \in Seq(Entries)
           /\ Len(Plain(type)) = IF type \in Services THEN 1 ELSE 0
           /\ \A i \in 1 .. Len(Plain(type)) : Plain(type)[i] = Target(type, << >>)
<1>1. Target(type, << >>) \in Entries
  BY DEF Target, Entries
<1>2. CASE type \in Services
  BY <1>1, <1>2 DEF Plain
<1>3. CASE type \notin Services
  BY <1>3 DEF Plain
<1> QED
  BY <1>2, <1>3

LEMMA FilesAreSeq ==
    /\ Files \in Seq(Entries)
    /\ Len(Files) = IF ProbesFiles THEN Len(FileSystems) ELSE 0
    /\ \A i \in 1 .. Len(Files) : Files[i] = Target("filesystem", FileSystems[i])
<1>1. FileSystems \in Seq(Seq(STRING)) /\ DOMAIN FileSystems = 1 .. Len(FileSystems)
      /\ Len(FileSystems) \in Nat
  BY ConfigAssumption
<1>2. \A i \in 1 .. Len(FileSystems) : Target("filesystem", FileSystems[i]) \in Entries
  BY <1>1 DEF Target, Entries, Types
<1>3. CASE ProbesFiles
  BY <1>1, <1>2, <1>3 DEF Files
<1>4. CASE ~ProbesFiles
  BY <1>4 DEF Files
<1> QED
  BY <1>3, <1>4

LEMMA Joined ==
    ASSUME NEW s \in Seq(Entries), NEW t \in Seq(Entries)
    PROVE  /\ s \o t \in Seq(Entries)
           /\ Len(s \o t) = Len(s) + Len(t) /\ Len(s) \in Nat /\ Len(t) \in Nat
           /\ \A i \in 1 .. Len(s) : (s \o t)[i] = s[i]
           /\ \A i \in 1 .. Len(t) : (s \o t)[Len(s) + i] = t[i]
OBVIOUS

\* What is at each position of the list.
LEMMA ChecksAre ==
    LET n == Len(Scheduler)
        m == Len(Ssh)
    IN  /\ Checks \in Seq(Entries) /\ DOMAIN Checks = 1 .. Len(Checks)
        /\ Len(Checks) = n + m + Len(Files) + Len(Storage)
        /\ \A i \in 1 .. n : Checks[i] = Target("scheduler", << >>)
        /\ \A i \in 1 .. m : Checks[n + i] = Target("ssh", << >>)
        /\ \A k \in 1 .. Len(Files) : Checks[n + m + k] = Target("filesystem", FileSystems[k])
        /\ \A i \in 1 .. Len(Storage) :
             Checks[n + m + Len(Files) + i] = Target("external_storage", << >>)
<1>1. /\ Scheduler \in Seq(Entries) /\ Len(Scheduler) \in { 0, 1 }
      /\ \A i \in 1 .. Len(Scheduler) : Scheduler[i] = Target("scheduler", << >>)
  BY PlainIsSeq DEF Scheduler, Types
<1>2. /\ Ssh \in Seq(Entries) /\ Len(Ssh) \in { 0, 1 }
      /\ \A i \in 1 .. Len(Ssh) : Ssh[i] = Target("ssh", << >>)
  BY PlainIsSeq DEF Ssh, Types
<1>3. /\ Storage \in Seq(Entries) /\ Len(Storage) \in { 0, 1 }
      /\ \A i \in 1 .. Len(Storage) : Storage[i] = Target("external_storage", << >>)
  BY PlainIsSeq DEF Storage, Types
<1>4. /\ Files \in Seq(Entries) /\ Len(Files) \in Nat
      /\ \A i \in 1 .. Len(Files) : Files[i] = Target("filesystem", FileSystems[i])
  BY FilesAreSeq
<1> DEFINE two == Scheduler \o Ssh
           three == two \o Files
<1> HIDE DEF two, three
<1>5. /\ two \in Seq(Entries)
      /\ Len(two) = Len(Scheduler) + Len(Ssh) /\ Len(Scheduler) \in Nat /\ Len(Ssh) \in Nat
      /\ \A i \in 1 .. Len(Scheduler) : two[i] = Scheduler[i]
      /\ \A i \in 1 .. Len(Ssh) : two[Len(Scheduler) + i] = Ssh[i]
  BY <1>1, <1>2, Joined DEF two
<1>6. /\ three \in Seq(Entries)
      /\ Len(three) = Len(two) + Len(Files) /\ Len(two) \in Nat /\ Len(Files) \in Nat
      /\ \A i \in 1 .. Len(two) : three[i] = two[i]
      /\ \A i \in 1 .. Len(Files) : three[Len(two) + i] = Files[i]
  BY <1>4, <1>5, Joined DEF three
<1>7. /\ Checks \in Seq(Entries)
      /\ Len(Checks) = Len(three) + Len(Storage) /\ Len(three) \in Nat /\ Len(Storage) \in Nat
      /\ \A i \in 1 .. Len(three) : Checks[i] = three[i]
      /\ \A i \in 1 .. Len(Storage) : Checks[Len(three) + i] = Storage[i]
  <2>1. Checks = three \o Storage
    BY DEF Checks, Scheduler, Ssh, Files, Storage, two, three
  <2> QED
    BY <2>1, <1>3, <1>6, Joined
<1> DEFINE n == Len(Scheduler)
           m == Len(Ssh)
<1>8. DOMAIN Checks = 1 .. Len(Checks) /\ Len(Checks) = n + m + Len(Files) + Len(Storage)
  BY <1>5, <1>6, <1>7
<1>9. \A i \in 1 .. n : Checks[i] = Target("scheduler", << >>)
  <2> TAKE i \in 1 .. n
  <2>1. i \in 1 .. Len(two) /\ i \in 1 .. Len(three)
    BY <1>5, <1>6
  <2> QED
    BY <2>1, <1>1, <1>5, <1>6, <1>7
<1>10. \A i \in 1 .. m : Checks[n + i] = Target("ssh", << >>)
  <2> TAKE i \in 1 .. m
  <2>1. n + i \in 1 .. Len(two) /\ n + i \in 1 .. Len(three)
    BY <1>5, <1>6
  <2> QED
    BY <2>1, <1>2, <1>5, <1>6, <1>7
<1>11. \A k \in 1 .. Len(Files) : Checks[n + m + k] = Target("filesystem", FileSystems[k])
  <2> TAKE k \in 1 .. Len(Files)
  <2>1. n + m + k = Len(two) + k /\ n + m + k \in 1 .. Len(three)
    BY <1>5, <1>6
  <2>2. Checks[n + m + k] = Files[k]
    BY <2>1, <1>6, <1>7
  <2> QED
    BY <2>2, <1>4
<1>12. \A i \in 1 .. Len(Storage) :
          Checks[n + m + Len(Files) + i] = Target("external_storage", << >>)
  <2> TAKE i \in 1 .. Len(Storage)
  <2>1. n + m + Len(Files) + i = Len(three) + i
    BY <1>5, <1>6, <1>7
  <2> QED
    BY <2>1, <1>3, <1>7
<1> QED
  BY <1>7, <1>8, <1>9, <1>10, <1>11, <1>12

(***************************************************************************)
(* The invariant: the published list is empty, or the entry of a check     *)
(* that failed as a whole, or what the last completed check found.         *)
(***************************************************************************)

Entry(c, v) == [type |-> c.type, path |-> c.path, healthy |-> v[c] = "healthy"]

NothingYet == servicesHealth = << >> /\ found = [t \in Targets |-> "pending"]

WholeCheckFailed ==
    servicesHealth = << [type |-> "exception", path |-> << >>, healthy |-> FALSE] >>

AsFound ==
    /\ \A t \in Targets : found[t] # "pending"
    /\ servicesHealth = [i \in DOMAIN Checks |-> Entry(Checks[i], found)]

HealthInv ==
    /\ up \in [Targets -> BOOLEAN] /\ idp \in BOOLEAN
    /\ checker \in { "idle", "token", "probing" }
    /\ verdict \in [Targets -> Verdicts] /\ found \in [Targets -> Verdicts]
    /\ NothingYet \/ WholeCheckFailed \/ AsFound

LEMMA ChecksAreTargets ==
    /\ \A i \in DOMAIN Checks : Checks[i] \in Targets
    /\ Targets \subseteq Entries
BY ChecksAre DEF Targets, ToSet

LEMMA InitHealth == Init => HealthInv
BY DEF Init, HealthInv, NothingYet, Verdicts

LEMMA HealthStep == HealthInv /\ [Next]_vars => HealthInv'
<1> SUFFICES ASSUME HealthInv, [Next]_vars PROVE HealthInv'
  OBVIOUS
<1> USE DEF HealthInv, NothingYet, WholeCheckFailed, AsFound
<1>1. CASE \E t \in Targets : Turn(t)
  BY <1>1 DEF Turn
<1>2. CASE TurnIdp
  BY <1>2 DEF TurnIdp
<1>3. CASE Begin
  BY <1>3 DEF Begin
<1>4. CASE NoToken
  BY <1>4 DEF NoToken
<1>5. CASE GotToken
  BY <1>5 DEF GotToken, Verdicts
<1>6. CASE \E t \in Targets : Probe(t)
  BY <1>6 DEF Probe, Verdicts
<1>7. CASE Publish
  <2>1. AsFound'
    BY <1>7 DEF Publish, Entry
  <2> QED
    BY <1>7, <2>1 DEF Publish
<1>8. CASE UNCHANGED vars
  BY <1>8 DEF vars
<1> QED
  BY <1>1, <1>2, <1>3, <1>4, <1>5, <1>6, <1>7, <1>8 DEF Next, Check

\* The list of the last check, the verdicts and the state of the checker are what
\* their types say (ClusterHealthChecker.check).
THEOREM TypeCorrect == Spec => []TypeOK
<1>1. HealthInv => TypeOK
  <2> SUFFICES ASSUME HealthInv PROVE TypeOK
    OBVIOUS
  <2>1. \A i \in DOMAIN servicesHealth :
            servicesHealth[i] \in [type : {t.type : t \in Targets} \cup {"exception"},
                                   path : {t.path : t \in Targets} \cup {<< >>},
                                   healthy : BOOLEAN]
    <3>1. CASE NothingYet
      BY <3>1 DEF NothingYet
    <3>2. CASE WholeCheckFailed
      <4>1. DOMAIN servicesHealth = {1}
            /\ servicesHealth[1] = [type |-> "exception", path |-> << >>, healthy |-> FALSE]
        BY <3>2 DEF WholeCheckFailed
      <4>2. << >> \in {t.path : t \in Targets} \cup {<< >>}
        OBVIOUS
      <4> DEFINE types == {t.type : t \in Targets} \cup {"exception"}
                 paths == {t.path : t \in Targets} \cup {<< >>}
      <4>3. "exception" \in types /\ FALSE \in BOOLEAN
        OBVIOUS
      <4> HIDE DEF types, paths
      <4>4. \A e : e = [type |-> "exception", path |-> << >>, healthy |-> FALSE]
                     => e \in [type : types, path : paths, healthy : BOOLEAN]
        BY <4>2, <4>3 DEF paths
      <4> QED
        BY <4>1, <4>4 DEF types, paths
    <3>3. CASE AsFound
      BY <3>3, ChecksAreTargets DEF AsFound, Entry
    <3> QED
      BY <3>1, <3>2, <3>3 DEF HealthInv
  <2> QED
    BY <2>1 DEF HealthInv, TypeOK
<1> QED
  BY <1>1, InitHealth, HealthStep, PTL DEF Spec

(***************************************************************************)
(* The gate.                                                               *)
(***************************************************************************)

\* When the check at position k is the only one up to there that is about t, it
\* decides.
LEMMA Decides ==
    ASSUME AsFound, NEW t, NEW k \in DOMAIN Checks,
           About(Checks[k], t),
           \A j \in 1 .. k - 1 : ~About(Checks[j], t)
    PROVE  HealthOf(t) = 503 <=> found[Checks[k]] # "healthy"
<1>1. DOMAIN servicesHealth = DOMAIN Checks /\ DOMAIN Checks = 1 .. Len(Checks)
      /\ Len(Checks) \in Nat
  BY ChecksAre DEF AsFound
<1>2. \A i \in DOMAIN Checks :
         About(servicesHealth[i], t) <=> About(Checks[i], t)
  BY DEF AsFound, Entry, About
<1>3. Deciding(t) = { k }
  BY <1>1, <1>2 DEF Deciding
<1>4. servicesHealth[k].healthy <=> found[Checks[k]] = "healthy"
  BY DEF AsFound, Entry
<1> QED
  BY <1>3, <1>4 DEF HealthOf

LEMMA AloneIsWhole == IsUnder(<< >>, << >>)
BY DEF IsUnder, IsPrefix

\* Where the check of a gated service is, nothing before it is about that service.
LEMMA ServiceIsChecked ==
    ASSUME NEW t \in Gated
    PROVE  \E k \in DOMAIN Checks :
               /\ Checks[k] = t /\ About(Checks[k], t)
               /\ \A j \in 1 .. k - 1 : ~About(Checks[j], t)
<1>1. Len(Scheduler) \in { 0, 1 } /\ Len(Ssh) \in { 0, 1 } /\ Len(Storage) \in { 0, 1 }
      /\ Len(Files) \in Nat
  BY PlainIsSeq, FilesAreSeq DEF Scheduler, Ssh, Storage, Types
<1>2. CASE t = Target("scheduler", << >>) /\ "scheduler" \in Services
  <2>1. Len(Scheduler) = 1
    BY <1>2, PlainIsSeq DEF Scheduler, Types
  <2>2. 1 \in DOMAIN Checks /\ Checks[1] = t
    BY <1>1, <1>2, <2>1, ChecksAre
  <2> QED
    BY <1>2, <2>2, AloneIsWhole DEF About, Target
<1>3. CASE t = Target("ssh", << >>) /\ "ssh" \in Services
  <2>1. Len(Ssh) = 1
    BY <1>3, PlainIsSeq DEF Ssh, Types
  <2> DEFINE k == Len(Scheduler) + 1
  <2>2. k \in DOMAIN Checks /\ Checks[k] = t
    BY <1>1, <1>3, <2>1, ChecksAre
  <2>3. \A j \in 1 .. k - 1 : Checks[j] = Target("scheduler", << >>)
    BY <1>1, ChecksAre
  <2>4. \A j \in 1 .. k - 1 : ~About(Checks[j], t)
    BY <1>3, <2>3 DEF About, Target
  <2>5. About(Checks[k], t)
    BY <1>3, <2>2, AloneIsWhole DEF About, Target
  <2> QED
    BY <2>2, <2>4, <2>5
<1>4. Services \cap {"scheduler", "ssh"} \subseteq {"scheduler", "ssh"}
  OBVIOUS
<1> QED
  BY <1>2, <1>3 DEF Gated

\* Unless the last check failed as a whole, a service is refused exactly when that
\* check found it unhealthy (ServiceAvailabilityDependency).
THEOREM GateAgrees == Spec => []GateFollowsCheck
<1>1. HealthInv => GateFollowsCheck
  <2> SUFFICES ASSUME HealthInv, ~CheckerFailed, NEW t \in Gated
               PROVE  Gate(t) = 503 <=> found[t] = "unhealthy"
    BY DEF GateFollowsCheck
  <2>1. Probing /\ t.type # "filesystem"
    BY DEF Gated, Probing, Target
  <2>2. Gate(t) = HealthOf(t)
    BY <2>1 DEF Gate
  <2>3. PICK k \in DOMAIN Checks :
            /\ Checks[k] = t /\ About(Checks[k], t)
            /\ \A j \in 1 .. k - 1 : ~About(Checks[j], t)
    BY ServiceIsChecked
  <2>4. t \in Targets /\ found[t] \in Verdicts
    BY <2>3, ChecksAreTargets DEF HealthInv
  <2>5. CASE NothingYet
    <3>1. Deciding(t) = {}
      BY <2>5 DEF NothingYet, Deciding
    <3> QED
      BY <2>2, <2>4, <2>5, <3>1 DEF HealthOf, NothingYet
  <2>6. CASE AsFound
    <3>1. HealthOf(t) = 503 <=> found[t] # "healthy"
      BY <2>3, <2>6, Decides
    <3>2. found[t] # "pending"
      BY <2>4, <2>6 DEF AsFound
    <3> QED
      BY <2>2, <2>4, <3>1, <3>2 DEF Verdicts
  <2>7. ~WholeCheckFailed
    BY DEF WholeCheckFailed, CheckerFailed
  <2> QED
    BY <2>5, <2>6, <2>7 DEF HealthInv
<1> QED
  BY <1>1, InitHealth, HealthStep, PTL DEF Spec

(***************************************************************************)
(* Paths.  A file system inside another has to be configured before it:    *)
(* the gate takes the first that contains the path.                        *)
(***************************************************************************)

InnerFirst ==
    \A p \in Paths : InFileSystem(p) # {} =>
        \E k \in InFileSystem(p) :
            \A i \in InFileSystem(p) \ {k} :
                k < i /\ Len(FileSystems[i]) < Len(FileSystems[k])

LEMMA FileSystemIsChecked ==
    ASSUME ProbesFiles, InnerFirst, NEW p \in Paths, InFileSystem(p) # {}
    PROVE  LET t == Target("filesystem", p)
           IN  \E k \in DOMAIN Checks :
                   /\ Checks[k] = Target("filesystem", HomeOf(p)) /\ About(Checks[k], t)
                   /\ \A j \in 1 .. k - 1 : ~About(Checks[j], t)
<1> DEFINE t == Target("filesystem", p)
           n == Len(Scheduler)
           m == Len(Ssh)
<1>1. n \in { 0, 1 } /\ m \in { 0, 1 } /\ Len(Storage) \in { 0, 1 }
  BY PlainIsSeq DEF Scheduler, Ssh, Storage, Types
<1>2. Len(Files) = Len(FileSystems) /\ Len(Files) \in Nat
      /\ DOMAIN FileSystems = 1 .. Len(Files)
      /\ \A i \in DOMAIN FileSystems : Len(FileSystems[i]) \in Nat
  BY FilesAreSeq, ConfigAssumption
<1>3. PICK h \in InFileSystem(p) :
          \A i \in InFileSystem(p) \ {h} :
              h < i /\ Len(FileSystems[i]) < Len(FileSystems[h])
  BY DEF InnerFirst
<1>4. InFileSystem(p) \subseteq 1 .. Len(Files)
  BY <1>2 DEF InFileSystem
<1>5. HomeOf(p) = FileSystems[h]
  <2>1. \A j \in InFileSystem(p) : Len(FileSystems[j]) <= Len(FileSystems[h])
    BY <1>2, <1>3, <1>4
  <2>2. \A i \in InFileSystem(p) :
           (\A j \in InFileSystem(p) : Len(FileSystems[j]) <= Len(FileSystems[i])) => i = h
    BY <1>2, <1>3, <1>4
  <2> QED
    BY <2>1, <2>2 DEF HomeOf
<1> DEFINE k == n + m + h
<1>6. k \in DOMAIN Checks /\ Checks[k] = Target("filesystem", FileSystems[h])
  BY <1>1, <1>2, <1>3, <1>4, ChecksAre
<1>7. About(Checks[k], t)
  BY <1>3, <1>6 DEF About, Target, InFileSystem
<1>8. ASSUME NEW j \in 1 .. k - 1 PROVE ~About(Checks[j], t)
  <2>1. CASE j <= n
    BY <2>1, <1>1, ChecksAre DEF About, Target
  <2>2. CASE n < j /\ j <= n + m
    <3>1. j - n \in 1 .. m /\ n + (j - n) = j
      BY <1>1, <2>2
    <3>2. Checks[j] = Target("ssh", << >>)
      BY <3>1, ChecksAre
    <3> QED
      BY <3>2 DEF About, Target
  <2>3. CASE n + m < j
    <3> DEFINE i == j - n - m
    <3>1. i \in 1 .. Len(Files) /\ n + m + i = j /\ i < h
      BY <1>1, <1>2, <1>3, <1>4, <2>3
    <3>2. Checks[j] = Target("filesystem", FileSystems[i])
      BY <3>1, ChecksAre
    <3>3. ~IsUnder(p, FileSystems[i])
      BY <3>1, <1>2, <1>3, <1>4 DEF InFileSystem
    <3> QED
      BY <3>2, <3>3 DEF About, Target
  <2> QED
    BY <2>1, <2>2, <2>3, <1>1, <1>2, <1>4
<1> HIDE DEF k
<1> QED
  BY <1>5, <1>6, <1>7, <1>8

\* If inner file systems are configured before outer ones, a request for a path is
\* refused exactly when the file system it lies on was found unhealthy.
THEOREM PathsAgree == ASSUME InnerFirst PROVE Spec => []PathFollowsItsFileSystem
<1>1. HealthInv => PathFollowsItsFileSystem
  <2> SUFFICES ASSUME HealthInv, ~CheckerFailed, ProbesFiles,
                      NEW p \in Paths, InFileSystem(p) # {}
               PROVE  Gate(Target("filesystem", p)) = 503
                        <=> found[Target("filesystem", HomeOf(p))] = "unhealthy"
    BY DEF PathFollowsItsFileSystem
  <2> DEFINE t == Target("filesystem", p)
             home == Target("filesystem", HomeOf(p))
  <2>1. Gate(t) = HealthOf(t)
    BY DEF Gate, Probing, Target, InFileSystem
  <2>2. PICK k \in DOMAIN Checks :
            /\ Checks[k] = home /\ About(Checks[k], t)
            /\ \A j \in 1 .. k - 1 : ~About(Checks[j], t)
    BY FileSystemIsChecked
  <2>3. home \in Targets /\ found[home] \in Verdicts
    BY <2>2, ChecksAreTargets DEF HealthInv
  <2> HIDE DEF t, home
  <2>4. CASE NothingYet
    <3>1. Deciding(t) = {}
      BY <2>4 DEF NothingYet, Deciding
    <3>2. HealthOf(t) = 200 /\ found[home] = "pending"
      BY <2>3, <2>4, <3>1 DEF HealthOf, NothingYet
    <3> QED
      BY <2>1, <3>2 DEF t, home
  <2>5. CASE AsFound
    <3>1. HealthOf(t) = 503 <=> found[home] # "healthy"
      BY <2>2, <2>5, Decides
    <3>2. found[home] # "pending"
      BY <2>3, <2>5 DEF AsFound
    <3>3. HealthOf(t) = 503 <=> found[home] = "unhealthy"
      BY <2>3, <3>1, <3>2 DEF Verdicts
    <3> QED
      BY <2>1, <3>3 DEF t, home
  <2>6. ~WholeCheckFailed
    BY DEF WholeCheckFailed, CheckerFailed
  <2> QED
    BY <2>4, <2>5, <2>6 DEF HealthInv
<1> QED
  BY <1>1, InitHealth, HealthStep, PTL DEF Spec

=============================================================================
