---------------------------- MODULE SSHPoolProofs ----------------------------
(***************************************************************************)
(* Proofs about SSHPool, for every set of users and requests and every     *)
(* value of the limits.                                                    *)
(***************************************************************************)
EXTENDS SSHPool, FiniteSetTheorems, TLAPS

\* Any set of requests, and any set of users, has a size.
LEMMA Sizes ==
    /\ IsFiniteSet(Connectors) /\ Cardinality(Connectors) \in Nat
    /\ IsFiniteSet(Pooled) /\ Cardinality(Pooled) \in Nat
<1>1. Connectors \subseteq Requests /\ Pooled \subseteq Users
  BY DEF Connectors, Pooled
<1> QED
  BY <1>1, RequestsAssumption, FS_Subset, FS_CardinalityType

\* Every action keeps the type of every variable of the pool.
LEMMA TypeStep == TypeOK /\ [Next]_vars => TypeOK'
<1> SUFFICES ASSUME TypeOK, [Next]_vars PROVE TypeOK'
  OBVIOUS
<1> USE RequestsAssumption, LimitsAssumption DEF TypeOK, Phases, Goto, Idle
<1>1. ASSUME NEW r \in Requests, Arrive(r) PROVE TypeOK'
  BY <1>1 DEF Arrive
<1>2. ASSUME NEW r \in Requests, Reuse(r) PROVE TypeOK'
  BY <1>2 DEF Reuse, Run, HasLiveClient
<1>3. ASSUME NEW r \in Requests, Refuse(r) PROVE TypeOK'
  BY <1>3 DEF Refuse
<1>4. ASSUME NEW r \in Requests, StartConnect(r) PROVE TypeOK'
  BY <1>4, Sizes DEF StartConnect
<1>5. ASSUME NEW r \in Requests, GetKeys(r) PROVE TypeOK'
  BY <1>5 DEF GetKeys
<1>6. ASSUME NEW r \in Requests, ConnectProxy(r) PROVE TypeOK'
  BY <1>6 DEF ConnectProxy
<1>7. ASSUME NEW r \in Requests, Connect(r) PROVE TypeOK'
  BY <1>7 DEF Connect, Run, Release
<1>8. ASSUME NEW r \in Requests, FailConnect(r) PROVE TypeOK'
  BY <1>8 DEF FailConnect, Release
<1>9. ASSUME NEW r \in Requests, Complete(r) \/ TimeOut(r) \/ LoseCommand(r) PROVE TypeOK'
  BY <1>9 DEF Complete, TimeOut, LoseCommand, Stop
<1>10. ASSUME NEW c \in Requests, CleanUp(c) \/ Drop(c) PROVE TypeOK'
  BY <1>10 DEF CleanUp, Drop, Close
<1>11. ASSUME NEW c \in Requests, DropProxy(c) PROVE TypeOK'
  BY <1>11 DEF DropProxy
<1>12. CASE Prune
  BY <1>12 DEF Prune
<1>13. CASE Tick
  BY <1>13 DEF Tick
<1>14. CASE UNCHANGED vars
  BY <1>14 DEF vars
<1> QED
  BY <1>1, <1>2, <1>3, <1>4, <1>5, <1>6, <1>7, <1>8, <1>9, <1>10, <1>11, <1>12,
     <1>13, <1>14 DEF Next, Proceed

\* The variables of the pool keep their types, whatever requests do.
THEOREM TypeCorrect == Spec => []TypeOK
<1>1. Init => TypeOK
  BY RequestsAssumption, LimitsAssumption DEF Init, TypeOK, Phases, Idle
<1> QED
  BY <1>1, TypeStep, PTL DEF Spec

-----------------------------------------------------------------------------
(* No connection is leaked.                                                 *)

\* Every action keeps the locks, the entries and the connections consistent.
LEMMA PoolStep == TypeOK /\ PoolInv /\ [Next]_vars => PoolInv'
<1> SUFFICES ASSUME TypeOK, PoolInv, [Next]_vars PROVE PoolInv'
  OBVIOUS
<1> USE RequestsAssumption
    DEF TypeOK, PoolInv, LockInv, ClientInv, NoOrphanConnection, Connecting, Phases, Goto
<1>1. ASSUME NEW r \in Requests, Arrive(r) PROVE PoolInv'
  BY <1>1 DEF Arrive
<1>2. ASSUME NEW r \in Requests, Reuse(r) PROVE PoolInv'
  BY <1>2 DEF Reuse, Run, HasLiveClient
<1>3. ASSUME NEW r \in Requests, Refuse(r) PROVE PoolInv'
  BY <1>3 DEF Refuse, HasLiveClient, IsClosed
<1>4. ASSUME NEW r \in Requests, StartConnect(r) PROVE PoolInv'
  BY <1>4 DEF StartConnect, HasLiveClient, IsClosed
<1>5. ASSUME NEW r \in Requests, GetKeys(r) PROVE PoolInv'
  BY <1>5 DEF GetKeys
<1>6. ASSUME NEW r \in Requests, ConnectProxy(r) PROVE PoolInv'
  BY <1>6 DEF ConnectProxy
<1>7. ASSUME NEW r \in Requests, Connect(r) PROVE PoolInv'
  BY <1>7 DEF Connect, Run, Release
<1>8. ASSUME NEW r \in Requests, FailConnect(r) PROVE PoolInv'
  BY <1>8 DEF FailConnect, Release
<1>9. ASSUME NEW r \in Requests, Complete(r) \/ TimeOut(r) \/ LoseCommand(r) PROVE PoolInv'
  BY <1>9 DEF Complete, TimeOut, LoseCommand, Stop
<1>10. ASSUME NEW c \in Requests, CleanUp(c) \/ Drop(c) PROVE PoolInv'
  BY <1>10 DEF CleanUp, Drop, Close
<1>11. ASSUME NEW c \in Requests, DropProxy(c) PROVE PoolInv'
  BY <1>11 DEF DropProxy
<1>12. CASE Prune
  BY <1>12 DEF Prune, HasLiveClient, IsClosed
<1>13. CASE Tick
  BY <1>13 DEF Tick
<1>14. CASE UNCHANGED vars
  BY <1>14 DEF vars
<1> QED
  BY <1>1, <1>2, <1>3, <1>4, <1>5, <1>6, <1>7, <1>8, <1>9, <1>10, <1>11, <1>12,
     <1>13, <1>14 DEF Next, Proceed

\* The invariant that the absence of leaks needs holds in every state.
LEMMA PoolInvariant == Spec => []PoolInv
<1>1. Init => PoolInv
  BY RequestsAssumption
  DEF Init, PoolInv, LockInv, ClientInv, NoOrphanConnection, Connecting
<1> QED
  BY <1>1, TypeCorrect, PoolStep, PTL DEF Spec

\* A connection that is not closed is its user's entry in the pool.
THEOREM NoLeak == Spec => []NoOrphanConnection
<1>1. PoolInv => NoOrphanConnection
  BY DEF PoolInv
<1> QED
  BY <1>1, PoolInvariant, PTL

-----------------------------------------------------------------------------
(* A command runs on a connection of its own user.                          *)

\* Commands start on an established connection, the entry of their user.
LEMMA RunStep ==
    TypeOK /\ PoolInv /\ RunInv /\ RunsAsItsUser /\ [Next]_vars
        => RunInv' /\ RunsAsItsUser'
<1> SUFFICES ASSUME TypeOK, PoolInv, RunInv, RunsAsItsUser, [Next]_vars
             PROVE  RunInv' /\ RunsAsItsUser'
  OBVIOUS
<1> DEFINE Goal == RunInv' /\ RunsAsItsUser'
<1> USE RequestsAssumption
    DEF TypeOK, PoolInv, ClientInv, RunInv, RunsAsItsUser, Connecting, Phases, Goto
<1>1. ASSUME NEW r \in Requests, Arrive(r) PROVE Goal
  BY <1>1 DEF Arrive
<1>2. ASSUME NEW r \in Requests, Reuse(r) PROVE Goal
  BY <1>2 DEF Reuse, Run, HasLiveClient
<1>3. ASSUME NEW r \in Requests, Refuse(r) PROVE Goal
  BY <1>3 DEF Refuse
<1>4. ASSUME NEW r \in Requests, StartConnect(r) PROVE Goal
  BY <1>4 DEF StartConnect
<1>5. ASSUME NEW r \in Requests, GetKeys(r) PROVE Goal
  BY <1>5 DEF GetKeys
<1>6. ASSUME NEW r \in Requests, ConnectProxy(r) PROVE Goal
  BY <1>6 DEF ConnectProxy
<1>7. ASSUME NEW r \in Requests, Connect(r) PROVE Goal
  BY <1>7 DEF Connect, Run
<1>8. ASSUME NEW r \in Requests, FailConnect(r) PROVE Goal
  BY <1>8 DEF FailConnect
<1>9. ASSUME NEW r \in Requests, Complete(r) \/ TimeOut(r) \/ LoseCommand(r) PROVE Goal
  BY <1>9 DEF Complete, TimeOut, LoseCommand, Stop
<1>10. ASSUME NEW c \in Requests, CleanUp(c) \/ Drop(c) PROVE Goal
  BY <1>10 DEF CleanUp, Drop, Close
<1>11. ASSUME NEW c \in Requests, DropProxy(c) PROVE Goal
  BY <1>11 DEF DropProxy
<1>12. CASE Prune
  BY <1>12 DEF Prune
<1>13. CASE Tick
  BY <1>13 DEF Tick
<1>14. CASE UNCHANGED vars
  BY <1>14 DEF vars
<1> QED
  BY <1>1, <1>2, <1>3, <1>4, <1>5, <1>6, <1>7, <1>8, <1>9, <1>10, <1>11, <1>12,
     <1>13, <1>14 DEF Next, Proceed

\* Running commands have a connection, which is one of their own user.
LEMMA RunInvariant == Spec => [](RunInv /\ RunsAsItsUser)
<1>1. Init => RunInv /\ RunsAsItsUser
  BY DEF Init, RunInv, RunsAsItsUser
<1> QED
  BY <1>1, TypeCorrect, PoolInvariant, RunStep, PTL DEF Spec

\* A command runs with the credentials of the user who asked for it.
THEOREM OwnUser == Spec => []RunsAsItsUser
BY RunInvariant, PTL

-----------------------------------------------------------------------------
(* prune closes no connection under a command, when every probing timeout   *)
(* is shorter than idle_timeout, as command_execution has to be.            *)

ShortProbes == \A p \in Probes : ProbeTimeout[p] < IdleTimeout

\* idle + left never exceeds the timeout of the command's client: a command
\* starts with idle = 0, and a second takes one from left and adds one to idle.
LEMMA BudgetStep ==
    ASSUME ShortProbes
    PROVE  TypeOK /\ PoolInv /\ RunInv /\ BudgetInv /\ [Next]_vars => BudgetInv'
<1> SUFFICES ASSUME TypeOK, PoolInv, RunInv, BudgetInv, [Next]_vars
             PROVE  BudgetInv'
  OBVIOUS
<1> USE RequestsAssumption, LimitsAssumption
    DEF TypeOK, PoolInv, ClientInv, RunInv, BudgetInv, Connecting, Phases, Goto, Idle
<1>1. ASSUME NEW r \in Requests, Arrive(r) PROVE BudgetInv'
  BY <1>1 DEF Arrive, ShortProbes
<1>2. ASSUME NEW r \in Requests, Reuse(r) PROVE BudgetInv'
  BY <1>2 DEF Reuse, Run, HasLiveClient
<1>3. ASSUME NEW r \in Requests, Refuse(r) PROVE BudgetInv'
  BY <1>3 DEF Refuse
<1>4. ASSUME NEW r \in Requests, StartConnect(r) PROVE BudgetInv'
  BY <1>4 DEF StartConnect
<1>5. ASSUME NEW r \in Requests, GetKeys(r) PROVE BudgetInv'
  BY <1>5 DEF GetKeys
<1>6. ASSUME NEW r \in Requests, ConnectProxy(r) PROVE BudgetInv'
  BY <1>6 DEF ConnectProxy
<1>7. ASSUME NEW r \in Requests, Connect(r) PROVE BudgetInv'
  BY <1>7 DEF Connect, Run
<1>8. ASSUME NEW r \in Requests, FailConnect(r) PROVE BudgetInv'
  BY <1>8 DEF FailConnect
<1>9. ASSUME NEW r \in Requests, Complete(r) \/ TimeOut(r) \/ LoseCommand(r) PROVE BudgetInv'
  BY <1>9 DEF Complete, TimeOut, LoseCommand, Stop
<1>10. ASSUME NEW c \in Requests, CleanUp(c) \/ Drop(c) PROVE BudgetInv'
  BY <1>10 DEF CleanUp, Drop, Close
<1>11. ASSUME NEW c \in Requests, DropProxy(c) PROVE BudgetInv'
  BY <1>11 DEF DropProxy
<1>12. CASE Prune
  BY <1>12 DEF Prune
<1>13. CASE Tick
  BY <1>13 DEF Tick
<1>14. CASE UNCHANGED vars
  BY <1>14 DEF vars
<1> QED
  BY <1>1, <1>2, <1>3, <1>4, <1>5, <1>6, <1>7, <1>8, <1>9, <1>10, <1>11, <1>12,
     <1>13, <1>14 DEF Next, Proceed

\* A connection with a command is not closing after any step if it was open
\* before: only prune closes, and only connections idle for too long.
LEMMA SpareStep ==
    TypeOK /\ RunInv /\ BudgetInv /\ [Next]_vars =>
      [ \A r \in Requests :
          phase[r] = "executing" /\ phase'[r] = "executing" /\ conn[using[r]] = "open"
             => conn'[using[r]] # "closing" ]_vars
<1> SUFFICES ASSUME TypeOK, RunInv, BudgetInv, Next,
                    NEW r \in Requests, phase[r] = "executing", conn[using[r]] = "open"
             PROVE  conn'[using[r]] # "closing"
  BY DEF vars
<1>1. using[r] \in Requests /\ ~IsIdle(using[r])
  BY LimitsAssumption DEF TypeOK, RunInv, BudgetInv, IsIdle, Idle
<1>2. CASE Prune
  BY <1>1, <1>2 DEF Prune, TypeOK
<1>3. CASE \E c \in Requests : CleanUp(c) \/ Drop(c) \/ DropProxy(c)
  BY <1>1, <1>3 DEF CleanUp, Drop, DropProxy, Close, TypeOK
<1>4. CASE \E q \in Requests : Connect(q)
  BY <1>1, <1>4 DEF Connect, TypeOK
<1>5. CASE conn' = conn
  BY <1>5
<1> QED
  BY <1>2, <1>3, <1>4, <1>5
  DEF Next, Proceed, Arrive, Reuse, Refuse, StartConnect, GetKeys, ConnectProxy,
      FailConnect, TimeOut, LoseCommand, Complete, Stop, Tick

\* With short probes, a running command never sees prune close its connection.
THEOREM CommandsSpared ==
    ASSUME ShortProbes
    PROVE  Spec => PruneSparesCommands
<1>1. Init => BudgetInv
  BY LimitsAssumption DEF Init, BudgetInv
<1>2. Spec => []BudgetInv
  BY <1>1, BudgetStep, TypeCorrect, PoolInvariant, RunInvariant, PTL DEF Spec
<1> QED
  BY <1>2, TypeCorrect, RunInvariant, SpareStep, PTL DEF Spec, PruneSparesCommands

-----------------------------------------------------------------------------
(* What exceeds max_clients.                                                *)

\* A connecting request counts from the capacity check, before it is in the
\* pool, and is in one place or the other until it ends.
LEMMA OvershootStep ==
    TypeOK /\ PoolInv /\ OvershootBounded /\ [Next]_vars => OvershootBounded'
<1> SUFFICES ASSUME TypeOK, PoolInv, OvershootBounded, [Next]_vars
             PROVE  OvershootBounded'
  OBVIOUS
<1> USE RequestsAssumption, LimitsAssumption, Sizes DEF OvershootBounded
<1>1. ASSUME NEW r \in Requests, StartConnect(r) PROVE OvershootBounded'
  <2>1. Pooled' = Pooled \ {UserOf[r]}
    BY <1>1 DEF StartConnect, Pooled, TypeOK
  <2>2. Cardinality(Pooled') < MaxClients
    BY <1>1, <2>1 DEF StartConnect, OthersPooled
  <2>3. Connectors' = Connectors \cup {r} /\ r \notin Connectors
    BY <1>1 DEF StartConnect, Connectors, Connecting, Goto, TypeOK
  <2>4. Cardinality(Connectors') = Cardinality(Connectors) + 1
    BY <2>3, FS_AddElement
  <2>5. burst' >= Cardinality(Connectors') /\ burst' \in Nat
    BY <1>1, <2>4 DEF StartConnect, TypeOK
  <2>6. Cardinality(Pooled') \in Nat
    BY <2>1, FS_RemoveElement, FS_CardinalityType
  <2> QED
    BY <2>2, <2>4, <2>5, <2>6
<1>2. ASSUME NEW r \in Requests, Connect(r) PROVE OvershootBounded'
  <2>1. Pooled' = Pooled \cup {UserOf[r]} /\ UserOf[r] \notin Pooled
    BY <1>2 DEF Connect, Pooled, TypeOK, PoolInv, ClientInv, Connecting
  <2>2. Connectors' = Connectors \ {r} /\ r \in Connectors
    BY <1>2 DEF Connect, Run, Goto, Connectors, Connecting, TypeOK
  <2>3. Cardinality(Pooled') = Cardinality(Pooled) + 1
    BY <2>1, FS_AddElement
  <2>4. Cardinality(Connectors') = Cardinality(Connectors) - 1
    BY <2>2, FS_RemoveElement
  <2> QED
    BY <1>2, <2>3, <2>4 DEF Connect, TypeOK
<1>3. ASSUME Pooled' \subseteq Pooled, Connectors' \subseteq Connectors, burst' = burst
      PROVE  OvershootBounded'
  <2>1. /\ Cardinality(Pooled') \in Nat
        /\ Cardinality(Pooled') <= Cardinality(Pooled)
    BY <1>3, FS_Subset, FS_CardinalityType
  <2>2. /\ Cardinality(Connectors') \in Nat
        /\ Cardinality(Connectors') <= Cardinality(Connectors)
    BY <1>3, FS_Subset, FS_CardinalityType
  <2> QED
    BY <1>3, <2>1, <2>2 DEF TypeOK
<1>4. ASSUME NEW r \in Requests, FailConnect(r) \/ GetKeys(r) \/ ConnectProxy(r)
      PROVE  OvershootBounded'
  BY <1>3, <1>4
  DEF FailConnect, GetKeys, ConnectProxy, Pooled, Connectors, Connecting, Goto, TypeOK
<1>5. ASSUME NEW r \in Requests,
             Arrive(r) \/ Reuse(r) \/ Refuse(r) \/ Complete(r) \/ TimeOut(r) \/ LoseCommand(r)
      PROVE  OvershootBounded'
  BY <1>3, <1>5
  DEF Arrive, Reuse, Refuse, Complete, TimeOut, LoseCommand, Stop, Run, Pooled,
      Connectors, Connecting, Goto, TypeOK
<1>6. CASE Prune
  BY <1>3, <1>6 DEF Prune, Pooled, Connectors, Connecting, TypeOK
<1>7. CASE UNCHANGED << phase, clients, burst >>
  BY <1>3, <1>7 DEF Pooled, Connectors, Connecting
<1>8. \/ UNCHANGED << phase, clients, burst >>
      \/ Prune
      \/ \E r \in Requests : Arrive(r) \/ Proceed(r) \/ Complete(r)
  BY DEF Next, CleanUp, Drop, Close, DropProxy, Tick, vars
<1> QED
  BY <1>1, <1>2, <1>4, <1>5, <1>6, <1>7, <1>8 DEF Proceed

\* The pool exceeds max_clients by less than the largest burst of connects.
THEOREM SoftLimit == Spec => []OvershootBounded
<1>1. Init => OvershootBounded
  BY DEF Init, OvershootBounded
<1> QED
  BY <1>1, TypeCorrect, PoolInvariant, OvershootStep, PTL DEF Spec

=============================================================================
