---------------------------- MODULE StreamerProofs ----------------------------
(***************************************************************************)
(* Proofs about Streamer, for any clients, tasks and length of the source: *)
(* what is at the paths that the transfers of a job write to.              *)
(***************************************************************************)
EXTENDS Streamer, TLAPS

Numbered(n) == [i \in 1 .. n |-> i]

\* A receiver that has created its target, and may still write or remove it.
Writing(c) == receiver[c] \in { "on", "over" }

Labels == { "off", "on", "exists", "over", "ok", "failed", "declined", "refused" }

TypeInv ==
    /\ sender \in [Clients -> { "off", "on", "ok", "failed" }]
    /\ receiver \in [Clients -> Labels]
    /\ got \in [Clients -> Nat]
    /\ exists \subseteq Paths
    /\ data \in [Paths -> Seq(Nat)]
    /\ given.old \subseteq Paths

\* A target has one writer, which made it.
WriterInv ==
    /\ \A c \in Clients :
         Writing(c) => Target(c) \in exists /\ Target(c) \notin given.old
    /\ \A c, d \in Clients : Writing(c) /\ Writing(d) /\ c # d => Target(c) # Target(d)
    /\ \A c \in Clients : receiver[c] \in { "over", "refused" } => Uploading

\* It has written what it has taken, but for the init message.
DataInv ==
    /\ \A c \in Clients :
         receiver[c] = "on" =>
             data[Target(c)] = Numbered(IF got[c] = 0 THEN 0 ELSE got[c] - 1)
    /\ \A c \in Clients : receiver[c] = "off" => got[c] = 0
    /\ \A p \in Paths : p \notin exists => data[p] = << >>
    /\ FilesAreInitialParts
    /\ OldFilesStay

FilesInv == TypeInv /\ WriterInv /\ DataInv

LEMMA TargetIsPath == ASSUME NEW c \in Clients PROVE Target(c) \in Paths
BY DEF Target, Paths

LEMMA InitFiles == Init => FilesInv
<1> SUFFICES ASSUME Init PROVE FilesInv
  OBVIOUS
<1>1. TypeInv
  BY DEF Init, TypeInv, Labels
<1>2. WriterInv
  BY DEF Init, WriterInv, Writing
<1>3. << >> = Numbered(0) /\ Len(<< >>) = 0
  BY DEF Numbered
<1>4. DataInv
  BY <1>3 DEF Init, DataInv, FilesAreInitialParts, OldFilesStay, Numbered
<1> QED
  BY <1>1, <1>2, <1>4 DEF FilesInv

\* The steps that neither create, write nor remove a target, nor take a message for
\* a chunk: what is written stays, and there is no new writer.
Leaves ==
    /\ UNCHANGED << exists, data, given >>
    /\ sender' \in [Clients -> { "off", "on", "ok", "failed" }]
    /\ receiver' \in [Clients -> Labels]
    /\ got' \in [Clients -> Nat]
    /\ \A c \in Clients :
         /\ receiver'[c] = "on" => receiver[c] = "on"
         /\ receiver'[c] = "over" => receiver[c] = "over" \/ (receiver[c] = "on" /\ Uploading)
         /\ receiver'[c] = "refused" => receiver[c] = "refused"
         /\ receiver'[c] = "off" => receiver[c] = "off" /\ got'[c] = got[c]
         /\ receiver[c] = "on" =>
              got'[c] = got[c] \/ (got[c] = 0 /\ got'[c] = 1)

LEMMA LeavesFiles == ASSUME FilesInv, Leaves PROVE FilesInv'
<1>1. TypeInv'
  BY DEF FilesInv, TypeInv, Leaves
<1>2. WriterInv'
  BY DEF FilesInv, WriterInv, Leaves, Writing, Target, Uploading
<1>3. DataInv'
  BY DEF FilesInv, TypeInv, DataInv, Leaves, FilesAreInitialParts, OldFilesStay, Target, Uploading
<1> QED
  BY <1>1, <1>2, <1>3 DEF FilesInv

LEMMA FilesStep == FilesInv /\ [Next]_vars => FilesInv'
<1> SUFFICES ASSUME FilesInv, [Next]_vars PROVE FilesInv'
  OBVIOUS
<1>1. ASSUME NEW c \in Clients, Connect(c) \/ AbortHandshake(c) \/ Sending(c) PROVE Leaves
  BY <1>1 DEF Connect, AbortHandshake, Sending, NoSource, Send, SendEof, SendFails, Leaves,
     FilesInv, TypeInv, Labels
<1>2. ASSUME NEW c \in Clients,
             FindExisting(c) \/ GiveUp(c) \/ TakeTooMuch(c) \/ ReceiveEnds(c) \/ ReceiveFails(c)
      PROVE  Leaves
  BY <1>2 DEF FindExisting, GiveUp, TakeTooMuch, ReceiveEnds, ReceiveFails, Pending, OverLimit,
     Leaves, FilesInv, TypeInv, Labels
<1>3. ASSUME NEW c \in Clients, TakeInit(c) PROVE Leaves
  BY <1>3 DEF TakeInit, Pending, Leaves, FilesInv, TypeInv, Labels
<1>4. ASSUME NEW c \in Clients, Interrupt(c) \/ Break(c) PROVE Leaves
  BY <1>4 DEF Interrupt, Break, Leaves, FilesInv, TypeInv, Labels
<1>5. ASSUME WaitTimeout \/ Sigterm \/ Exit \/ UNCHANGED vars PROVE Leaves
  BY <1>5 DEF WaitTimeout, Sigterm, Exit, vars, Leaves, FilesInv, TypeInv, Labels
<1>6. ASSUME NEW c \in Clients, Create(c) PROVE FilesInv'
  <2>1. /\ receiver[c] = "off" /\ receiver' = [receiver EXCEPT ![c] = "on"]
        /\ Target(c) \notin exists /\ exists' = exists \cup { Target(c) }
        /\ UNCHANGED << sender, got, data, given >>
    BY <1>6 DEF Create
  <2>2. TypeInv'
    BY <2>1, TargetIsPath DEF FilesInv, TypeInv, Labels
  <2>3. WriterInv'
    BY <2>1 DEF FilesInv, TypeInv, WriterInv, DataInv, OldFilesStay, Writing, Target, Uploading
  <2>4. data[Target(c)] = << >>
    BY <2>1, TargetIsPath DEF FilesInv, DataInv
  <2>5. << >> = Numbered(0)
    BY DEF Numbered
  <2>6. got[c] = 0
    BY <2>1 DEF FilesInv, DataInv
  <2>7. DataInv'
    BY <2>1, <2>4, <2>5, <2>6
    DEF FilesInv, TypeInv, DataInv, FilesAreInitialParts, OldFilesStay, Target, Uploading
  <2> QED
    BY <2>2, <2>3, <2>7 DEF FilesInv
<1>7. ASSUME NEW c \in Clients, TakeChunk(c) PROVE FilesInv'
  <2>1. /\ receiver[c] = "on" /\ got[c] > 0
        /\ data' = [data EXCEPT ![Target(c)] = Append(@, got[c])]
        /\ got' = [got EXCEPT ![c] = @ + 1]
        /\ UNCHANGED << sender, receiver, exists, given >>
    BY <1>7 DEF TakeChunk, Pending
  <2>2. got[c] \in Nat /\ data[Target(c)] = Numbered(got[c] - 1)
    <3>1. got[c] \in Nat /\ got[c] # 0
      BY <2>1 DEF FilesInv, TypeInv
    <3>2. data[Target(c)] = Numbered(IF got[c] = 0 THEN 0 ELSE got[c] - 1)
      BY <2>1 DEF FilesInv, DataInv
    <3> QED
      BY <3>1, <3>2
  <2>3. Append(Numbered(got[c] - 1), got[c]) = Numbered(got[c])
    BY <2>1, <2>2 DEF Numbered
  <2>4. data' = [data EXCEPT ![Target(c)] = Numbered(got[c])]
    BY <2>1, <2>2, <2>3, TargetIsPath DEF FilesInv, TypeInv
  <2>5. Numbered(got[c]) \in Seq(Nat) /\ Len(Numbered(got[c])) = got[c]
    BY <2>2 DEF Numbered
  <2>6. TypeInv'
    BY <2>1, <2>4, <2>5, TargetIsPath DEF FilesInv, TypeInv
  <2>7. WriterInv'
    BY <2>1 DEF FilesInv, WriterInv, Writing, Target, Uploading
  <2>8. \A d \in Clients : receiver[d] = "on" /\ d # c => Target(d) # Target(c)
    BY <2>1 DEF FilesInv, WriterInv, Writing
  <2>9. Target(c) \in exists /\ Target(c) \notin given.old
    BY <2>1 DEF FilesInv, WriterInv, Writing
  <2>10. \A d \in Clients : receiver'[d] = "on" =>
            data'[Target(d)] = Numbered(IF got'[d] = 0 THEN 0 ELSE got'[d] - 1)
    <3> SUFFICES ASSUME NEW d \in Clients, receiver'[d] = "on"
                 PROVE  data'[Target(d)] = Numbered(IF got'[d] = 0 THEN 0 ELSE got'[d] - 1)
      OBVIOUS
    <3>1. CASE d = c
      <4>1. got'[c] = got[c] + 1
        BY <2>1, <2>2 DEF FilesInv, TypeInv
      <4>2. got'[c] # 0 /\ got'[c] - 1 = got[c]
        BY <4>1, <2>2
      <4> QED
        BY <3>1, <4>2, <2>4, TargetIsPath DEF FilesInv, TypeInv
    <3>2. CASE d # c
      BY <3>2, <2>1, <2>4, <2>8, TargetIsPath DEF FilesInv, TypeInv, DataInv
    <3> QED
      BY <3>1, <3>2
  <2>11. \A p \in Paths : data'[p] = [i \in 1 .. Len(data'[p]) |-> i]
    BY <2>4, <2>5, TargetIsPath DEF FilesInv, TypeInv, DataInv, FilesAreInitialParts, Numbered
  <2>12. DataInv'
    BY <2>1, <2>4, <2>9, <2>10, <2>11, TargetIsPath
    DEF FilesInv, TypeInv, DataInv, FilesAreInitialParts, OldFilesStay, Target, Uploading
  <2> QED
    BY <2>6, <2>7, <2>12 DEF FilesInv
<1>8. ASSUME NEW c \in Clients, Remove(c) PROVE FilesInv'
  <2>1. /\ receiver[c] = "over" /\ receiver' = [receiver EXCEPT ![c] = "refused"]
        /\ exists' = exists \ { Target(c) }
        /\ data' = [data EXCEPT ![Target(c)] = << >>]
            /\ UNCHANGED << sender, got, given >>
    BY <1>8 DEF Remove
  <2>2. Target(c) \notin given.old /\ \A d \in Clients : Writing(d) /\ d # c => Target(d) # Target(c)
    BY <2>1 DEF FilesInv, WriterInv, Writing
  <2>3. TypeInv'
    BY <2>1, TargetIsPath DEF FilesInv, TypeInv, Labels
  <2>4. WriterInv'
    BY <2>1, <2>2 DEF FilesInv, TypeInv, WriterInv, Writing, Target, Uploading
  <2>5. FilesAreInitialParts'
    <3>1. << >> = [i \in 1 .. Len(<< >>) |-> i]
      OBVIOUS
    <3> QED
      BY <2>1, <3>1, TargetIsPath DEF FilesInv, TypeInv, DataInv, FilesAreInitialParts
  <2>6. \A d \in Clients : receiver'[d] = "on" =>
           data'[Target(d)] = data[Target(d)] /\ receiver[d] = "on"
    BY <2>1, <2>2, TargetIsPath DEF FilesInv, TypeInv, Writing
  <2>7. OldFilesStay' /\ \A p \in Paths : p \notin exists' => data'[p] = << >>
    BY <2>1, <2>2, TargetIsPath DEF FilesInv, TypeInv, DataInv, OldFilesStay
  <2>8. DataInv'
    BY <2>1, <2>5, <2>6, <2>7 DEF FilesInv, TypeInv, DataInv, Target, Uploading
  <2> QED
    BY <2>3, <2>4, <2>8 DEF FilesInv
<1> QED
  BY <1>1, <1>2, <1>3, <1>4, <1>5, <1>6, <1>7, <1>8, LeavesFiles DEF Next, Receiving

\* Whoever connects, stalls or breaks off: a file written by the job holds an initial
\* part of what is sent, from one client (open(target, "xb") in stream_receive).
THEOREM InitialParts == Spec => []FilesAreInitialParts
<1>1. FilesInv => FilesAreInitialParts
  BY DEF FilesInv, DataInv
<1> QED
  BY <1>1, InitFiles, FilesStep, PTL DEF Spec

\* What was there before the job is neither written nor removed.
THEOREM OldStay == Spec => []OldFilesStay
<1>1. FilesInv => OldFilesStay
  BY DEF FilesInv, DataInv
<1> QED
  BY <1>1, InitFiles, FilesStep, PTL DEF Spec

-----------------------------------------------------------------------------
(* What an upload leaves when its job has ended.                            *)

\* A target that is there again after its removal has another client for a writer;
\* and once the job has ended, so have the handlers of all who connected.
EndInv ==
    /\ code = [c \in Clients |-> code[c]]
    /\ \A c \in Clients :
         /\ receiver[c] # "off" \/ code[c] = "open" => sender[c] # "off"
         /\ receiver[c] = "refused" /\ Shared \in exists =>
              \E d \in Clients : receiver[d] \in { "on", "over", "ok", "failed" }
    /\ server = "closed" => \A c \in Clients : sender[c] # "off" => Ended(receiver[c])

\* What becomes of a receiver of the server in one step.
Moves(c) ==
    \/ receiver'[c] = receiver[c]
    \/ receiver[c] = "off" /\ sender[c] # "off" /\ receiver'[c] \in { "exists", "on" }
    \/ receiver[c] = "on" /\ receiver'[c] \in { "over", "ok", "failed" }
    \/ receiver[c] = "exists" /\ receiver'[c] = "declined"
    \/ receiver[c] = "over" /\ receiver'[c] = "refused" /\ Shared \notin exists'

\* A file at the target was there, or has just been created by a client.
Appears == Shared \in exists' \ exists => \E d \in Clients : receiver'[d] = "on"

LEMMA ReceiverMoves ==
    ASSUME FilesInv, Uploading, [Next]_vars, NEW c \in Clients
    PROVE  Moves(c) /\ Appears
<1>1. ASSUME NEW d \in Clients,
             Connect(d) \/ AbortHandshake(d) \/ Sending(d) \/ Interrupt(d) \/ Break(d)
      PROVE  Moves(c) /\ Appears
  BY <1>1 DEF Connect, AbortHandshake, Sending, NoSource, Send, SendEof, SendFails,
     Interrupt, Break, Moves, Appears
<1>2. ASSUME NEW d \in Clients,
             FindExisting(d) \/ GiveUp(d) \/ TakeTooMuch(d) \/ ReceiveEnds(d) \/ ReceiveFails(d)
      PROVE  Moves(c) /\ Appears
  BY <1>2 DEF FindExisting, GiveUp, TakeTooMuch, ReceiveEnds, ReceiveFails, Pending, Moves,
     Appears, FilesInv, TypeInv
<1>3. ASSUME NEW d \in Clients, TakeInit(d) \/ TakeChunk(d) PROVE Moves(c) /\ Appears
  BY <1>3 DEF TakeInit, TakeChunk, Moves, Appears
<1>4. ASSUME NEW d \in Clients, Create(d) PROVE Moves(c) /\ Appears
  BY <1>4 DEF Create, Moves, Appears, Target, FilesInv, TypeInv
<1>5. ASSUME NEW d \in Clients, Remove(d) PROVE Moves(c) /\ Appears
  BY <1>5 DEF Remove, Moves, Appears, Target, FilesInv, TypeInv
<1>6. ASSUME WaitTimeout \/ Sigterm \/ Exit \/ UNCHANGED vars PROVE Moves(c) /\ Appears
  BY <1>6 DEF WaitTimeout, Sigterm, Exit, vars, Moves, Appears
<1> QED
  BY <1>1, <1>2, <1>3, <1>4, <1>5, <1>6 DEF Next, Receiving

\* Who has connected stays so, nobody connects to a server that is not listening, and
\* only Exit ends the job.
LEMMA ServerMoves ==
    ASSUME FilesInv, EndInv, Uploading, [Next]_vars
    PROVE  /\ \A c \in Clients : sender[c] # "off" => sender'[c] # "off"
           /\ server = "closed" => \A c \in Clients : sender[c] = "off" => sender'[c] = "off"
           /\ server' = "closed" /\ server # "closed" => Exit
           /\ code' = [c \in Clients |-> code'[c]]
           /\ \A c \in Clients : code'[c] = "open" => code[c] = "open" \/ sender'[c] # "off"
<1> DEFINE Goal ==
    /\ \A c \in Clients : sender[c] # "off" => sender'[c] # "off"
    /\ server = "closed" => \A c \in Clients : sender[c] = "off" => sender'[c] = "off"
    /\ server' = "closed" /\ server # "closed" => Exit
    /\ code' = [c \in Clients |-> code'[c]]
    /\ \A c \in Clients : code'[c] = "open" => code[c] = "open" \/ sender'[c] # "off"
<1>1. ASSUME NEW d \in Clients, Connect(d) \/ AbortHandshake(d) \/ Sending(d) PROVE Goal
  BY <1>1 DEF Connect, AbortHandshake, Sending, NoSource, Send, SendEof, SendFails, AfterSend,
     AfterClientSide, CloseLink, FilesInv, TypeInv, EndInv
<1>2. ASSUME NEW d \in Clients, Receiving(d) PROVE Goal
  BY <1>2 DEF Receiving, Create, FindExisting, GiveUp, TakeInit, TakeChunk, TakeTooMuch, Remove,
     ReceiveEnds, ReceiveFails, AfterReceive, AfterServerSide, CloseServer,
     CloseLink, FilesInv, TypeInv, EndInv
<1>3. ASSUME NEW d \in Clients, Interrupt(d) \/ Break(d) PROVE Goal
  <2>1. /\ server' = server /\ code[d] = "open"
        /\ sender' = sender \/ sender' = [sender EXCEPT ![d] = "failed"]
        /\ code' = [c \in Clients |-> code'[c]]
        /\ \A c \in Clients : code'[c] = "open" => code[c] = "open"
    BY <1>3 DEF Interrupt, Break, CloseLink, FilesInv, TypeInv, EndInv
  <2>2. sender[d] # "off"
    BY <2>1 DEF EndInv
  <2>3. \A c \in Clients : (sender[c] = "off") = (sender'[c] = "off")
    BY <2>1, <2>2 DEF FilesInv, TypeInv, EndInv
  <2> QED
    BY <2>1, <2>3
<1>4. ASSUME WaitTimeout \/ Sigterm \/ Exit \/ UNCHANGED vars PROVE Goal
  BY <1>4 DEF WaitTimeout, Sigterm, CloseServer, Exit, vars, FilesInv, TypeInv, EndInv
<1> QED
  BY <1>1, <1>2, <1>3, <1>4 DEF Next

LEMMA SameTask == ASSUME [Next]_vars PROVE given' = given
BY DEF Next, Connect, AbortHandshake, Sending, NoSource, Send, SendEof, SendFails, Receiving,
   Create, FindExisting, GiveUp, TakeInit, TakeChunk, TakeTooMuch, Remove, ReceiveEnds,
   ReceiveFails, Interrupt, Break, WaitTimeout, Sigterm, Exit, vars

LEMMA EndStep ==
    ASSUME FilesInv, [Next]_vars, Uploading => EndInv, Uploading'
    PROVE  EndInv'
<1>1. Uploading /\ EndInv
  BY SameTask DEF Uploading
<1>2. ASSUME NEW c \in Clients, receiver'[c] # "off" \/ code'[c] = "open" PROVE sender'[c] # "off"
  <2>1. Moves(c)
    BY <1>1, ReceiverMoves
  <2>2. sender[c] # "off" \/ sender'[c] # "off"
    BY <1>1, <1>2, <2>1, ServerMoves DEF Moves, EndInv
  <2> QED
    BY <1>1, <2>2, ServerMoves
<1>3. ASSUME NEW c \in Clients, receiver'[c] = "refused", Shared \in exists'
      PROVE  \E d \in Clients : receiver'[d] \in { "on", "over", "ok", "failed" }
  <2>1. CASE Shared \notin exists
    BY <1>1, <1>3, <2>1, ReceiverMoves DEF Appears
  <2>2. CASE Shared \in exists
    <3>1. receiver[c] = "refused"
      BY <1>1, <1>3, ReceiverMoves DEF Moves
    <3>2. PICK d \in Clients : receiver[d] \in { "on", "over", "ok", "failed" }
      BY <1>1, <2>2, <3>1 DEF EndInv
    <3>3. receiver'[d] \in { "on", "over", "ok", "failed" }
      BY <1>1, <1>3, <3>2, ReceiverMoves DEF Moves
    <3> QED
      BY <3>3
  <2> QED
    BY <2>1, <2>2
<1>4. ASSUME server' = "closed", NEW c \in Clients, sender'[c] # "off" PROVE Ended(receiver'[c])
  <2>1. CASE server = "closed"
    <3>1. sender[c] # "off" /\ Moves(c)
      BY <1>1, <1>4, <2>1, ServerMoves, ReceiverMoves
    <3>2. Ended(receiver[c])
      BY <1>1, <2>1, <3>1 DEF EndInv
    <3> QED
      BY <3>1, <3>2 DEF Moves, Ended
  <2>2. CASE server # "closed"
    BY <1>1, <1>4, <2>2, ServerMoves DEF Exit, Handler, Ended
  <2> QED
    BY <2>1, <2>2
<1> QED
  BY <1>1, <1>2, <1>3, <1>4, ServerMoves DEF EndInv, Ended

\* When an upload job has ended, a transfer over its limit has left nothing: the target
\* is gone, or another client created it after its removal (the close and os.remove in
\* stream_receive, wait_closed() of the server).
THEOREM NothingLeft == Spec => []NothingOfTooMuch
<1>1. Init => FilesInv /\ (Uploading => EndInv)
  BY InitFiles DEF Init, EndInv
<1>2. FilesInv /\ (Uploading => EndInv) /\ [Next]_vars => FilesInv' /\ (Uploading => EndInv)'
  BY FilesStep, EndStep
<1>3. FilesInv /\ (Uploading => EndInv) => NothingOfTooMuch
  <2> SUFFICES ASSUME FilesInv, Uploading => EndInv, server = "closed", NEW c \in Clients,
                      receiver[c] \in { "over", "refused" }, Target(c) \in exists
               PROVE  \E d \in Clients \ { c } : /\ Target(d) = Target(c)
                                                 /\ receiver[d] \in { "ok", "failed" }
    BY DEF NothingOfTooMuch
  <2>1. Uploading /\ EndInv
    BY DEF FilesInv, WriterInv
  <2>2. receiver[c] = "refused" /\ Shared \in exists
    BY <2>1 DEF EndInv, Ended, Target
  <2>3. PICK d \in Clients : receiver[d] \in { "on", "over", "ok", "failed" }
    BY <2>1, <2>2 DEF EndInv
  <2>4. receiver[d] \in { "ok", "failed" } /\ d # c
    BY <2>1, <2>2, <2>3 DEF EndInv, Ended
  <2> QED
    BY <2>1, <2>4 DEF Target
<1> QED
  BY <1>1, <1>2, <1>3, PTL DEF Spec

=============================================================================
