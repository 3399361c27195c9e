------------------------------- MODULE Streamer -------------------------------
(***************************************************************************)
(* firecrest-streamer: the server that a transfer job runs on the cluster  *)
(* (streamer_server.py), the clients that connect to it with the job's     *)
(* coordinates (streamer_client.py), and what both run on a connection,    *)
(* stream_send() and stream_receive() (streamer_core.py).                  *)
(*                                                                         *)
(* With operation "receive" the clients send and the server writes the   *)
(* one target of the job; with "send" every client writes a file of its    *)
(* own.  Messages of a connection arrive in order and are numbered: 0 is   *)
(* the init message, 1 .. Chunks are the chunks, Eof is the closing one.   *)
(* All are binary, so the tests for a str of stream_receive() never hold   *)
(* and the eof message is a chunk like the others.                         *)
(*                                                                         *)
(* websockets is external: a connection is open or closed with a code; the *)
(* peer first sees what was sent before the close.                         *)
(***************************************************************************)
EXTENDS Naturals, Sequences, FiniteSets

CONSTANTS
    Clients,     \* the programs started with the coordinates of the job
    Tasks,       \* operation and limit of a server: what it does, "receive" or
                 \* "send", and inbound_transfer_limit, in chunks
    Chunks,      \* chunks of the source file
    Shared       \* the path the server writes

ASSUME StreamAssumption ==
    /\ Tasks \subseteq [operation : {"receive", "send"}, limit : Nat]
    /\ Chunks \in Nat
    /\ Shared \notin Clients

Eof == Chunks + 1

Paths == Clients \cup {Shared}

VARIABLES
    server,     \* "listening", "closing" (server.close() called) or "closed"
    timer,      \* whether the wait_timeout timer is armed
    code,       \* of each connection: "none", "open", or its close code
    sent,       \* messages its sender has sent
    got,        \* messages its receiver has taken
    sender,     \* stream_send(): "off", "on", "ok" or "failed"
    receiver,   \* stream_receive(): "off", "on", "exists" and "over" (closing), and how
                \* it ended: "ok", "failed", "declined" (exists) or "refused" (over)
    exists,     \* the paths at which there is a file
    data,       \* what was written at each path: the numbers of the messages
    given       \* what the job finds: its task, and the files that are there

vars == << server, timer, code, sent, got, sender, receiver, exists, data, given >>

Uploading == given.task.operation = "receive"

Target(c) == IF Uploading THEN Shared ELSE c

Ended(state) == state \in {"ok", "failed", "declined", "refused"}

\* The handler of the server, and the program of the client.
Handler(c) == IF Uploading THEN receiver[c] ELSE sender[c]

\* 1000 and 1001 are ConnectionClosedOK, anything else ConnectionClosedError.
ClosedOK == {"1000", "1001"}
Codes == ClosedOK \cup {"1006", "1009", "1011", "3003"}
Closed(c) == code[c] \in Codes

Init ==
    /\ server = "listening"
    /\ timer = TRUE
    /\ code = [c \in Clients |-> "none"]
    /\ sent = [c \in Clients |-> 0]
    /\ got = [c \in Clients |-> 0]
    /\ sender = [c \in Clients |-> "off"]
    /\ receiver = [c \in Clients |-> "off"]
    /\ given \in [task : Tasks, old : SUBSET Paths]
    /\ exists = given.old
    /\ data = [p \in Paths |-> << >>]

-----------------------------------------------------------------------------
(* Closing.                                                                 *)

\* A side closes its connection: no effect if it is closed already.
CloseLink(c, why) == code' = [code EXCEPT ![c] = IF @ = "open" THEN why ELSE @]

\* server.close(): every open connection is closed with 1001.
CloseServer ==
    /\ server' = IF server = "listening" THEN "closing" ELSE server
    /\ code' = [c \in Clients |-> IF code[c] = "open" THEN "1001" ELSE code[c]]

\* A coroutine of the server returns to its handler, which closes the
\* server; one of the client leaves "async with", which closes the connection.
AfterServerSide == CloseServer
AfterClientSide(c) == CloseLink(c, "1000") /\ UNCHANGED server

\* Variant: the server's handler returns without closing the server.
AfterEitherSide(c) == AfterClientSide(c)

AfterReceive(c) == IF Uploading THEN AfterServerSide ELSE AfterClientSide(c)
AfterSend(c) == IF Uploading THEN AfterClientSide(c) ELSE AfterServerSide

-----------------------------------------------------------------------------
(* The server.                                                              *)

\* process_request() accepts the secret and cancels the timer; the opening
\* handshake completes.
Connect(c) ==
    /\ server = "listening"
    /\ code[c] = "none"
    /\ code' = [code EXCEPT ![c] = "open"]
    /\ timer' = FALSE
    /\ sender' = [sender EXCEPT ![c] = "on"]
    /\ UNCHANGED << server, sent, got, receiver, exists, data, given >>

\* As above, and then the handshake fails or the client goes away.
AbortHandshake(c) ==
    /\ server = "listening"
    /\ code[c] = "none"
    /\ code' = [code EXCEPT ![c] = "1006"]
    /\ timer' = FALSE
    /\ UNCHANGED << server, sent, got, sender, receiver, exists, data, given >>

\* wait_timeout is over and nobody cancelled the timer.
WaitTimeout ==
    /\ timer
    /\ server = "listening"
    /\ timer' = FALSE
    /\ CloseServer
    /\ UNCHANGED << sent, got, sender, receiver, exists, data, given >>

\* SIGTERM: the scheduler ends the job.
Sigterm ==
    /\ server = "listening"
    /\ CloseServer
    /\ UNCHANGED << timer, sent, got, sender, receiver, exists, data, given >>

\* Variant: the handlers are not waited for.
ExitAtOnce ==
    /\ server = "closing"
    /\ server' = "closed"
    /\ UNCHANGED << timer, code, sent, got, sender, receiver, exists, data, given >>

\* wait_closed() returns once every handler has.
Exit ==
    /\ server = "closing"
    /\ \A c \in Clients : sender[c] # "off" => Ended(Handler(c))
    /\ server' = "closed"
    /\ UNCHANGED << timer, code, sent, got, sender, receiver, exists, data, given >>

-----------------------------------------------------------------------------
(* stream_send().                                                           *)

\* The source is not there: close with 3003.
NoSource(c) ==
    /\ sender[c] = "on"
    /\ sent[c] = 0
    /\ sender' = [sender EXCEPT ![c] = "failed"]
    /\ LET why == IF code[c] = "open" THEN "3003" ELSE code[c] IN
       IF Uploading
       THEN code' = [code EXCEPT ![c] = why] /\ UNCHANGED server
       ELSE /\ server' = IF server = "listening" THEN "closing" ELSE server
            /\ code' = [d \in Clients |-> IF d = c THEN why
                                          ELSE IF code[d] = "open" THEN "1001" ELSE code[d]]
    /\ UNCHANGED << timer, sent, got, receiver, exists, data, given >>

\* Send the next message.
Send(c) ==
    /\ sender[c] = "on"
    /\ code[c] = "open"
    /\ sent[c] < Eof
    /\ sent' = [sent EXCEPT ![c] = @ + 1]
    /\ UNCHANGED << server, timer, code, got, sender, receiver, exists, data, given >>

\* Send the eof message and return True.
SendEof(c) ==
    /\ sender[c] = "on"
    /\ code[c] = "open"
    /\ sent[c] = Eof
    /\ sent' = [sent EXCEPT ![c] = @ + 1]
    /\ sender' = [sender EXCEPT ![c] = "ok"]
    /\ AfterSend(c)
    /\ UNCHANGED << timer, got, receiver, exists, data, given >>

\* The connection is closed: send() raises, whatever the code.
SendFails(c) ==
    /\ sender[c] = "on"
    /\ Closed(c)
    /\ sender' = [sender EXCEPT ![c] = "failed"]
    /\ AfterSend(c)
    /\ UNCHANGED << timer, sent, got, receiver, exists, data, given >>

-----------------------------------------------------------------------------
(* stream_receive().                                                        *)

\* Variant: open(target, "wb").
CreateOrTruncate(c) ==
    /\ sender[c] # "off"
    /\ receiver[c] = "off"
    /\ exists' = exists \cup {Target(c)}
    /\ data' = [data EXCEPT ![Target(c)] = << >>]
    /\ receiver' = [receiver EXCEPT ![c] = "on"]
    /\ UNCHANGED << server, timer, code, sent, got, sender, given >>

\* open(target, "xb") creates the target.
Create(c) ==
    /\ sender[c] # "off"
    /\ receiver[c] = "off"
    /\ Target(c) \notin exists
    /\ exists' = exists \cup {Target(c)}
    /\ receiver' = [receiver EXCEPT ![c] = "on"]
    /\ UNCHANGED << server, timer, code, sent, got, sender, data, given >>

\* ... or raises FileExistsError: start to close with 3003,
FindExisting(c) ==
    /\ sender[c] # "off"
    /\ receiver[c] = "off"
    /\ Target(c) \in exists
    /\ receiver' = [receiver EXCEPT ![c] = "exists"]
    /\ CloseLink(c, "3003")
    /\ UNCHANGED << server, timer, sent, got, sender, exists, data, given >>

\* Variant: FileExistsError is cleaned up after like a transfer too large.
GiveUpAndRemove(c) ==
    /\ receiver[c] = "exists"
    /\ receiver' = [receiver EXCEPT ![c] = "declined"]
    /\ exists' = exists \ {Target(c)}
    /\ AfterReceive(c)
    /\ UNCHANGED << timer, sent, got, sender, data, given >>

\* and return False once the connection is closed.
GiveUp(c) ==
    /\ receiver[c] = "exists"
    /\ receiver' = [receiver EXCEPT ![c] = "declined"]
    /\ AfterReceive(c)
    /\ UNCHANGED << timer, sent, got, sender, exists, data, given >>

\* What arrived and was not taken yet.
Pending(c) == receiver[c] = "on" /\ got[c] < sent[c]

\* The next message would be chunk number got[c], counted as CHUNK_SIZE
\* bytes whatever its size.  Clients set no limit.
OverLimit(c) == Uploading /\ got[c] > given.task.limit

\* The init message only announces the size.
TakeInit(c) ==
    /\ Pending(c)
    /\ got[c] = 0
    /\ got' = [got EXCEPT ![c] = 1]
    /\ UNCHANGED << server, timer, code, sent, sender, receiver, exists, data, given >>

\* Write a chunk, or the eof message.
TakeChunk(c) ==
    /\ Pending(c)
    /\ got[c] > 0
    /\ ~OverLimit(c)
    /\ data' = [data EXCEPT ![Target(c)] = Append(@, got[c])]
    /\ got' = [got EXCEPT ![c] = @ + 1]
    /\ UNCHANGED << server, timer, code, sent, sender, receiver, exists, given >>

\* Start to close with 1009,
TakeTooMuch(c) ==
    /\ Pending(c)
    /\ got[c] > 0
    /\ OverLimit(c)
    /\ receiver' = [receiver EXCEPT ![c] = "over"]
    /\ CloseLink(c, "1009")
    /\ UNCHANGED << server, timer, sent, got, sender, exists, data, given >>

\* and remove the target once the connection is closed.
Remove(c) ==
    /\ receiver[c] = "over"
    /\ receiver' = [receiver EXCEPT ![c] = "refused"]
    /\ exists' = exists \ {Target(c)}
    /\ data' = [data EXCEPT ![Target(c)] = << >>]
    /\ AfterReceive(c)
    /\ UNCHANGED << timer, sent, got, sender, given >>

\* The side that closed need not take what was still queued, and a lost
\* connection loses what was under way.
Drained(c) ==
    \/ got[c] = sent[c]
    \/ Uploading /\ code[c] = "1001"
    \/ code[c] \notin ClosedOK

\* "async for" ends after a proper close: return True, whatever was received.
ReceiveEnds(c) ==
    /\ receiver[c] = "on"
    /\ code[c] \in ClosedOK
    /\ Drained(c)
    /\ receiver' = [receiver EXCEPT ![c] = "ok"]
    /\ AfterReceive(c)
    /\ UNCHANGED << timer, sent, got, sender, exists, data, given >>

\* ... and raises after any other: return False and leave the target.
ReceiveFails(c) ==
    /\ receiver[c] = "on"
    /\ Closed(c) /\ code[c] \notin ClosedOK
    /\ Drained(c)
    /\ receiver' = [receiver EXCEPT ![c] = "failed"]
    /\ AfterReceive(c)
    /\ UNCHANGED << timer, sent, got, sender, exists, data, given >>

-----------------------------------------------------------------------------
(* The client and the network.                                              *)

\* Ctrl-C: the client leaves "async with", which closes with 1000.
Interrupt(c) ==
    /\ code[c] = "open"
    /\ CloseLink(c, "1000")
    /\ IF Uploading
       THEN sender' = [sender EXCEPT ![c] = "failed"] /\ UNCHANGED receiver
       ELSE receiver' = [receiver EXCEPT ![c] = "failed"] /\ UNCHANGED sender
    /\ UNCHANGED << server, timer, sent, got, exists, data, given >>

\* The connection breaks.
Break(c) ==
    /\ code[c] = "open"
    /\ CloseLink(c, "1006")
    /\ UNCHANGED << server, timer, sent, got, sender, receiver, exists, data, given >>

Sending(c) == NoSource(c) \/ Send(c) \/ SendEof(c) \/ SendFails(c)

Receiving(c) ==
    \/ Create(c) \/ FindExisting(c) \/ GiveUp(c)
    \/ TakeInit(c) \/ TakeChunk(c) \/ TakeTooMuch(c) \/ Remove(c)
    \/ ReceiveEnds(c) \/ ReceiveFails(c)

Next ==
    \/ \E c \in Clients :
         \/ Connect(c) \/ AbortHandshake(c)
         \/ Sending(c) \/ Receiving(c)
         \/ Interrupt(c) \/ Break(c)
    \/ WaitTimeout \/ Sigterm \/ Exit

Spec == Init /\ [][Next]_vars

ServerSide(c) == IF Uploading THEN Receiving(c) ELSE Sending(c)
ClientSide(c) == IF Uploading THEN Sending(c) ELSE Receiving(c)

\* The server's coroutines run and its timer fires.  Clients may stall.
ServerFairness ==
    /\ WF_vars(WaitTimeout)
    /\ WF_vars(Exit)
    /\ \A c \in Clients : WF_vars(ServerSide(c))

ServerSpec == Spec /\ ServerFairness

\* Clients that have connected go on, too.
ClientFairness == \A c \in Clients : WF_vars(ClientSide(c))

-----------------------------------------------------------------------------
(* Properties.                                                              *)

\* However many clients use the coordinates, and whatever closes, breaks or
\* stalls: a file that the job writes holds an initial part of what is sent, in
\* order, from one client only.
FilesAreInitialParts ==
    \A p \in Paths : data[p] = [i \in 1 .. Len(data[p]) |-> i]

\* "Firecrest Streamer no longer allows to overwrite existing files": a file
\* that was there before is neither written nor removed.
OldFilesStay == \A p \in given.old : p \in exists /\ data[p] = << >>

\* A transfer over the limit leaves nothing when the job has ended: though others
\* connect, break off, exceed the limit, too, or end the job between the test and the
\* removal, which has an await before it, the target is gone, or is the file of a
\* client that came to create it afterwards.
NothingOfTooMuch ==
    server = "closed" =>
        \A c \in Clients : receiver[c] \in {"over", "refused"} /\ Target(c) \in exists =>
            \E d \in Clients \ {c} : Target(d) = Target(c) /\ receiver[d] \in {"ok", "failed"}

\* The job ends with the first transfer that ends, well or not, or that is over the
\* limit, whatever other clients do: it does not hold its node.
JobEndsWithTransfer ==
    \A c \in Clients :
        Ended(Handler(c)) \/ (Uploading /\ receiver[c] = "over") ~> server = "closed"

\* If the clients go on, nothing waits for ever once one has connected: neither
\* side waits for a message or a close that the other will not send.
TransferEnds ==
    ClientFairness => \A c \in Clients : code[c] = "open" ~>
        server = "closed" /\ Ended(sender[c]) /\ Ended(receiver[c])

\* What the code and its documentation say.

\* "Firecrest streamer now computes checksums to validate data transfer": when
\* both ends report success, what was written is what was sent.
ReceivedIsSource ==
    \A c \in Clients :
        sender[c] = "ok" /\ receiver[c] = "ok"
            => data[Target(c)] = [i \in 1 .. Chunks |-> i]

=============================================================================
