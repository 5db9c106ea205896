------------------------------ MODULE WsServer ------------------------------
(***************************************************************************)
(* The WebSocket transport of src/src/ws.rs.  The accept thread serves one *)
(* client at a time; the forwarder thread moves what the engine sends to   *)
(* the client that registered last, as far as it has looked.               *)
(*                                                                         *)
(* Connections are numbered in the order in which they reach the listener. *)
(* Messages are numbered in the order in which the engine sends them, and  *)
(* Greeting stands for the one document every client gets first.  A line   *)
(* of a client is a pair <<client, n>>, with n = 0 when it trims to "".     *)
(***************************************************************************)
EXTENDS Integers, Sequences, FiniteSets, SequencesExt

CONSTANTS
    MaxClients, \* bound on the connections
    MaxMsgs,    \* bound on the messages the engine sends
    MaxFrames,  \* bound on the text frames the clients send
    Shapes,     \* text frames: sequences of booleans, TRUE for a line with text
    Followed,   \* messages whose delivery the history follows
    SockCap,    \* frames the kernel's send buffer takes before WouldBlock
    None

ASSUME WsAssumption ==
    /\ {MaxClients, MaxMsgs, SockCap} \subseteq Nat \ {0} /\ MaxFrames \in Nat
    /\ Shapes \subseteq Seq(BOOLEAN) /\ Followed \subseteq 1..MaxMsgs
    /\ None \notin 1..MaxClients

Clients == 1..MaxClients
Msgs == 1..MaxMsgs
Greeting == 0

\* Frames from a client to the server.
Text(lines) == [kind |-> "text", lines |-> lines]
Close == [kind |-> "close", lines |-> <<>>]
HasText(line) == line[2] # 0

VARIABLES
    \* the engine's ends of the two mpsc channels
    outq, inq, taken, emitted,
    \* the forwarder: its place, current_client, the message in hand
    fpc, current, fmsg,
    \* client_tx_sender -> client_tx_receiver
    regs,
    \* the accept thread: its place, the connection it serves, the lines of a
    \* frame it has still to pass on
    hpc, serving, text,
    \* per client: per_client channel, tungstenite's write buffer
    queue, wbuf,
    \* the network: backlog, frames to and from each client, its state
    backlog, inbound, sock, remote,
    \* history: how many lines with text each client sent, frames sent,
    \* documents read, connections that ended with a Close frame, and the client
    \* each message that is followed was sent towards
    said, frames, received, closed, aim

engineVars == <<outq, inq, taken, emitted, aim>>
fwdVars == <<fpc, current, fmsg>>
netVars == <<backlog, inbound, sock, remote, said, frames, received>>
vars == <<engineVars, fwdVars, regs, hpc, serving, text, queue, wbuf, closed, netVars>>

Init ==
    /\ outq = <<>> /\ inq = <<>> /\ taken = <<>> /\ emitted = 0
    /\ fpc = "top" /\ current = None /\ fmsg = None
    /\ regs = <<>> /\ hpc = "accept" /\ serving = None /\ text = <<>>
    /\ queue = [c \in Clients |-> <<>>] /\ wbuf = [c \in Clients |-> <<>>]
    /\ backlog = <<>> /\ frames = 0
    /\ inbound = [c \in Clients |-> <<>>] /\ sock = [c \in Clients |-> <<>>]
    /\ remote = [c \in Clients |-> "away"]
    /\ said = [c \in Clients |-> 0] /\ received = [c \in Clients |-> <<>>]
    /\ closed = {}
    /\ aim = [m \in Followed |-> [to |-> None, standing |-> 0]]
-----------------------------------------------------------------------------
(* The engine: WsOut::send and WsIn::recv. *)

\* The per_client_rx of c exists: registered and not yet dropped.
Registered(c) == serving = c /\ hpc \in {"read", "lines", "drain", "flush"}

\* How far the server has got with the client it serves: 0 for nobody there,
\* 1 after the handshake, 2 once registered, 3 when in addition no other
\* registration stands before its own.
Standing ==
    CASE serving = None -> 0
      [] remote[serving] # "open" \/ hpc = "handshake" -> 0
      [] ~Registered(serving) -> 1
      [] regs = <<serving>> \/ (regs = <<>> /\ current = serving) -> 3
      [] OTHER -> 2

Emit ==
    /\ emitted < MaxMsgs
    /\ emitted' = emitted + 1
    /\ outq' = Append(outq, emitted + 1)
    /\ aim' = IF emitted + 1 \in Followed
              THEN [aim EXCEPT ![emitted + 1] = [to |-> serving, standing |-> Standing]]
              ELSE aim
    /\ UNCHANGED <<inq, taken, fwdVars, regs, hpc, serving, text, queue, wbuf, closed, netVars>>

\* tick drains recv until it returns None.
TakeLines ==
    /\ inq # <<>>
    /\ taken' = taken \o inq /\ inq' = <<>>
    /\ UNCHANGED <<outq, emitted, aim, fwdVars, regs, hpc, serving, text, queue, wbuf, closed,
                   netVars>>
-----------------------------------------------------------------------------
(* The forwarder thread. *)

\* try_recv on the registration channel: one registration at most.
CheckRegistration ==
    IF regs = <<>> THEN UNCHANGED <<regs, current>>
                   ELSE current' = Head(regs) /\ regs' = Tail(regs)

FwdTop ==
    /\ fpc = "top" /\ fpc' = "wait"
    /\ CheckRegistration
    /\ UNCHANGED <<engineVars, fmsg, hpc, serving, text, queue, wbuf, closed, netVars>>

FwdTimeout ==
    /\ fpc = "wait" /\ outq = <<>> /\ fpc' = "top"
    /\ UNCHANGED <<engineVars, current, fmsg, regs, hpc, serving, text, queue, wbuf, closed,
                   netVars>>

FwdRecv ==
    /\ fpc = "wait" /\ outq # <<>> /\ fpc' = "recheck"
    /\ fmsg' = Head(outq) /\ outq' = Tail(outq)
    /\ UNCHANGED <<inq, taken, emitted, aim, current, regs, hpc, serving, text, queue, wbuf, closed,
                   netVars>>

\* Faulty variant: the registration channel is not looked at again.
FwdRecheckSkipped ==
    /\ fpc = "recheck" /\ fpc' = "send"
    /\ UNCHANGED <<engineVars, current, fmsg, regs, hpc, serving, text, queue, wbuf, closed,
                   netVars>>

FwdRecheck ==
    /\ fpc = "recheck" /\ fpc' = "send"
    /\ CheckRegistration
    /\ UNCHANGED <<engineVars, fmsg, hpc, serving, text, queue, wbuf, closed, netVars>>

\* A message without a client, or for one whose receiver is gone, is lost.
FwdSend ==
    /\ fpc = "send" /\ fpc' = "top"
    /\ fmsg' = None
    /\ IF current # None /\ Registered(current)
       THEN queue' = [queue EXCEPT ![current] = Append(@, fmsg)] /\ UNCHANGED current
       ELSE current' = None /\ UNCHANGED queue
    /\ UNCHANGED <<engineVars, regs, hpc, serving, text, wbuf, closed, netVars>>
-----------------------------------------------------------------------------
(* The accept thread. *)

Accept ==
    /\ hpc = "accept" /\ backlog # <<>>
    /\ serving' = Head(backlog) /\ backlog' = Tail(backlog)
    /\ hpc' = "handshake"
    /\ UNCHANGED <<engineVars, fwdVars, regs, text, queue, wbuf, closed, inbound, sock, remote,
                   said, frames, received>>

\* The handler returns to accept: the socket and per_client_rx are dropped.
LetGo(how) ==
    /\ closed' = IF how = "closed" THEN closed \cup {serving} ELSE closed
    /\ remote' = [remote EXCEPT ![serving] = "gone"]
    /\ queue' = [queue EXCEPT ![serving] = <<>>]
    /\ wbuf' = [wbuf EXCEPT ![serving] = <<>>]
    /\ sock' = [sock EXCEPT ![serving] = <<>>]
    /\ inbound' = [inbound EXCEPT ![serving] = <<>>]
    /\ serving' = None /\ hpc' = "accept"

Handshake ==
    /\ hpc = "handshake" /\ remote[serving] = "dialing"
    /\ remote' = [remote EXCEPT ![serving] = "open"]
    /\ hpc' = "greet"
    /\ UNCHANGED <<engineVars, fwdVars, regs, serving, text, queue, wbuf, closed, backlog, inbound,
                   sock, said, frames, received>>

\* A malformed handshake, or the client hung up.
HandshakeFails ==
    /\ hpc = "handshake"
    /\ LetGo("refused")
    /\ UNCHANGED <<engineVars, fwdVars, regs, text, backlog, said, frames, received>>

\* The socket still blocks here, and an error of the greeting is ignored.
\* Then the sender of the client's own channel goes to the forwarder.
Register ==
    /\ hpc = "greet" /\ hpc' = "read"
    /\ sock' = [sock EXCEPT ![serving] = Append(@, Greeting)]
    /\ regs' = Append(regs, serving)
    /\ UNCHANGED <<engineVars, fwdVars, serving, text, queue, wbuf, closed, backlog, inbound,
                   remote, said, frames, received>>

\* Faulty variant: a frame is taken for one document, its first line.
ReadTextFirst ==
    /\ hpc = "read" /\ inbound[serving] # <<>>
    /\ Head(inbound[serving]).kind = "text"
    /\ text' = SubSeq(Head(inbound[serving]).lines, 1, 1) /\ hpc' = "lines"
    /\ inbound' = [inbound EXCEPT ![serving] = Tail(@)]
    /\ UNCHANGED <<engineVars, fwdVars, regs, serving, queue, wbuf, closed, backlog, sock, remote,
                   said, frames, received>>

\* A text frame, whose lines go to in_tx one after the other.
ReadText ==
    /\ hpc = "read" /\ inbound[serving] # <<>>
    /\ Head(inbound[serving]).kind = "text"
    /\ text' = Head(inbound[serving]).lines /\ hpc' = "lines"
    /\ inbound' = [inbound EXCEPT ![serving] = Tail(@)]
    /\ UNCHANGED <<engineVars, fwdVars, regs, serving, queue, wbuf, closed, backlog, sock, remote,
                   said, frames, received>>

\* Faulty variant: blank lines are passed on.
PassLineBlank ==
    /\ hpc = "lines" /\ text # <<>>
    /\ text' = Tail(text) /\ inq' = Append(inq, Head(text))
    /\ UNCHANGED <<outq, taken, emitted, aim, fwdVars, regs, hpc, serving, queue, wbuf, closed,
                   netVars>>

PassLine ==
    /\ hpc = "lines" /\ text # <<>>
    /\ text' = Tail(text)
    /\ inq' = IF HasText(Head(text)) THEN Append(inq, Head(text)) ELSE inq
    /\ UNCHANGED <<outq, taken, emitted, aim, fwdVars, regs, hpc, serving, queue, wbuf, closed,
                   netVars>>

FrameDone ==
    /\ hpc = "lines" /\ text = <<>> /\ hpc' = "read"
    /\ UNCHANGED <<engineVars, fwdVars, regs, serving, text, queue, wbuf, closed, netVars>>

\* Faulty variant: a Close frame is skipped like a ping.
ReadCloseIgnored ==
    /\ hpc = "read" /\ inbound[serving] # <<>>
    /\ Head(inbound[serving]).kind = "close"
    /\ inbound' = [inbound EXCEPT ![serving] = Tail(@)]
    /\ UNCHANGED <<engineVars, fwdVars, regs, hpc, serving, text, queue, wbuf, closed, backlog,
                   sock, remote, said, frames, received>>

ReadClose ==
    /\ hpc = "read" /\ inbound[serving] # <<>>
    /\ Head(inbound[serving]).kind = "close"
    /\ LetGo("closed")
    /\ UNCHANGED <<engineVars, fwdVars, regs, text, backlog, said, frames, received>>

ReadWouldBlock ==
    /\ hpc = "read" /\ inbound[serving] = <<>> /\ remote[serving] # "gone"
    /\ hpc' = "drain"
    /\ UNCHANGED <<engineVars, fwdVars, regs, serving, text, queue, wbuf, closed, netVars>>

\* read, send or flush fails other than with WouldBlock; frames that were
\* not yet read are lost with the connection.
ConnectionLost ==
    /\ hpc \in {"read", "drain", "flush"} /\ remote[serving] = "gone"
    /\ LetGo("lost")
    /\ UNCHANGED <<engineVars, fwdVars, regs, text, backlog, said, frames, received>>

\* tungstenite's buffer and the kernel's after writing as much as fits.
Pushed(buffer, kernel) ==
    LET n == IF Len(buffer) <= SockCap - Len(kernel) THEN Len(buffer)
                                                      ELSE SockCap - Len(kernel)
    IN  [wbuf |-> SubSeq(buffer, n + 1, Len(buffer)),
         sock |-> kernel \o SubSeq(buffer, 1, n)]

\* Faulty variant: after WouldBlock the message is kept for a second try,
\* although tungstenite has buffered it.
DrainOneResends ==
    LET after == Pushed(Append(wbuf[serving], Head(queue[serving])), sock[serving])
    IN  /\ hpc = "drain" /\ queue[serving] # <<>>
        /\ queue' = IF after.wbuf = <<>> THEN [queue EXCEPT ![serving] = Tail(@)] ELSE queue
        /\ wbuf' = [wbuf EXCEPT ![serving] = after.wbuf]
        /\ sock' = [sock EXCEPT ![serving] = after.sock]
        /\ hpc' = IF after.wbuf = <<>> THEN "drain" ELSE "flush"
        /\ UNCHANGED <<engineVars, fwdVars, regs, serving, text, closed, backlog, inbound, remote,
                       said, frames, received>>

\* WebSocket::send buffers the frame and writes; WouldBlock ends the drain.
DrainOne ==
    LET after == Pushed(Append(wbuf[serving], Head(queue[serving])), sock[serving])
    IN  /\ hpc = "drain" /\ queue[serving] # <<>>
        /\ queue' = [queue EXCEPT ![serving] = Tail(@)]
        /\ wbuf' = [wbuf EXCEPT ![serving] = after.wbuf]
        /\ sock' = [sock EXCEPT ![serving] = after.sock]
        /\ hpc' = IF after.wbuf = <<>> THEN "drain" ELSE "flush"
        /\ UNCHANGED <<engineVars, fwdVars, regs, serving, text, closed, backlog, inbound, remote,
                       said, frames, received>>

\* After a drain that WouldBlock cut short or that found nothing more to send.
Flush ==
    LET after == Pushed(wbuf[serving], sock[serving])
    IN  /\ hpc = "flush" \/ (hpc = "drain" /\ queue[serving] = <<>>)
        /\ hpc' = "read"
        /\ wbuf' = [wbuf EXCEPT ![serving] = after.wbuf]
        /\ sock' = [sock EXCEPT ![serving] = after.sock]
        /\ UNCHANGED <<engineVars, fwdVars, regs, serving, text, queue, closed, backlog, inbound,
                       remote, said, frames, received>>
-----------------------------------------------------------------------------
(* Clients. *)

serverVars == <<engineVars, fwdVars, regs, hpc, serving, text, queue, wbuf, closed>>

\* Connections reach the listener in the order of their numbers.
Connect(c) ==
    /\ remote[c] = "away" /\ \A d \in Clients : d < c => remote[d] # "away"
    /\ remote' = [remote EXCEPT ![c] = "dialing"]
    /\ backlog' = Append(backlog, c)
    /\ UNCHANGED <<serverVars, inbound, sock, said, frames, received>>

\* The lines of a frame of this shape, numbered after those c sent before.
Numbered(c, shape) ==
    [i \in 1..Len(shape) |->
        <<c, IF shape[i] THEN said[c] + Cardinality({j \in 1..i : shape[j]}) ELSE 0>>]

ClientSends(c, shape) ==
    /\ remote[c] = "open" /\ frames < MaxFrames
    /\ frames' = frames + 1
    /\ inbound' = [inbound EXCEPT ![c] = Append(@, Text(Numbered(c, shape)))]
    /\ said' = [said EXCEPT ![c] = @ + Cardinality({i \in 1..Len(shape) : shape[i]})]
    /\ UNCHANGED <<serverVars, backlog, sock, remote, received>>

ClientReads(c) ==
    /\ remote[c] \in {"open", "closing"} /\ sock[c] # <<>>
    /\ received' = [received EXCEPT ![c] = Append(@, Head(sock[c]))]
    /\ sock' = [sock EXCEPT ![c] = Tail(@)]
    /\ UNCHANGED <<serverVars, backlog, inbound, remote, said, frames>>

ClientCloses(c) ==
    /\ remote[c] = "open" /\ remote' = [remote EXCEPT ![c] = "closing"]
    /\ inbound' = [inbound EXCEPT ![c] = Append(@, Close)]
    /\ UNCHANGED <<serverVars, backlog, sock, said, frames, received>>

ClientVanishes(c) ==
    /\ remote[c] \in {"dialing", "open", "closing"}
    /\ remote' = [remote EXCEPT ![c] = "gone"]
    /\ sock' = [sock EXCEPT ![c] = <<>>]
    /\ UNCHANGED <<serverVars, backlog, inbound, said, frames, received>>
-----------------------------------------------------------------------------
Forwarder == FwdTop \/ FwdTimeout \/ FwdRecv \/ FwdRecheck \/ FwdSend

Handler ==
    \/ Accept \/ Handshake \/ HandshakeFails \/ Register
    \/ ReadText \/ PassLine \/ FrameDone \/ ReadClose \/ ReadWouldBlock \/ ConnectionLost
    \/ DrainOne \/ Flush

Client(c) ==
    \/ Connect(c) \/ ClientReads(c) \/ ClientCloses(c) \/ ClientVanishes(c)
    \/ \E shape \in Shapes : ClientSends(c, shape)

Next == Emit \/ TakeLines \/ Forwarder \/ Handler \/ \E c \in Clients : Client(c)

Spec == Init /\ [][Next]_vars

\* Both threads run, and a client reads what has reached it.
FairSpec ==
    /\ Spec /\ WF_vars(Forwarder) /\ WF_vars(Handler)
    /\ \A c \in Clients : WF_vars(ClientReads(c))
-----------------------------------------------------------------------------
TypeOK ==
    /\ outq \in Seq(Msgs) /\ emitted \in 0..MaxMsgs
    /\ fpc \in {"top", "wait", "recheck", "send"}
    /\ current \in Clients \cup {None} /\ fmsg \in Msgs \cup {None}
    /\ regs \in Seq(Clients) /\ backlog \in Seq(Clients)
    /\ hpc \in {"accept", "handshake", "greet", "read", "lines", "drain", "flush"}
    /\ serving \in Clients \cup {None} /\ (serving = None <=> hpc = "accept")
    /\ frames \in 0..MaxFrames /\ closed \subseteq Clients
    /\ \A c \in Clients :
        /\ queue[c] \in Seq(Msgs) /\ wbuf[c] \in Seq(Msgs)
        /\ sock[c] \in Seq(Msgs \cup {Greeting}) /\ Len(sock[c]) <= SockCap
        /\ remote[c] \in {"away", "dialing", "open", "closing", "gone"}
    /\ \A m \in Followed : aim[m].standing \in 0..3

\* What the engine has been given or can still take from WsIn, in order.
Arrived == taken \o inq

\* The lines of a client reach the engine without blanks, in the order sent
\* and without gaps, and those of an earlier connection before those of a
\* later one.
Before(l, m) == l[1] < m[1] \/ (l[1] = m[1] /\ l[2] < m[2])
LinesInOrder ==
    /\ \A i, j \in 1..Len(Arrived) : i < j => Before(Arrived[i], Arrived[j])
    /\ \A i \in 1..Len(Arrived) :
        LET c == Arrived[i][1]
        IN  /\ Arrived[i][2] \in 1..said[c]
            /\ \A n \in 1..(Arrived[i][2] - 1) : \E j \in 1..(i - 1) : Arrived[j] = <<c, n>>

\* A client that closed its connection has had all its lines taken over.
CloseLosesNothing ==
    \A c \in closed : \A n \in 1..said[c] : Contains(Arrived, <<c, n>>)

\* A client reads the greeting first and then messages in the order sent, and
\* no message reaches two clients.
DeliveredInOrder ==
    /\ \A c \in Clients : \A i \in 1..Len(received[c]) :
        (i = 1) = (received[c][i] = Greeting) /\ (i > 1 => received[c][i] > received[c][i - 1])
    /\ \A c, d \in Clients : c # d =>
        \A i \in 2..Len(received[c]) : ~Contains(received[d], received[c][i])

\* A message sent while the client has this standing reaches the client it was
\* sent towards, unless the connection ends.
Reaches(standing) ==
    \A m \in Followed : \A c \in Clients :
        emitted >= m /\ aim[m] = [to |-> c, standing |-> standing]
            ~> Contains(received[c], m) \/ remote[c] # "open"

\* The client the forwarder has adopted, or is about to, gets every message.
AdoptedGetsAll == Reaches(3)

\* So does a client that has registered, whatever registered before it.
RegisteredGetsAll == Reaches(2)

\* So does a client from the moment its handshake is complete.
ConnectedGetsAll == Reaches(1)

\* A client that leaves does not keep the accept thread.
LeaverIsReleased ==
    \A c \in Clients : serving = c /\ remote[c] \in {"closing", "gone"} ~> serving # c
=============================================================================
