-------------------------- MODULE WebSocketServer --------------------------
(***************************************************************************)
(* WebSocket/Server.cpp, ConnectionFactory.cpp and the two Connections.    *)
(* The io_service thread accepts, shakes hands and reads; the main thread  *)
(* calls broadcastText from OpenNI's callbacks and from detect().  They    *)
(* share the vector of connections, the connections' states and the        *)
(* sockets without a mutex: "lock(mtx);" declares a lock named mtx that    *)
(* locks nothing.                                                          *)
(*                                                                         *)
(* A message is its number, the handshake's response is 0.  What a peer    *)
(* was sent and has not read yet is in the socket's buffers.  A write is   *)
(* whole here; WebSocketStream has the bytes and the partial writes.       *)
(***************************************************************************)
EXTENDS Naturals, Sequences, SequencesExt

CONSTANTS
  Peers,    \* the clients that ever connect, each once
  MaxMsgs,  \* how many messages are broadcast
  BufSize   \* how many messages a socket's buffers hold

ASSUME WebSocketServerAssumption ==
  MaxMsgs \in Nat /\ BufSize \in Nat \ {0}

VARIABLES
  process,      \* "running", "exited" (main returned) or "crashed"
  peer,         \* external: "away", "connected" or "gone"
  kind,         \* the handshake a peer asks for; "silent" before it asks
  sent,         \* what went into a peer's socket
  read,         \* how much of it the peer has read
  ioPc, ioPeer, \* the io_service thread
  socket,       \* the server's end: "none", "open" or "closed"
  current,      \* Connection::current
  listening,    \* an async_read_some is pending
  connections,  \* the vector, and the size of its storage
  capacity,
  listedAt,     \* history: how many messages were begun before push_back
  mainPc,       \* the main thread, in broadcastText
  text,         \* the message it broadcasts
  it, end,      \* the iterators of BOOST_FOREACH
  dangling      \* they point into storage that push_back gave back

clients == <<peer, kind, read>>
vector == <<connections, capacity, listedAt>>
io == <<ioPc, ioPeer, listening, vector>>
main == <<mainPc, text, it, end>>
vars == <<process, clients, sent, io, socket, current, main, dangling>>

Kinds == {"ver10", "draft76", "bad"}
NoPeer == "none"

Running == process = "running"
Unread(p) == Len(sent[p]) - read[p]
Put(p, msg) == [sent EXCEPT ![p] = Append(@, msg)]

-----------------------------------------------------------------------------
(* The clients, external.                                                  *)

Connect(p) ==
  /\ peer[p] = "away"
  /\ peer' = [peer EXCEPT ![p] = "connected"]
  /\ UNCHANGED <<process, kind, read, sent, io, socket, current, main,
                 dangling>>

\* "bad" stands for what is not a WebSocket request, or has unusable keys.
Ask(p) ==
  /\ peer[p] = "connected" /\ kind[p] = "silent"
  /\ \E k \in Kinds : kind' = [kind EXCEPT ![p] = k]
  /\ UNCHANGED <<process, peer, read, sent, io, socket, current, main,
                 dangling>>

ReadMessage(p) ==
  /\ peer[p] = "connected" /\ Unread(p) > 0
  /\ read' = [read EXCEPT ![p] = @ + 1]
  /\ UNCHANGED <<process, peer, kind, sent, io, socket, current, main,
                 dangling>>

\* What it has not read is lost.
Leave(p) ==
  /\ peer[p] = "connected"
  /\ peer' = [peer EXCEPT ![p] = "gone"]
  /\ read' = [read EXCEPT ![p] = Len(sent[p])]
  /\ UNCHANGED <<process, kind, sent, io, socket, current, main,
                 dangling>>

Client(p) ==
  Connect(p) \/ Ask(p) \/ ReadMessage(p) \/ Leave(p)

-----------------------------------------------------------------------------
(* The io_service thread.                                                  *)

\* handle_accept, which does not look at error: the factory's blocking read
\* follows.
HandleAccept(p) ==
  /\ Running /\ ioPc = "run"
  /\ peer[p] # "away" /\ socket[p] = "none"
  /\ socket' = [socket EXCEPT ![p] = "open"]
  /\ ioPc' = "createConnection" /\ ioPeer' = p
  /\ UNCHANGED <<process, clients, sent, listening, vector, current, main,
                 dangling>>

\* Without a socket, when no descriptor is left, say, the read fails at once,
\* and listen() is called through a null connection.
HandleAcceptError(p) ==
  /\ Running /\ ioPc = "run"
  /\ peer[p] # "away" /\ socket[p] = "none"
  /\ process' = "crashed"
  /\ ioPc' = "acceptError" /\ ioPeer' = p
  /\ UNCHANGED <<clients, sent, listening, vector, socket, current, main,
                 dangling>>

\* No request or a bad one: listen() through a null connection, or decodeKey
\* that throws or divides by zero.
CreateConnectionNull ==
  /\ Running /\ ioPc = "createConnection"
  /\ \/ kind[ioPeer] = "bad"
     \/ kind[ioPeer] = "silent" /\ peer[ioPeer] = "gone"
  /\ process' = "crashed"
  /\ UNCHANGED <<clients, sent, io, socket, current, main, dangling>>

\* A good request: a Connection is made, in HAND_SHAKE, and its constructor
\* writes the response.  To a peer that is gone that may still succeed.
CreateConnection ==
  /\ Running /\ ioPc = "createConnection"
  /\ kind[ioPeer] \in {"ver10", "draft76"}
  /\ \/ /\ peer[ioPeer] = "connected" /\ sent' = Put(ioPeer, 0)
        /\ current' = [current EXCEPT ![ioPeer] = "CONNECTED"]
        /\ UNCHANGED socket
     \/ /\ peer[ioPeer] = "gone" /\ UNCHANGED <<sent, socket>>
        /\ current' = [current EXCEPT ![ioPeer] = "CONNECTED"]
     \/ /\ peer[ioPeer] = "gone" /\ UNCHANGED sent
        /\ current' = [current EXCEPT ![ioPeer] = "DISCONNECTIED"]
        /\ socket' = [socket EXCEPT ![ioPeer] = "closed"]
  /\ ioPc' = "listen"
  /\ UNCHANGED <<process, clients, ioPeer, listening, vector, main, dangling>>

\* A slip: back to run() before push_back.
ListenOnly ==
  /\ Running /\ ioPc = "listen"
  /\ listening' = [listening EXCEPT ![ioPeer] = TRUE]
  /\ ioPc' = "run" /\ ioPeer' = NoPeer
  /\ UNCHANGED <<process, clients, sent, vector, socket, current, main,
                 dangling>>

\* listen(), of which the main thread sees nothing, then push_back, which
\* doubles the storage when it is full; a broadcast in progress keeps what
\* iterators it has into the old one.  start_accept() follows.
PushBack ==
  /\ Running /\ ioPc = "listen"
  /\ listening' = [listening EXCEPT ![ioPeer] = TRUE]
  /\ connections' = Append(connections, ioPeer)
  /\ listedAt' = [listedAt EXCEPT ![ioPeer] = text]
  /\ IF Len(connections) < capacity
       THEN UNCHANGED <<capacity, dangling>>
       ELSE /\ capacity' = IF capacity = 0 THEN 1 ELSE 2 * capacity
            /\ dangling' = (dangling \/ mainPc = "begin" \/ it < end)
  /\ ioPc' = "run" /\ ioPeer' = NoPeer
  /\ UNCHANGED <<process, clients, sent, socket, current, main>>

\* handle_read with data, which may have come before the peer went.
\* Connection_draft76 listens again and takes all frames alike.
\* Connection_ver10 listens no more: a close frame closes the socket; a byte
\* of a long frame's length that is 128 or more is negative to ParseFrame,
\* which then asks for more memory than there is, and the exception leaves
\* the thread.
HandleRead(p) ==
  /\ Running /\ ioPc = "run"
  /\ listening[p] /\ socket[p] = "open"
  /\ listening' = [listening EXCEPT ![p] = (kind[p] = "draft76")]
  /\ \/ /\ kind[p] = "ver10"
        /\ socket' = [socket EXCEPT ![p] = "closed"]
        /\ ioPc' = "closed" /\ ioPeer' = p
        /\ UNCHANGED process
     \/ UNCHANGED <<process, socket, ioPc, ioPeer>>
     \/ /\ kind[p] = "ver10" /\ process' = "crashed"
        /\ ioPc' = "parseFrame" /\ ioPeer' = p
        /\ UNCHANGED socket
  /\ UNCHANGED <<clients, sent, vector, current, main, dangling>>

\* handle_read with an error: the peer is gone, or the main thread closed the
\* socket.  Only Connection_draft76 goes on to set its state.
HandleReadError(p) ==
  /\ Running /\ ioPc = "run"
  /\ listening[p]
  /\ \/ socket[p] = "closed"
     \/ peer[p] = "gone"
  /\ listening' = [listening EXCEPT ![p] = FALSE]
  /\ socket' = [socket EXCEPT ![p] = "closed"]
  /\ \/ kind[p] = "draft76" /\ ioPc' = "closed" /\ ioPeer' = p
     \/ kind[p] = "ver10" /\ UNCHANGED <<ioPc, ioPeer>>
  /\ UNCHANGED <<process, clients, sent, vector, current, main, dangling>>

SetDisconnected ==
  /\ Running /\ ioPc = "closed"
  /\ current' = [current EXCEPT ![ioPeer] = "DISCONNECTIED"]
  /\ ioPc' = "run" /\ ioPeer' = NoPeer
  /\ UNCHANGED <<process, clients, sent, listening, vector, socket, main,
                 dangling>>

IoThread ==
  \/ \E p \in Peers :
       \/ HandleAccept(p) \/ HandleAcceptError(p)
       \/ HandleRead(p) \/ HandleReadError(p)
  \/ CreateConnection \/ CreateConnectionNull \/ PushBack \/ SetDisconnected

-----------------------------------------------------------------------------
(* The main thread.                                                        *)

\* broadcastText: BOOST_FOREACH takes begin().
BroadcastText ==
  /\ Running /\ mainPc = "idle" /\ text < MaxMsgs
  /\ it' = 0 /\ end' = 0
  /\ mainPc' = "begin" /\ dangling' = FALSE
  /\ UNCHANGED <<process, clients, sent, io, socket, current, text>>

\* And end(): who is listed now is to get the message.
ForeachRange ==
  /\ Running /\ mainPc = "begin" /\ ~dangling
  /\ text' = text + 1
  /\ end' = Len(connections)
  /\ mainPc' = "foreach"
  /\ UNCHANGED <<process, clients, sent, io, socket, current, it, dangling>>

\* With begin() in the old storage and end() in the new one the loop runs
\* through whatever lies between.
ForeachMixed ==
  /\ Running /\ mainPc = "begin" /\ dangling
  /\ process' = "crashed"
  /\ UNCHANGED <<clients, sent, io, socket, current, main, dangling>>

Con == connections[it + 1]

\* Storage that was given back may still hold the old pointers, or not.
ForeachFreed ==
  /\ Running /\ mainPc = "foreach" /\ it < end /\ dangling
  /\ process' = "crashed"
  /\ UNCHANGED <<clients, sent, io, socket, current, main, dangling>>

Foreach ==
  /\ Running /\ mainPc = "foreach" /\ it < end
  /\ IF current[Con] = "CONNECTED"
       THEN mainPc' = "sendText" /\ UNCHANGED it
       ELSE it' = it + 1 /\ UNCHANGED mainPc
  /\ UNCHANGED <<process, clients, sent, io, socket, current, text, end,
                 dangling>>

ForeachEnd ==
  /\ Running /\ mainPc = "foreach" /\ it = end
  /\ mainPc' = "idle" /\ it' = 0 /\ end' = 0 /\ dangling' = FALSE
  /\ UNCHANGED <<process, clients, sent, io, socket, current, text>>

\* sendText: Connection_ver10 marks the connection, Connection_draft76 not.
SendText ==
  /\ Running /\ mainPc = "sendText"
  /\ current' = IF kind[Con] = "ver10"
                  THEN [current EXCEPT ![Con] = "SENDING"] ELSE current
  /\ mainPc' = "write"
  /\ UNCHANGED <<process, clients, sent, io, socket, text, it, end, dangling>>

\* Slips: a full buffer taken for success; an error that always throws; the
\* loop left, or repeated, on an error.
WriteSomeDrops ==
  /\ Running /\ mainPc = "write" /\ socket[Con] = "open"
  /\ \/ /\ peer[Con] = "connected" /\ Unread(Con) < BufSize
        /\ sent' = Put(Con, text)
     \/ peer[Con] = "gone" /\ UNCHANGED sent
     \/ Unread(Con) = BufSize /\ UNCHANGED sent
  /\ mainPc' = "written"
  /\ UNCHANGED <<process, clients, io, socket, current, text, it, end,
                 dangling>>

WriteSomeThrows ==
  /\ Running /\ mainPc = "write"
  /\ socket[Con] = "closed" \/ peer[Con] = "gone"
  /\ process' = "exited"
  /\ UNCHANGED <<clients, sent, io, socket, current, main, dangling>>

WriteFailedReturns ==
  /\ Running /\ mainPc = "failed"
  /\ current' = [current EXCEPT ![Con] = "DISCONNECTIED"]
  /\ socket' = [socket EXCEPT ![Con] = "closed"]
  /\ mainPc' = "idle" /\ it' = 0 /\ end' = 0 /\ dangling' = FALSE
  /\ UNCHANGED <<process, clients, sent, io, text>>

WriteFailedRetries ==
  /\ Running /\ mainPc = "failed"
  /\ mainPc' = "write"
  /\ UNCHANGED <<process, clients, sent, io, socket, current, text, it, end,
                 dangling>>

\* write_some blocks while the buffers are full.  To a peer that is gone it
\* may still succeed.
WriteSome ==
  /\ Running /\ mainPc = "write" /\ socket[Con] = "open"
  /\ \/ /\ peer[Con] = "connected" /\ Unread(Con) < BufSize
        /\ sent' = Put(Con, text)
     \/ peer[Con] = "gone" /\ UNCHANGED sent
  /\ mainPc' = "written"
  /\ UNCHANGED <<process, clients, io, socket, current, text, it, end,
                 dangling>>

\* Connection_draft76 calls the write_some that throws: the exception leaves
\* broadcastText and WaitAndUpdateAll or updateData(), and main returns.
WriteSomeError ==
  /\ Running /\ mainPc = "write"
  /\ socket[Con] = "closed" \/ peer[Con] = "gone"
  /\ \/ /\ kind[Con] = "ver10" /\ mainPc' = "failed" /\ UNCHANGED process
     \/ /\ kind[Con] = "draft76" /\ process' = "exited" /\ UNCHANGED mainPc
  /\ UNCHANGED <<clients, sent, io, socket, current, text, it, end, dangling>>

Written ==
  /\ Running /\ mainPc = "written"
  /\ current' = IF kind[Con] = "ver10"
                  THEN [current EXCEPT ![Con] = "CONNECTED"] ELSE current
  /\ mainPc' = "foreach" /\ it' = it + 1
  /\ UNCHANGED <<process, clients, sent, io, socket, text, end, dangling>>

WriteFailed ==
  /\ Running /\ mainPc = "failed"
  /\ current' = [current EXCEPT ![Con] = "DISCONNECTIED"]
  /\ socket' = [socket EXCEPT ![Con] = "closed"]
  /\ mainPc' = "foreach" /\ it' = it + 1
  /\ UNCHANGED <<process, clients, sent, io, text, end, dangling>>

MainThread ==
  \/ BroadcastText \/ ForeachRange \/ ForeachMixed
  \/ Foreach \/ ForeachFreed \/ ForeachEnd \/ SendText
  \/ WriteSome \/ WriteSomeError \/ Written \/ WriteFailed

-----------------------------------------------------------------------------

Init ==
  /\ process = "running"
  /\ peer = [p \in Peers |-> "away"] /\ kind = [p \in Peers |-> "silent"]
  /\ sent = [p \in Peers |-> <<>>]
  /\ read = [p \in Peers |-> 0]
  /\ ioPc = "run" /\ ioPeer = NoPeer
  /\ socket = [p \in Peers |-> "none"] /\ current = [p \in Peers |-> "none"]
  /\ listening = [p \in Peers |-> FALSE]
  /\ connections = <<>> /\ capacity = 0 /\ listedAt = [p \in Peers |-> 0]
  /\ mainPc = "idle" /\ text = 0 /\ it = 0 /\ end = 0 /\ dangling = FALSE

Next == (Running /\ \E p \in Peers : Client(p)) \/ IoThread \/ MainThread

Spec == Init /\ [][Next]_vars

\* Both threads run, the reactor comes to every client that waits, and the
\* clients that stay read what they are sent.
FairSpec ==
  /\ Spec /\ WF_vars(MainThread) /\ WF_vars(IoThread)
  /\ \A p \in Peers : SF_vars(HandleAccept(p)) /\ WF_vars(ReadMessage(p))

-----------------------------------------------------------------------------

Listed == Range(connections)

\* Every peer is sent the handshake and then every message begun after it was
\* listed, in order, until it is given up, whichever way accept, reads,
\* failures and broadcasts interleave.
OB == INSTANCE OrderedBroadcast WITH
        published <- text, subscribers <- Listed, since <- listedAt,
        stream <- sent
OrderedDelivery == OB!Spec

\* When broadcastText returns, every peer that was listed when it began and
\* is still there has the message.
NobodyMissed ==
  [][mainPc # "idle" /\ mainPc' = "idle" =>
       \A i \in 1 .. end :
         peer[connections[i]] = "connected" /\ socket[connections[i]] = "open"
           => Last(sent[connections[i]]) = text]_vars

\* What can stop the process: an accept or a handshake that fails, a client of
\* draft 76 that leaves, push_back under a broadcast, or the first message of
\* a client of version 10.  At whatever moment such a client leaves, it cannot.
OnlyKnownStops ==
  /\ process = "exited" =>
       mainPc = "write" /\ kind[Con] = "draft76" /\ peer[Con] = "gone"
  /\ process = "crashed" =>
       \/ dangling \/ ioPc \in {"parseFrame", "acceptError"}
       \/ ioPc = "createConnection" /\ kind[ioPeer] \in {"bad", "silent"}

\* broadcastText returns, unless the process stops.
BroadcastReturns == mainPc # "idle" ~> (mainPc = "idle" \/ ~Running)

\* The io_service thread waits in a blocking read for a client's request.
IoBlocked == ioPc = "createConnection" /\ kind[ioPeer] = "silent"

\* A client that asks is listed for the broadcasts, unless it leaves, the
\* process stops, or another client that never asks blocks the thread.
AskedIsListed ==
  \A p \in Peers :
    kind[p] \in {"ver10", "draft76"}
      ~> (p \in Listed \/ peer[p] = "gone" \/ ~Running \/ IoBlocked)
=============================================================================
