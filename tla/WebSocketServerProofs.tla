----------------------- MODULE WebSocketServerProofs -----------------------
(***************************************************************************)
(* What WebSocketServer promises, for any number of clients, messages and  *)
(* buffers: the main thread and the io_service thread, which share the     *)
(* connections without a mutex, deliver to every client in order and       *)
(* without a gap, and stop for the known reasons only.                     *)
(***************************************************************************)
EXTENDS WebSocketServer, TLAPS

\* The members and the two threads' locals.
TypeOK ==
  /\ process \in {"running", "exited", "crashed"}
  /\ peer \in [Peers -> {"away", "connected", "gone"}]
  /\ kind \in [Peers -> Kinds \cup {"silent"}]
  /\ sent \in [Peers -> Seq(Nat)]
  /\ ioPc \in {"run", "createConnection", "listen", "closed", "parseFrame",
               "acceptError"}
  /\ ioPc # "run" => ioPeer \in Peers
  /\ socket \in [Peers -> {"none", "open", "closed"}]
  /\ current \in
       [Peers -> {"none", "CONNECTED", "SENDING", "DISCONNECTIED"}]
  /\ connections \in Seq(Peers) /\ listedAt \in [Peers -> Nat]
  /\ mainPc \in {"idle", "begin", "foreach", "sendText", "write", "written",
                 "failed"}
  /\ text \in Nat /\ it \in Nat /\ end \in Nat

\* The iterators stay inside the vector, and Con is a connection of it.
IterInv ==
  /\ end <= Len(connections) /\ it <= end
  /\ mainPc = "begin" => end = 0
  /\ mainPc \notin {"idle", "begin", "foreach"} => it < end
  /\ mainPc = "failed" => kind[Con] = "ver10"

\* Nobody is listed twice: a client is listed once its handshake is over.
ListInv ==
  /\ \A i, j \in 1 .. Len(connections) :
       connections[i] = connections[j] => i = j
  /\ \A i \in 1 .. Len(connections) :
       /\ kind[connections[i]] \in {"ver10", "draft76"}
       /\ socket[connections[i]] # "none"
  /\ \A p \in Peers : socket[p] = "none" => sent[p] = <<>>

Live(p) == peer[p] = "connected" /\ socket[p] = "open"

\* The client the io_service thread is about to list is new; the one whose
\* state it is about to set has its socket closed.
IoInv ==
  /\ ioPc \in {"createConnection", "listen"} =>
       /\ socket[ioPeer] # "none"
       /\ \A i \in 1 .. Len(connections) : connections[i] # ioPeer
  /\ ioPc = "createConnection" => sent[ioPeer] = <<>>
  /\ ioPc = "listen" =>
       /\ kind[ioPeer] \in {"ver10", "draft76"}
       /\ Live(ioPeer) =>
            current[ioPeer] = "CONNECTED" /\ Len(sent[ioPeer]) = 1
  /\ ioPc = "closed" => socket[ioPeer] = "closed"

\* A socket is not open, or a state DISCONNECTIED, for a reason.
ClosedInv ==
  \A p \in Peers :
    /\ peer[p] = "away" => socket[p] = "none"
    /\ socket[p] = "closed" => kind[p] = "ver10" \/ peer[p] = "gone"
    /\ current[p] = "DISCONNECTIED" => socket[p] = "closed"

\* Connection i is still to get the message that is broadcast.
Pending(i) ==
  /\ mainPc # "idle" /\ i <= end
  /\ it + 1 < i \/ (it + 1 = i /\ mainPc # "written")

\* A client that is still there has all messages since it was listed, but the
\* one that is still to come to it; and no broadcast skips it.
Served(i, p) ==
  Live(p) =>
    /\ sent[p] # <<>>
    /\ Len(sent[p]) + listedAt[p] = IF Pending(i) THEN text ELSE text + 1
    /\ \/ current[p] = "CONNECTED"
       \/ /\ i = it + 1 /\ mainPc \in {"write", "written", "failed"}
          /\ current[p] = "SENDING" /\ kind[p] = "ver10"
    /\ mainPc # "idle" /\ i <= end /\ ~Pending(i) => Last(sent[p]) = text

ServedInv == \A i \in 1 .. Len(connections) : Served(i, connections[i])

IInv ==
  TypeOK /\ IterInv /\ ListInv /\ IoInv /\ ClosedInv /\ ServedInv
    /\ OnlyKnownStops

-----------------------------------------------------------------------------
(* What all steps have in common.                                          *)

\* While the process runs there is nothing to explain.
LEMMA RunningIsFine ==
  ASSUME Running, UNCHANGED process
  PROVE  OnlyKnownStops'
  BY DEF Running, OnlyKnownStops

\* The vector holds clients.
LEMMA ListedArePeers ==
  ASSUME TypeOK
  PROVE  /\ Len(connections) \in Nat
         /\ \A i \in 1 .. Len(connections) : connections[i] \in Peers
  BY DEF TypeOK

\* Inside the loop Con is the connection at the iterator.
LEMMA ConFacts ==
  ASSUME TypeOK, IterInv,
         mainPc \notin {"idle", "begin", "foreach"} \/ it < end
  PROVE  /\ it + 1 \in 1 .. Len(connections) /\ Con \in Peers
         /\ Con = connections[it + 1]
  BY ListedArePeers DEF TypeOK, IterInv, Con

\* A step that is not the main thread's serves everybody as before, if it
\* touches no client that is listed and still there.
LEMMA ServedKept ==
  ASSUME IInv, UNCHANGED <<main, connections>>,
         \A i \in 1 .. Len(connections) :
           LET p == connections[i]
           IN  (Live(p))' => /\ Live(p) /\ sent'[p] = sent[p]
                             /\ listedAt'[p] = listedAt[p]
                             /\ current'[p] = current[p] /\ kind'[p] = kind[p]
  PROVE  ServedInv'
<1>1. ASSUME NEW i \in 1 .. Len(connections)
      PROVE  Served(i, connections[i])'
  <2>. DEFINE p == connections[i]
  <2>1. Served(i, p) /\ p' = p /\ (Pending(i)' <=> Pending(i))
    BY DEF IInv, ServedInv, Pending, main
  <2>2. CASE ~(Live(p))'
    BY <2>1, <2>2 DEF Served, Live
  <2>3. CASE (Live(p))'
    <3>1. /\ Live(p) /\ sent'[p] = sent[p] /\ listedAt'[p] = listedAt[p]
          /\ current'[p] = current[p] /\ kind'[p] = kind[p]
      BY <2>3
    <3>. QED
      BY <2>1, <3>1 DEF Served, Last, main
  <2>. QED
    BY <2>2, <2>3
<1>. QED
  BY <1>1 DEF ServedInv

-----------------------------------------------------------------------------
(* The clients.                                                            *)

\* Whatever a client does while the process runs keeps the invariant.
LEMMA ClientKeeps ==
  ASSUME IInv, Running, NEW p \in Peers, Client(p)
  PROVE  IInv'
<1>. USE DEF IInv
<1>0. /\ UNCHANGED <<process, sent, io, socket, current, main, dangling>>
      /\ UNCHANGED <<ioPc, ioPeer, connections, listedAt>>
      /\ Con' = Con
  BY DEF Client, Connect, Ask, ReadMessage, Leave, io, vector, main, Con
<1>1. /\ peer' \in [Peers -> {"away", "connected", "gone"}]
      /\ kind' \in [Peers -> Kinds \cup {"silent"}]
  BY DEF Client, Connect, Ask, ReadMessage, Leave, TypeOK
<1>2. TypeOK'
  BY <1>0, <1>1 DEF TypeOK, main
<1>3. \A q \in Peers :
        /\ kind'[q] = kind[q] \/ kind[q] = "silent"
        /\ peer'[q] = peer[q] \/ (peer[q] = "away" /\ peer'[q] = "connected")
             \/ peer'[q] = "gone"
  BY DEF Client, Connect, Ask, ReadMessage, Leave, TypeOK
<1>4. \A q \in Peers : (Live(q))' => Live(q)
  BY <1>0, <1>3 DEF Live, ClosedInv
<1>5. \A i \in 1 .. Len(connections) :
        /\ connections[i] \in Peers
        /\ kind'[connections[i]] = kind[connections[i]]
  BY <1>3, ListedArePeers DEF ListInv
<1>6. IterInv'
  <2>1. mainPc = "failed" => it + 1 \in 1 .. Len(connections)
    BY ConFacts
  <2>. QED
    BY <1>0, <1>5, <2>1 DEF IterInv, main, Con
<1>7. ListInv'
  BY <1>0, <1>5 DEF ListInv
<1>8. IoInv'
  BY <1>0, <1>3, <1>4 DEF TypeOK, IoInv
<1>9. ClosedInv'
  BY <1>0, <1>3 DEF TypeOK, ClosedInv
<1>10. ServedInv'
  BY <1>0, <1>4, <1>5, ServedKept
<1>. QED
  BY <1>0, <1>2, <1>6, <1>7, <1>8, <1>9, <1>10, RunningIsFine

-----------------------------------------------------------------------------
(* The io_service thread.                                                  *)

\* An accepted client is new to the server.
LEMMA HandleAcceptKeeps ==
  ASSUME IInv, NEW p \in Peers, HandleAccept(p)
  PROVE  IInv'
<1>. USE DEF IInv
<1>0. /\ Running /\ peer[p] # "away" /\ socket[p] = "none"
      /\ socket' = [socket EXCEPT ![p] = "open"]
      /\ ioPc' = "createConnection" /\ ioPeer' = p
      /\ UNCHANGED <<process, peer, kind, sent, connections, listedAt,
                     current, main, dangling>>
      /\ Con' = Con
  BY DEF HandleAccept, clients, vector, main, Con
<1>1. \A i \in 1 .. Len(connections) : connections[i] # p
  BY <1>0 DEF ListInv
<1>2. TypeOK'
  BY <1>0 DEF TypeOK, main
<1>3. IterInv'
  BY <1>0 DEF IterInv, main
<1>4. ListInv' /\ ClosedInv'
  BY <1>0 DEF TypeOK, ListInv, ClosedInv
<1>5. IoInv'
  BY <1>0, <1>1 DEF TypeOK, ListInv, IoInv
<1>6. ServedInv'
  <2>1. \A q \in Peers : q # p => socket'[q] = socket[q]
    BY <1>0 DEF TypeOK
  <2>. QED
    BY <1>0, <1>1, <2>1, ListedArePeers, ServedKept DEF Live
<1>. QED
  BY <1>0, <1>2, <1>3, <1>4, <1>5, <1>6, RunningIsFine

\* An accept that fails is a reason to stop.
LEMMA HandleAcceptErrorKeeps ==
  ASSUME IInv, NEW p \in Peers, HandleAcceptError(p)
  PROVE  IInv'
<1>. USE DEF IInv
<1>0. /\ process' = "crashed" /\ ioPc' = "acceptError" /\ ioPeer' = p
      /\ UNCHANGED <<peer, kind, sent, connections, listedAt, socket, current,
                     main, dangling>>
      /\ Con' = Con
  BY DEF HandleAcceptError, clients, vector, main, Con
<1>1. TypeOK'
  BY <1>0 DEF TypeOK, main
<1>2. IterInv' /\ ListInv' /\ ClosedInv'
  BY <1>0 DEF IterInv, ListInv, ClosedInv, main
<1>3. IoInv'
  BY <1>0 DEF IoInv
<1>4. ServedInv'
  BY <1>0, ServedKept DEF Live
<1>5. OnlyKnownStops'
  BY <1>0 DEF OnlyKnownStops
<1>. QED
  BY <1>1, <1>2, <1>3, <1>4, <1>5

\* The process stops over a handshake only with a client that made none.
LEMMA CreateConnectionNullKeeps ==
  ASSUME IInv, CreateConnectionNull
  PROVE  IInv'
<1>. USE DEF IInv
<1>0. /\ ioPc = "createConnection" /\ kind[ioPeer] \in {"bad", "silent"}
      /\ process' = "crashed"
      /\ UNCHANGED <<peer, kind, sent, ioPc, ioPeer, connections, listedAt,
                     socket, current, main, dangling>>
      /\ Con' = Con
  BY DEF CreateConnectionNull, clients, io, vector, main, Con
<1>1. TypeOK'
  BY <1>0 DEF TypeOK, main
<1>2. IterInv' /\ ListInv' /\ ClosedInv'
  BY <1>0 DEF IterInv, ListInv, ClosedInv, main
<1>3. IoInv'
  BY <1>0 DEF IoInv, Live
<1>4. ServedInv'
  BY <1>0, ServedKept DEF Live
<1>5. OnlyKnownStops'
  BY <1>0 DEF OnlyKnownStops
<1>. QED
  BY <1>1, <1>2, <1>3, <1>4, <1>5

\* The handshake's response is the first thing the new client is sent.
LEMMA CreateConnectionKeeps ==
  ASSUME IInv, CreateConnection
  PROVE  IInv'
<1>. USE DEF IInv
<1>. DEFINE p == ioPeer
<1>0. /\ Running /\ ioPc = "createConnection" /\ p \in Peers
      /\ kind[p] \in {"ver10", "draft76"} /\ ioPc' = "listen"
      /\ UNCHANGED <<process, peer, kind, ioPeer, connections, listedAt,
                     main, dangling>>
      /\ Con' = Con
  BY DEF CreateConnection, clients, vector, main, Con, TypeOK
<1>1. /\ \A i \in 1 .. Len(connections) : connections[i] # p
      /\ socket[p] # "none" /\ sent[p] = <<>>
  BY <1>0 DEF IoInv
<1>2. \/ /\ peer[p] = "connected" /\ sent' = [sent EXCEPT ![p] = <<0>>]
         /\ current' = [current EXCEPT ![p] = "CONNECTED"]
         /\ UNCHANGED socket
      \/ /\ peer[p] = "gone" /\ UNCHANGED <<sent, socket>>
         /\ current' = [current EXCEPT ![p] = "CONNECTED"]
      \/ /\ peer[p] = "gone" /\ UNCHANGED sent
         /\ current' = [current EXCEPT ![p] = "DISCONNECTIED"]
         /\ socket' = [socket EXCEPT ![p] = "closed"]
  <2>1. Append(sent[p], 0) = <<0>>
    BY <1>1
  <2>. QED
    BY <2>1 DEF CreateConnection, Put
<1>3. /\ sent' \in [Peers -> Seq(Nat)]
      /\ current' \in
           [Peers -> {"none", "CONNECTED", "SENDING", "DISCONNECTIED"}]
      /\ socket' \in [Peers -> {"none", "open", "closed"}]
  <2>1. <<0>> \in Seq(Nat)
    OBVIOUS
  <2>. QED
    BY <1>0, <1>2, <2>1 DEF TypeOK
<1>4. /\ \A q \in Peers : q # p =>
           /\ sent'[q] = sent[q] /\ current'[q] = current[q]
           /\ socket'[q] = socket[q]
      /\ socket'[p] # "none"
      /\ socket'[p] = "closed" => socket[p] = "closed" \/ peer[p] = "gone"
      /\ current'[p] = "DISCONNECTIED" => socket'[p] = "closed"
      /\ peer[p] = "connected" =>
           current'[p] = "CONNECTED" /\ sent'[p] = <<0>>
  BY <1>0, <1>1, <1>2 DEF TypeOK
<1>5. TypeOK'
  BY <1>0, <1>3 DEF TypeOK, main
<1>6. IterInv'
  BY <1>0 DEF IterInv, main
<1>7. ListInv'
  <2>1. \A i \in 1 .. Len(connections) :
          socket'[connections[i]] = socket[connections[i]]
    BY <1>1, <1>4, ListedArePeers
  <2>2. \A q \in Peers : socket'[q] = "none" =>
          socket[q] = "none" /\ sent'[q] = sent[q]
    BY <1>4
  <2>. QED
    BY <1>0, <2>1, <2>2 DEF ListInv
<1>8. IoInv'
  <2>1. Len(<<0>>) = 1
    OBVIOUS
  <2>. QED
    BY <1>0, <1>1, <1>4, <2>1 DEF IoInv, Live
<1>9. ClosedInv'
  BY <1>0, <1>1, <1>4 DEF ClosedInv
<1>10. ServedInv'
  BY <1>0, <1>1, <1>4, ListedArePeers, ServedKept DEF Live
<1>. QED
  BY <1>0, <1>5, <1>6, <1>7, <1>8, <1>9, <1>10, RunningIsFine

\* The client that is listed during a broadcast lies behind its end: it gets
\* the next message first.
LEMMA PushBackKeeps ==
  ASSUME IInv, PushBack
  PROVE  IInv'
<1>. USE DEF IInv
<1>. DEFINE n == Len(connections)
            p == ioPeer
<1>0. /\ Running /\ ioPc = "listen" /\ ioPc' = "run" /\ p \in Peers
      /\ connections' = Append(connections, p)
      /\ listedAt' = [listedAt EXCEPT ![p] = text]
      /\ UNCHANGED <<process, peer, kind, sent, socket, current, mainPc, text,
                     it, end>>
  BY DEF PushBack, clients, main, TypeOK
<1>1. /\ n \in Nat /\ Len(connections') = n + 1
      /\ connections' \in Seq(Peers)
      /\ \A i \in 1 .. n : connections'[i] = connections[i]
      /\ connections'[n + 1] = p
      /\ \A i \in 1 .. n + 1 : i \in 1 .. n \/ i = n + 1
  BY <1>0 DEF TypeOK
<1>2. /\ \A i \in 1 .. n : connections[i] # p
      /\ socket[p] # "none" /\ kind[p] \in {"ver10", "draft76"}
      /\ Live(p) => current[p] = "CONNECTED" /\ Len(sent[p]) = 1
  BY <1>0 DEF IoInv
<1>3. /\ listedAt'[p] = text
      /\ \A q \in Peers : q # p => listedAt'[q] = listedAt[q]
  BY <1>0 DEF TypeOK
<1>4. TypeOK'
  BY <1>0, <1>1 DEF TypeOK
<1>5. IterInv'
  <2>1. mainPc = "failed" => it + 1 \in 1 .. n /\ Con' = Con
    BY <1>0, <1>1, ConFacts DEF Con
  <2>. QED
    BY <1>0, <1>1, <2>1 DEF TypeOK, IterInv
<1>6. ListInv'
  BY <1>0, <1>1, <1>2 DEF ListInv
<1>7. IoInv' /\ ClosedInv'
  BY <1>0 DEF IoInv, ClosedInv
<1>8. ServedInv'
  <2>. SUFFICES ASSUME NEW i \in 1 .. Len(connections')
                PROVE  Served(i, connections[i])'
    BY DEF ServedInv
  <2>1. Pending(i)' <=> Pending(i)
    BY <1>0 DEF Pending
  <2>2. CASE i \in 1 .. n
    <3>1. /\ connections[i] \in Peers \ {p} /\ Served(i, connections[i])
          /\ connections'[i] = connections[i]
      BY <1>1, <1>2, <2>2, ListedArePeers DEF ServedInv
    <3>. QED
      BY <1>0, <1>3, <2>1, <3>1 DEF Served, Live, Last
  <2>3. CASE i = n + 1
    <3>1. connections'[i] = p /\ ~(i <= end) /\ text \in Nat
      BY <1>1, <2>3 DEF TypeOK, IterInv
    <3>2. ~Pending(i)'
      BY <2>1, <3>1 DEF Pending
    <3>3. ASSUME Len(sent[p]) = 1
          PROVE  sent[p] # <<>> /\ Len(sent[p]) + text = text + 1
      <4>1. sent[p] # <<>>
        BY <3>3
      <4>2. 1 + text = text + 1
        BY <3>1
      <4>. QED
        BY <3>3, <4>1, <4>2
    <3>. QED
      BY <1>0, <1>2, <1>3, <3>1, <3>2, <3>3 DEF Served, Live
  <2>. QED
    BY <1>1, <2>2, <2>3
<1>. QED
  BY <1>0, <1>4, <1>5, <1>6, <1>7, <1>8, RunningIsFine

\* The io_service thread closes sockets under the main thread, but none of a
\* client that is still there unless it is of version 10.
LEMMA HandleReadKeeps ==
  ASSUME IInv, NEW p \in Peers, HandleRead(p) \/ HandleReadError(p)
  PROVE  IInv'
<1>. USE DEF IInv
<1>0. /\ Running /\ ioPc = "run"
      /\ UNCHANGED <<peer, kind, sent, connections, listedAt, current, main,
                     dangling>>
      /\ Con' = Con
  BY DEF HandleRead, HandleReadError, clients, vector, main, Con
<1>1. \/ UNCHANGED <<socket, ioPc, ioPeer>>
      \/ /\ socket' = [socket EXCEPT ![p] = "closed"]
         /\ kind[p] = "ver10" \/ peer[p] = "gone"
         /\ \/ ioPc' = "closed" /\ ioPeer' = p
            \/ UNCHANGED <<ioPc, ioPeer>>
      \/ ioPc' = "parseFrame" /\ ioPeer' = p /\ UNCHANGED socket
  BY DEF HandleRead, HandleReadError, ClosedInv
<1>2. UNCHANGED process \/ (process' = "crashed" /\ ioPc' = "parseFrame")
  BY DEF HandleRead, HandleReadError
<1>3. /\ socket' \in [Peers -> {"none", "open", "closed"}]
      /\ \A q \in Peers : socket'[q] = socket[q]
           \/ (socket'[q] = "closed" /\ q = p)
      /\ ioPc' = "closed" => ioPeer' = p /\ socket'[p] = "closed"
      /\ socket'[p] = "closed" =>
           socket[p] = "closed" \/ kind[p] = "ver10" \/ peer[p] = "gone"
  BY <1>0, <1>1 DEF TypeOK
<1>4. TypeOK'
  BY <1>0, <1>1, <1>2, <1>3 DEF TypeOK, main
<1>5. IterInv'
  BY <1>0 DEF IterInv, main
<1>6. ListInv'
  BY <1>0, <1>3, ListedArePeers DEF ListInv
<1>7. IoInv'
  BY <1>0, <1>1, <1>3 DEF IoInv
<1>8. ClosedInv'
  <2>1. peer[p] = "away" => UNCHANGED socket
    BY <1>1 DEF HandleRead, HandleReadError, ClosedInv
  <2>. QED
    BY <1>0, <1>3, <2>1 DEF ClosedInv
<1>9. ServedInv'
  BY <1>0, <1>3, ListedArePeers, ServedKept DEF Live
<1>10. OnlyKnownStops'
  <2>1. CASE UNCHANGED process
    BY <1>0, <2>1, RunningIsFine
  <2>2. CASE process' = "crashed" /\ ioPc' = "parseFrame"
    BY <2>2 DEF OnlyKnownStops
  <2>. QED
    BY <1>2, <2>1, <2>2
<1>. QED
  BY <1>4, <1>5, <1>6, <1>7, <1>8, <1>9, <1>10

\* The state of a connection whose socket is closed.
LEMMA SetDisconnectedKeeps ==
  ASSUME IInv, SetDisconnected
  PROVE  IInv'
<1>. USE DEF IInv
<1>0. /\ Running /\ ioPc = "closed" /\ ioPc' = "run" /\ ioPeer \in Peers
      /\ socket[ioPeer] = "closed"
      /\ current' = [current EXCEPT ![ioPeer] = "DISCONNECTIED"]
      /\ UNCHANGED <<process, peer, kind, sent, socket, connections, listedAt,
                     main, dangling>>
      /\ Con' = Con
  BY DEF SetDisconnected, clients, vector, main, Con, TypeOK, IoInv
<1>1. TypeOK'
  BY <1>0 DEF TypeOK, main
<1>2. IterInv' /\ ListInv' /\ IoInv'
  BY <1>0 DEF IterInv, ListInv, IoInv, main
<1>3. ClosedInv'
  BY <1>0 DEF TypeOK, ClosedInv
<1>4. ServedInv'
  <2>1. \A q \in Peers : Live(q) => current'[q] = current[q]
    BY <1>0 DEF TypeOK, Live
  <2>. QED
    BY <1>0, <2>1, ListedArePeers, ServedKept DEF Live
<1>. QED
  BY <1>0, <1>1, <1>2, <1>3, <1>4, RunningIsFine

\* Every step of the io_service thread keeps the invariant.
LEMMA IoThreadKeeps ==
  ASSUME IInv, IoThread
  PROVE  IInv'
  BY HandleAcceptKeeps, HandleAcceptErrorKeeps, CreateConnectionNullKeeps,
     CreateConnectionKeeps, PushBackKeeps, HandleReadKeeps,
     SetDisconnectedKeeps DEF IoThread

-----------------------------------------------------------------------------
(* The main thread.                                                        *)

\* The client that is served is listed once, and not about to be listed.
LEMMA ServedClient ==
  ASSUME IInv, it < end
  PROVE  /\ it + 1 \in 1 .. Len(connections) /\ it + 1 <= end
         /\ Con \in Peers /\ Con = connections[it + 1]
         /\ \A i \in 1 .. Len(connections) :
              i # it + 1 => connections[i] \in Peers \ {Con}
         /\ ioPc \in {"createConnection", "listen"} => ioPeer # Con
         /\ socket[Con] # "none" /\ peer[Con] # "away"
         /\ kind[Con] \in {"ver10", "draft76"}
         /\ Served(it + 1, Con)
<1>. USE DEF IInv
<1>1. /\ it + 1 \in 1 .. Len(connections) /\ it + 1 <= end
      /\ Con \in Peers /\ Con = connections[it + 1]
  BY ConFacts DEF TypeOK, IterInv
<1>2. \A i \in 1 .. Len(connections) :
        i # it + 1 => connections[i] \in Peers \ {Con}
  BY <1>1, ListedArePeers DEF ListInv
<1>3. ioPc \in {"createConnection", "listen"} => ioPeer # Con
  BY <1>1 DEF IoInv
<1>4. /\ socket[Con] # "none" /\ peer[Con] # "away"
      /\ kind[Con] \in {"ver10", "draft76"} /\ Served(it + 1, Con)
  BY <1>1 DEF ListInv, ClosedInv, ServedInv
<1>. QED
  BY <1>1, <1>2, <1>3, <1>4

\* Before the message is begun nobody is to get it.
LEMMA BroadcastTextKeeps ==
  ASSUME IInv, BroadcastText
  PROVE  IInv'
<1>. USE DEF IInv
<1>0. /\ Running /\ mainPc = "idle" /\ mainPc' = "begin"
      /\ it' = 0 /\ end' = 0
      /\ UNCHANGED <<process, peer, kind, sent, ioPc, ioPeer, connections,
                     listedAt, socket, current, text>>
  BY DEF BroadcastText, clients, io, vector
<1>1. Len(connections) \in Nat
  BY DEF TypeOK
<1>2. TypeOK' /\ IterInv'
  BY <1>0, <1>1 DEF TypeOK, IterInv
<1>3. ListInv' /\ IoInv' /\ ClosedInv'
  BY <1>0 DEF ListInv, IoInv, ClosedInv, Live
<1>4. ServedInv'
  <2>. SUFFICES ASSUME NEW i \in 1 .. Len(connections)
                PROVE  Served(i, connections[i])'
    BY <1>0 DEF ServedInv
  <2>1. ~Pending(i) /\ ~Pending(i)'
    BY <1>0, <1>1 DEF Pending
  <2>2. Served(i, connections[i]) /\ connections[i] \in Peers
    BY ListedArePeers DEF ServedInv
  <2>. QED
    BY <1>0, <1>1, <2>1, <2>2 DEF Served, Live
<1>. QED
  BY <1>0, <1>2, <1>3, <1>4, RunningIsFine

\* When a message is begun everybody listed is still to get it.
LEMMA ForeachRangeKeeps ==
  ASSUME IInv, ForeachRange
  PROVE  IInv'
<1>. USE DEF IInv
<1>0. /\ Running /\ mainPc = "begin" /\ mainPc' = "foreach"
      /\ text' = text + 1 /\ it' = it /\ end' = Len(connections)
      /\ it = 0 /\ end = 0
      /\ UNCHANGED <<process, peer, kind, sent, ioPc, ioPeer, connections,
                     listedAt, socket, current>>
  BY DEF ForeachRange, clients, io, vector, IterInv, TypeOK
<1>1. Len(connections) \in Nat /\ text \in Nat
  BY DEF TypeOK
<1>2. TypeOK' /\ IterInv'
  BY <1>0, <1>1 DEF TypeOK, IterInv
<1>3. ListInv' /\ IoInv' /\ ClosedInv'
  BY <1>0 DEF ListInv, IoInv, ClosedInv, Live
<1>4. ServedInv'
  <2>. SUFFICES ASSUME NEW i \in 1 .. Len(connections)
                PROVE  Served(i, connections[i])'
    BY <1>0 DEF ServedInv
  <2>1. ~Pending(i) /\ Pending(i)'
    BY <1>0, <1>1 DEF Pending
  <2>2. Served(i, connections[i]) /\ connections[i] \in Peers
    BY ListedArePeers DEF ServedInv
  <2>3. Len(sent[connections[i]]) \in Nat /\ listedAt[connections[i]] \in Nat
    BY <2>2 DEF TypeOK
  <2>. QED
    BY <1>0, <1>1, <2>1, <2>2, <2>3 DEF Served, Live
<1>. QED
  BY <1>0, <1>2, <1>3, <1>4, RunningIsFine

\* Two iterators into different storage end in a crash.
LEMMA ForeachMixedKeeps ==
  ASSUME IInv, ForeachMixed
  PROVE  IInv'
<1>. USE DEF IInv
<1>0. /\ dangling /\ process' = "crashed"
      /\ UNCHANGED <<peer, kind, sent, ioPc, ioPeer, connections, listedAt,
                     socket, current, main, dangling>>
      /\ Con' = Con
  BY DEF ForeachMixed, clients, io, vector, main, Con
<1>1. TypeOK' /\ IterInv'
  BY <1>0 DEF TypeOK, IterInv, main
<1>2. ListInv' /\ IoInv' /\ ClosedInv'
  BY <1>0 DEF ListInv, IoInv, ClosedInv, Live
<1>3. ServedInv'
  BY <1>0, ServedKept DEF Live
<1>4. OnlyKnownStops'
  BY <1>0 DEF OnlyKnownStops
<1>. QED
  BY <1>1, <1>2, <1>3, <1>4

\* Reading an iterator into storage that was given back may crash.
LEMMA ForeachFreedKeeps ==
  ASSUME IInv, ForeachFreed
  PROVE  IInv'
<1>. USE DEF IInv
<1>0. /\ dangling /\ process' = "crashed"
      /\ UNCHANGED <<peer, kind, sent, ioPc, ioPeer, connections, listedAt,
                     socket, current, main, dangling>>
      /\ Con' = Con
  BY DEF ForeachFreed, clients, io, vector, main, Con
<1>1. TypeOK' /\ IterInv'
  BY <1>0 DEF TypeOK, IterInv, main
<1>2. ListInv' /\ IoInv' /\ ClosedInv'
  BY <1>0 DEF ListInv, IoInv, ClosedInv, Live
<1>3. ServedInv'
  BY <1>0, ServedKept DEF Live
<1>4. OnlyKnownStops'
  BY <1>0 DEF OnlyKnownStops
<1>. QED
  BY <1>1, <1>2, <1>3, <1>4

\* The loop skips only who is no longer there.
LEMMA ForeachKeeps ==
  ASSUME IInv, Foreach
  PROVE  IInv'
<1>. USE DEF IInv
<1>0. /\ Running /\ mainPc = "foreach" /\ it < end
      /\ UNCHANGED <<process, peer, kind, sent, ioPc, ioPeer, connections,
                     listedAt, socket, current, text, end>>
      /\ \/ mainPc' = "sendText" /\ it' = it /\ Con' = Con
         \/ /\ current[Con] # "CONNECTED"
            /\ mainPc' = "foreach" /\ it' = it + 1
  BY DEF Foreach, clients, io, vector, Con
<1>1. it \in Nat /\ end \in Nat /\ it + 1 <= end
  BY <1>0 DEF TypeOK
<1>2. TypeOK' /\ IterInv'
  BY <1>0, <1>1 DEF TypeOK, IterInv
<1>3. ListInv' /\ IoInv' /\ ClosedInv'
  BY <1>0 DEF ListInv, IoInv, ClosedInv, Live
<1>4. ServedInv'
  <2>. SUFFICES ASSUME NEW i \in 1 .. Len(connections)
                PROVE  Served(i, connections[i])'
    BY <1>0 DEF ServedInv
  <2>1. Served(i, connections[i])
    BY DEF ServedInv
  <2>2. CASE mainPc' = "sendText" /\ it' = it
    <3>1. Pending(i)' <=> Pending(i)
      BY <1>0, <2>2 DEF Pending
    <3>. QED
      BY <1>0, <2>1, <2>2, <3>1 DEF Served, Live, Last
  <2>3. CASE /\ current[Con] # "CONNECTED"
             /\ mainPc' = "foreach" /\ it' = it + 1
    <3>1. CASE i = it + 1
      <4>1. connections[i] = Con /\ ~Live(Con)
        BY <1>0, <2>1, <2>3, <3>1 DEF Con, Served
      <4>. QED
        BY <1>0, <4>1 DEF Served, Live
    <3>2. CASE i # it + 1
      <4>1. Pending(i)' <=> Pending(i)
        BY <1>0, <1>1, <2>3, <3>2 DEF Pending
      <4>. QED
        BY <1>0, <2>1, <2>3, <4>1 DEF Served, Live, Last
    <3>. QED
      BY <3>1, <3>2
  <2>. QED
    BY <1>0, <2>2, <2>3
<1>. QED
  BY <1>0, <1>2, <1>3, <1>4, RunningIsFine

\* At its end nobody is left.
LEMMA ForeachEndKeeps ==
  ASSUME IInv, ForeachEnd
  PROVE  IInv'
<1>. USE DEF IInv
<1>0. /\ Running /\ mainPc = "foreach" /\ it = end /\ mainPc' = "idle"
      /\ it' = 0 /\ end' = 0
      /\ UNCHANGED <<process, peer, kind, sent, ioPc, ioPeer, connections,
                     listedAt, socket, current, text>>
  BY DEF ForeachEnd, clients, io, vector
<1>1. TypeOK' /\ IterInv'
  BY <1>0, ListedArePeers DEF TypeOK, IterInv
<1>2. ListInv' /\ IoInv' /\ ClosedInv'
  BY <1>0 DEF ListInv, IoInv, ClosedInv, Live
<1>3. ServedInv'
  <2>. SUFFICES ASSUME NEW i \in 1 .. Len(connections)
                PROVE  Served(i, connections[i])'
    BY <1>0 DEF ServedInv
  <2>1. Served(i, connections[i]) /\ ~Pending(i) /\ ~Pending(i)'
    BY <1>0 DEF TypeOK, ServedInv, Pending
  <2>. QED
    BY <1>0, <2>1 DEF Served, Live
<1>. QED
  BY <1>0, <1>1, <1>2, <1>3, RunningIsFine

\* sendText marks a connection of version 10.
LEMMA SendTextKeeps ==
  ASSUME IInv, SendText
  PROVE  IInv'
<1>. USE DEF IInv
<1>0. /\ Running /\ mainPc = "sendText" /\ mainPc' = "write" /\ it < end
      /\ UNCHANGED <<process, peer, kind, sent, ioPc, ioPeer, connections,
                     listedAt, socket, text, it, end>>
      /\ Con' = Con
      /\ \/ /\ kind[Con] = "ver10"
            /\ current' = [current EXCEPT ![Con] = "SENDING"]
         \/ UNCHANGED current
  BY DEF SendText, clients, io, vector, Con, IterInv
<1>1. /\ \A q \in Peers \ {Con} : current'[q] = current[q]
      /\ current'[Con] = current[Con]
           \/ (current'[Con] = "SENDING" /\ kind[Con] = "ver10")
  BY <1>0 DEF TypeOK
<1>2. TypeOK' /\ IterInv'
  BY <1>0 DEF TypeOK, IterInv
<1>3. ListInv' /\ IoInv' /\ ClosedInv'
  <2>1. ListInv'
    BY <1>0 DEF ListInv
  <2>2. IoInv'
    BY <1>0, <1>1, ServedClient DEF TypeOK, IoInv, Live
  <2>3. ClosedInv'
    BY <1>0, <1>1, ServedClient DEF ClosedInv
  <2>. QED
    BY <2>1, <2>2, <2>3
<1>4. ServedInv'
  <2>. SUFFICES ASSUME NEW i \in 1 .. Len(connections)
                PROVE  Served(i, connections[i])'
    BY <1>0 DEF ServedInv
  <2>1. Served(i, connections[i]) /\ (Pending(i)' <=> Pending(i))
    BY <1>0 DEF ServedInv, Pending
  <2>2. CASE i = it + 1
    BY <1>0, <1>1, <2>1, <2>2, ServedClient DEF Served, Live, Last
  <2>3. CASE i # it + 1
    BY <1>0, <1>1, <2>1, <2>3, ServedClient DEF Served, Live, Last
  <2>. QED
    BY <2>2, <2>3
<1>. QED
  BY <1>0, <1>2, <1>3, <1>4, RunningIsFine

\* The next number at the end of a stream.
LEMMA AppendedLast ==
  ASSUME NEW s \in Seq(Nat), NEW e \in Nat, NEW k \in Nat, Len(s) + k = e
  PROVE  /\ Append(s, e) # <<>> /\ Last(Append(s, e)) = e
         /\ Len(Append(s, e)) + k = e + 1
<1>1. /\ Len(s) \in Nat /\ Len(Append(s, e)) = Len(s) + 1
      /\ Append(s, e)[Len(s) + 1] = e /\ Append(s, e) # <<>>
  OBVIOUS
<1>2. Last(Append(s, e)) = e
  BY <1>1 DEF Last
<1>3. ASSUME NEW n \in Nat, n + k = e
      PROVE  (n + 1) + k = e + 1
  BY <1>3
<1>. QED
  BY <1>1, <1>2, <1>3

\* A client that is still there gets the message, and has it last.
LEMMA WriteSomeKeeps ==
  ASSUME IInv, WriteSome
  PROVE  IInv'
<1>. USE DEF IInv
<1>0. /\ Running /\ mainPc = "write" /\ mainPc' = "written" /\ it < end
      /\ UNCHANGED <<process, peer, kind, ioPc, ioPeer, connections,
                     listedAt, socket, current, text, it, end>>
      /\ Con' = Con
      /\ \/ sent' = [sent EXCEPT ![Con] = Append(@, text)]
         \/ peer[Con] = "gone" /\ UNCHANGED sent
  BY DEF WriteSome, Put, clients, io, vector, Con, IterInv
<1>1. /\ sent[Con] \in Seq(Nat) /\ text \in Nat /\ listedAt[Con] \in Nat
      /\ it \in Nat /\ end \in Nat
  BY <1>0, ServedClient DEF TypeOK
<1>2. /\ \A q \in Peers \ {Con} : sent'[q] = sent[q]
      /\ peer[Con] = "gone" \/ sent'[Con] = Append(sent[Con], text)
      /\ sent' \in [Peers -> Seq(Nat)]
  <2>1. Append(sent[Con], text) \in Seq(Nat)
    BY <1>1
  <2>2. Con \in Peers /\ sent \in [Peers -> Seq(Nat)]
    BY <1>0, ServedClient DEF TypeOK
  <2>. QED
    BY <1>0, <2>1, <2>2
<1>3. TypeOK' /\ IterInv'
  BY <1>0, <1>2 DEF TypeOK, IterInv
<1>4. ListInv' /\ IoInv' /\ ClosedInv'
  <2>1. ListInv'
    BY <1>0, <1>2, ServedClient DEF ListInv
  <2>2. IoInv'
    BY <1>0, <1>2, ServedClient DEF TypeOK, IoInv, Live
  <2>3. ClosedInv'
    BY <1>0 DEF ClosedInv
  <2>. QED
    BY <2>1, <2>2, <2>3
<1>5. ServedInv'
  <2>. SUFFICES ASSUME NEW i \in 1 .. Len(connections)
                PROVE  Served(i, connections[i])'
    BY <1>0 DEF ServedInv
  <2>1. Served(i, connections[i])
    BY DEF ServedInv
  <2>2. CASE i = it + 1
    <3>1. connections[i] = Con /\ i <= end /\ Pending(i) /\ ~Pending(i)'
      BY <1>0, <1>1, <2>2, ServedClient DEF Pending
    <3>2. ASSUME Live(Con)
          PROVE  /\ sent'[Con] # <<>>
                 /\ Len(sent'[Con]) + listedAt[Con] = text + 1
                 /\ Last(sent'[Con]) = text
      <4>1. Len(sent[Con]) + listedAt[Con] = text
        BY <2>1, <3>1, <3>2 DEF Served
      <4>2. sent'[Con] = Append(sent[Con], text)
        BY <1>2, <3>2 DEF Live
      <4>3. /\ Append(sent[Con], text) # <<>>
            /\ Last(Append(sent[Con], text)) = text
            /\ Len(Append(sent[Con], text)) + listedAt[Con] = text + 1
        BY <1>1, <4>1, AppendedLast
      <4>. QED
        BY <4>2, <4>3
    <3>. QED
      BY <1>0, <2>1, <3>1, <3>2 DEF Served, Live
  <2>3. CASE i # it + 1
    <3>1. Pending(i)' <=> Pending(i)
      BY <1>0, <1>1, <2>3 DEF Pending
    <3>. QED
      BY <1>0, <1>2, <2>1, <2>3, <3>1, ServedClient DEF Served, Live, Last
  <2>. QED
    BY <2>2, <2>3
<1>. QED
  BY <1>0, <1>3, <1>4, <1>5, RunningIsFine

\* A write fails only to a client that is gone or whose socket is closed; it
\* stops the process only if that is one of draft 76, which is gone then.
LEMMA WriteSomeErrorKeeps ==
  ASSUME IInv, WriteSomeError
  PROVE  IInv'
<1>. USE DEF IInv
<1>0. /\ Running /\ mainPc = "write" /\ it < end
      /\ socket[Con] = "closed" \/ peer[Con] = "gone"
      /\ UNCHANGED <<peer, kind, sent, ioPc, ioPeer, connections, listedAt,
                     socket, current, text, it, end, dangling>>
      /\ Con' = Con
      /\ \/ /\ kind[Con] = "ver10" /\ mainPc' = "failed"
            /\ process' = process
         \/ /\ kind[Con] = "draft76" /\ process' = "exited"
            /\ mainPc' = "write"
  BY DEF WriteSomeError, clients, io, vector, Con, IterInv
<1>1. TypeOK' /\ IterInv'
  BY <1>0 DEF TypeOK, IterInv
<1>2. ListInv' /\ IoInv' /\ ClosedInv'
  BY <1>0 DEF ListInv, IoInv, ClosedInv, Live
<1>3. ServedInv'
  <2>. SUFFICES ASSUME NEW i \in 1 .. Len(connections)
                PROVE  Served(i, connections[i])'
    BY <1>0 DEF ServedInv
  <2>1. Served(i, connections[i]) /\ (Pending(i)' <=> Pending(i))
    BY <1>0 DEF ServedInv, Pending
  <2>. QED
    BY <1>0, <2>1 DEF Served, Live, Last
<1>4. OnlyKnownStops'
  <2>1. CASE process' = process
    BY <1>0, <2>1, RunningIsFine
  <2>2. CASE kind[Con] = "draft76" /\ process' = "exited" /\ mainPc' = "write"
    <3>1. peer[Con] = "gone"
      BY <1>0, <2>2, ServedClient DEF ClosedInv
    <3>. QED
      BY <1>0, <2>2, <3>1 DEF OnlyKnownStops
  <2>. QED
    BY <1>0, <2>1, <2>2
<1>. QED
  BY <1>1, <1>2, <1>3, <1>4

\* Written: the mark of a connection of version 10 is taken away.
LEMMA WrittenKeeps ==
  ASSUME IInv, Written
  PROVE  IInv'
<1>. USE DEF IInv
<1>0. /\ Running /\ mainPc = "written" /\ mainPc' = "foreach" /\ it < end
      /\ it' = it + 1
      /\ UNCHANGED <<process, peer, kind, sent, ioPc, ioPeer, connections,
                     listedAt, socket, text, end>>
      /\ current' = IF kind[Con] = "ver10"
                      THEN [current EXCEPT ![Con] = "CONNECTED"] ELSE current
  BY DEF Written, clients, io, vector, IterInv
<1>1. /\ \A q \in Peers \ {Con} : current'[q] = current[q]
      /\ current'[Con] = IF kind[Con] = "ver10" THEN "CONNECTED"
                                                ELSE current[Con]
      /\ current' \in
           [Peers -> {"none", "CONNECTED", "SENDING", "DISCONNECTIED"}]
      /\ it \in Nat /\ end \in Nat /\ it + 1 <= end
  BY <1>0, ServedClient DEF TypeOK
<1>2. TypeOK' /\ IterInv'
  BY <1>0, <1>1 DEF TypeOK, IterInv
<1>3. ListInv' /\ IoInv' /\ ClosedInv'
  <2>1. ListInv'
    BY <1>0 DEF ListInv
  <2>2. IoInv'
    BY <1>0, <1>1, ServedClient DEF TypeOK, IoInv, Live
  <2>3. ClosedInv'
    BY <1>0, <1>1, ServedClient DEF ClosedInv
  <2>. QED
    BY <2>1, <2>2, <2>3
<1>4. ServedInv'
  <2>. SUFFICES ASSUME NEW i \in 1 .. Len(connections)
                PROVE  Served(i, connections[i])'
    BY <1>0 DEF ServedInv
  <2>1. Served(i, connections[i]) /\ (Pending(i)' <=> Pending(i))
    BY <1>0, <1>1 DEF ServedInv, Pending
  <2>2. CASE i = it + 1
    BY <1>0, <1>1, <2>1, <2>2, ServedClient DEF Served, Live, Last
  <2>3. CASE i # it + 1
    BY <1>0, <1>1, <2>1, <2>3, ServedClient DEF Served, Live, Last
  <2>. QED
    BY <2>2, <2>3
<1>. QED
  BY <1>0, <1>2, <1>3, <1>4, RunningIsFine

\* WriteFailed gives a client up that is not there any more.
LEMMA WriteFailedKeeps ==
  ASSUME IInv, WriteFailed
  PROVE  IInv'
<1>. USE DEF IInv
<1>0. /\ Running /\ mainPc = "failed" /\ mainPc' = "foreach" /\ it < end
      /\ it' = it + 1 /\ kind[Con] = "ver10"
      /\ UNCHANGED <<process, peer, kind, sent, ioPc, ioPeer, connections,
                     listedAt, text, end>>
      /\ current' = [current EXCEPT ![Con] = "DISCONNECTIED"]
      /\ socket' = [socket EXCEPT ![Con] = "closed"]
  BY DEF WriteFailed, clients, io, vector, IterInv
<1>1. /\ \A q \in Peers \ {Con} :
           current'[q] = current[q] /\ socket'[q] = socket[q]
      /\ current'[Con] = "DISCONNECTIED" /\ socket'[Con] = "closed"
      /\ current' \in
           [Peers -> {"none", "CONNECTED", "SENDING", "DISCONNECTIED"}]
      /\ socket' \in [Peers -> {"none", "open", "closed"}]
      /\ it \in Nat /\ end \in Nat /\ it + 1 <= end
  BY <1>0, ServedClient DEF TypeOK
<1>2. TypeOK' /\ IterInv'
  BY <1>0, <1>1 DEF TypeOK, IterInv
<1>3. ListInv' /\ IoInv' /\ ClosedInv'
  <2>1. ListInv'
    BY <1>0, <1>1, ServedClient DEF ListInv
  <2>2. IoInv'
    BY <1>0, <1>1, ServedClient DEF TypeOK, IoInv, Live
  <2>3. ClosedInv'
    BY <1>0, <1>1, ServedClient DEF ClosedInv
  <2>. QED
    BY <2>1, <2>2, <2>3
<1>4. ServedInv'
  <2>. SUFFICES ASSUME NEW i \in 1 .. Len(connections)
                PROVE  Served(i, connections[i])'
    BY <1>0 DEF ServedInv
  <2>1. CASE i = it + 1
    BY <1>0, <1>1, <2>1, ServedClient DEF Served, Live
  <2>2. CASE i # it + 1
    <3>1. Served(i, connections[i]) /\ (Pending(i)' <=> Pending(i))
      BY <1>0, <1>1, <2>2 DEF ServedInv, Pending
    <3>. QED
      BY <1>0, <1>1, <2>2, <3>1, ServedClient DEF Served, Live, Last
  <2>. QED
    BY <2>1, <2>2
<1>. QED
  BY <1>0, <1>2, <1>3, <1>4, RunningIsFine

\* Every step of the main thread keeps the invariant.
LEMMA MainThreadKeeps ==
  ASSUME IInv, MainThread
  PROVE  IInv'
  BY BroadcastTextKeeps, ForeachRangeKeeps, ForeachMixedKeeps, ForeachKeeps,
     ForeachFreedKeeps, ForeachEndKeeps, SendTextKeeps, WriteSomeKeeps,
     WriteSomeErrorKeeps, WrittenKeeps, WriteFailedKeeps DEF MainThread

-----------------------------------------------------------------------------
(* The invariant, and why the process stops.                               *)

LEMMA InitEstablishes == Init => IInv
<1>. SUFFICES ASSUME Init
              PROVE  IInv
  OBVIOUS
<1>1. TypeOK
  BY DEF Init, TypeOK
<1>2. Len(connections) = 0
  BY DEF Init
<1>3. IterInv /\ ListInv /\ IoInv /\ ClosedInv /\ ServedInv
  BY <1>2 DEF Init, IterInv, ListInv, IoInv, ClosedInv, ServedInv
<1>4. OnlyKnownStops
  BY DEF Init, OnlyKnownStops
<1>. QED
  BY <1>1, <1>3, <1>4 DEF IInv

LEMMA StutterKeeps ==
  ASSUME IInv, UNCHANGED vars
  PROVE  IInv'
<1>. USE DEF IInv
<1>0. /\ UNCHANGED <<process, peer, kind, sent, ioPc, ioPeer, connections,
                     listedAt, socket, current, main, dangling>>
      /\ UNCHANGED <<mainPc, text, it, end>>
      /\ Con' = Con
  BY DEF vars, clients, io, vector, main, Con
<1>1. TypeOK' /\ IterInv' /\ ListInv'
  BY <1>0 DEF TypeOK, IterInv, ListInv
<1>2. IoInv' /\ ClosedInv'
  BY <1>0 DEF IoInv, ClosedInv, Live
<1>3. ServedInv'
  BY <1>0, ServedKept DEF Live
<1>4. OnlyKnownStops'
  BY <1>0 DEF OnlyKnownStops
<1>. QED
  BY <1>1, <1>2, <1>3, <1>4

LEMMA NextKeeps == IInv /\ [Next]_vars => IInv'
  BY ClientKeeps, IoThreadKeeps, MainThreadKeeps, StutterKeeps DEF Next

\* Both threads keep the vector, the states and the sockets in accord, though
\* no mutex orders them.
THEOREM Invariance == Spec => []IInv
  BY InitEstablishes, NextKeeps, PTL DEF Spec

\* However the threads and the clients interleave, the process stops only over
\* an accept or a handshake that fails, over a client of draft 76 that has
\* left, over push_back under a broadcast or over a frame of version 10: never
\* because a client of version 10 leaves.
THEOREM StopsAreKnown == Spec => []OnlyKnownStops
<1>1. IInv => OnlyKnownStops
  BY DEF IInv
<1>. QED
  BY <1>1, Invariance, PTL

-----------------------------------------------------------------------------
(* Nobody is missed.                                                       *)

\* broadcastText returns at the end of its loop only.
LEMMA OnlyForeachEndReturns ==
  ASSUME [Next]_vars, mainPc # "idle", mainPc' = "idle"
  PROVE  ForeachEnd
<1>1. ASSUME NEW p \in Peers, Client(p)
      PROVE  mainPc' = mainPc
  BY <1>1 DEF Client, Connect, Ask, ReadMessage, Leave, main
<1>2. ASSUME IoThread
      PROVE  mainPc' = mainPc
  BY <1>2 DEF IoThread, HandleAccept, HandleAcceptError, HandleRead,
     HandleReadError, CreateConnection, CreateConnectionNull, PushBack,
     SetDisconnected, main
<1>3. CASE MainThread
  BY <1>3 DEF MainThread, BroadcastText, ForeachRange, ForeachMixed, Foreach,
     ForeachFreed, SendText, WriteSome, WriteSomeError, Written, WriteFailed,
     main
<1>4. ASSUME UNCHANGED vars
      PROVE  mainPc' = mainPc
  BY <1>4 DEF vars, main
<1>. QED
  BY <1>1, <1>2, <1>3, <1>4 DEF Next

\* When broadcastText returns, every client that was listed when it began and
\* is still there has the message.
THEOREM NobodyIsMissed == Spec => NobodyMissed
<1>1. ASSUME IInv, [Next]_vars, mainPc # "idle", mainPc' = "idle",
             NEW i \in 1 .. end,
             peer[connections[i]] = "connected",
             socket[connections[i]] = "open"
      PROVE  Last(sent[connections[i]]) = text
  <2>1. mainPc = "foreach" /\ it = end /\ it \in Nat
    BY <1>1, OnlyForeachEndReturns DEF IInv, TypeOK, ForeachEnd
  <2>2. i \in 1 .. Len(connections) /\ ~Pending(i)
    BY <1>1, <2>1, ListedArePeers DEF IInv, IterInv, Pending
  <2>3. Served(i, connections[i])
    BY <1>1, <2>2 DEF IInv, ServedInv
  <2>. QED
    BY <1>1, <2>1, <2>2, <2>3 DEF Served, Live
<1>. DEFINE Reached ==
       \A i \in 1 .. end :
         peer[connections[i]] = "connected" /\ socket[connections[i]] = "open"
           => Last(sent[connections[i]]) = text
<1>2. IInv /\ [Next]_vars =>
        [mainPc # "idle" /\ mainPc' = "idle" => Reached]_vars
  BY <1>1
<1>. HIDE DEF Reached
<1>3. Spec => [][mainPc # "idle" /\ mainPc' = "idle" => Reached]_vars
  BY <1>2, Invariance, PTL DEF Spec
<1>. QED
  BY <1>3 DEF NobodyMissed, Reached

-----------------------------------------------------------------------------
(* The threads implement OrderedBroadcast.                                 *)

\* The subscribers are the clients in the vector.
LEMMA ListedIs ==
  Listed = {connections[i] : i \in DOMAIN connections}
  BY DEF Listed, Range

LEMMA ListedKept ==
  ASSUME UNCHANGED connections
  PROVE  UNCHANGED Listed
  BY DEF Listed, Range

LEMMA ListedWhere ==
  ASSUME TypeOK, NEW p
  PROVE  p \in Listed <=>
           \E i \in 1 .. Len(connections) : connections[i] = p
<1>1. DOMAIN connections = 1 .. Len(connections)
  BY DEF TypeOK
<1>. QED
  BY <1>1, ListedIs

\* What changes neither the vector nor what was sent is no step of the
\* broadcast, unless it begins a message.
LEMMA UnseenStutters ==
  ASSUME UNCHANGED <<text, connections, listedAt, sent>>
  PROVE  UNCHANGED OB!vars
<1>1. UNCHANGED Listed
  BY ListedKept
<1>. QED
  BY <1>1 DEF OB!vars

\* The clients' own steps are not seen.
LEMMA ClientUnseen ==
  ASSUME NEW p \in Peers, Client(p)
  PROVE  UNCHANGED OB!vars
<1>1. UNCHANGED <<text, connections, listedAt, sent>>
  BY DEF Client, Connect, Ask, ReadMessage, Leave, io, vector, main
<1>. QED
  BY <1>1, UnseenStutters

\* The constructor's response is the handshake.
LEMMA CreateConnectionSeen ==
  ASSUME IInv, CreateConnection
  PROVE  OB!Next \/ UNCHANGED OB!vars
<1>. USE DEF IInv
<1>1. /\ ioPeer \in Peers /\ sent[ioPeer] = <<>>
      /\ \A i \in 1 .. Len(connections) : connections[i] # ioPeer
      /\ UNCHANGED <<text, connections, listedAt>>
  BY DEF CreateConnection, TypeOK, IoInv, vector, main
<1>2. CASE UNCHANGED sent
  BY <1>1, <1>2, UnseenStutters
<1>3. CASE sent' = Put(ioPeer, 0)
  <2>1. Append(sent[ioPeer], 0) = <<0>>
    BY <1>1
  <2>2. sent' = [sent EXCEPT ![ioPeer] = <<0>>]
    BY <1>3, <2>1 DEF Put
  <2>3. ioPeer \notin Listed /\ UNCHANGED Listed
    BY <1>1, ListedKept, ListedWhere
  <2>4. OB!Handshake(ioPeer)
    BY <1>1, <2>2, <2>3 DEF OB!Handshake
  <2>. QED
    BY <1>1, <2>4 DEF OB!Next
<1>. QED
  BY <1>2, <1>3 DEF CreateConnection

\* push_back subscribes the client, from the next message on.
LEMMA PushBackSeen ==
  ASSUME IInv, PushBack
  PROVE  OB!Next
<1>. USE DEF IInv
<1>. DEFINE n == Len(connections)
<1>1. /\ ioPeer \in Peers /\ n \in Nat
      /\ \A i \in 1 .. n : connections[i] # ioPeer
      /\ connections' = Append(connections, ioPeer)
      /\ listedAt' = [listedAt EXCEPT ![ioPeer] = text]
      /\ UNCHANGED <<text, sent>>
  BY ListedArePeers DEF PushBack, TypeOK, IoInv, main
<1>2. TypeOK' /\ Len(connections') = n + 1
      /\ connections'[n + 1] = ioPeer
      /\ \A i \in 1 .. n : connections'[i] = connections[i]
  BY <1>1, PushBackKeeps DEF TypeOK
<1>3. ioPeer \notin Listed
  BY <1>1, ListedWhere
<1>4. Listed' = Listed \cup {ioPeer}
  <2>1. ASSUME NEW p
        PROVE  p \in Listed' <=>
                 \E i \in 1 .. n + 1 : connections'[i] = p
    <3>1. DOMAIN connections' = 1 .. n + 1
      BY <1>2 DEF TypeOK
    <3>. QED
      BY <3>1 DEF Listed, Range
  <2>2. ASSUME NEW p
        PROVE  (\E i \in 1 .. n + 1 : connections'[i] = p)
                 <=> (\E i \in 1 .. n : connections[i] = p) \/ p = ioPeer
    <3>1. 1 .. n + 1 = (1 .. n) \cup {n + 1}
      BY <1>1
    <3>. QED
      BY <1>2, <3>1
  <2>. QED
    BY <2>1, <2>2, ListedWhere
<1>5. OB!Subscribe(ioPeer)
  BY <1>1, <1>3, <1>4 DEF OB!Subscribe
<1>. QED
  BY <1>1, <1>5 DEF OB!Next

\* The io_service thread shakes hands, and subscribes.
LEMMA IoThreadSeen ==
  ASSUME IInv, IoThread
  PROVE  OB!Next \/ UNCHANGED OB!vars
<1>1. ASSUME CreateConnectionNull \/ SetDisconnected
      PROVE  UNCHANGED <<text, connections, listedAt, sent>>
  BY <1>1 DEF CreateConnectionNull, SetDisconnected, io, vector, main
<1>2. ASSUME NEW p \in Peers,
             \/ HandleAccept(p) \/ HandleAcceptError(p)
             \/ HandleRead(p) \/ HandleReadError(p)
      PROVE  UNCHANGED <<text, connections, listedAt, sent>>
  BY <1>2 DEF HandleAccept, HandleAcceptError, HandleRead, HandleReadError,
     vector, main
<1>. QED
  BY <1>1, <1>2, UnseenStutters, CreateConnectionSeen, PushBackSeen
  DEF IoThread

\* write_some delivers the message that is next for the client.
LEMMA WriteSomeSeen ==
  ASSUME IInv, WriteSome
  PROVE  OB!Next \/ UNCHANGED OB!vars
<1>. USE DEF IInv
<1>1. /\ mainPc = "write" /\ it < end /\ socket[Con] = "open"
      /\ UNCHANGED <<text, connections, listedAt>>
  BY DEF WriteSome, IterInv, io, vector
<1>2. CASE UNCHANGED sent
  BY <1>1, <1>2, UnseenStutters
<1>3. CASE peer[Con] = "connected" /\ sent' = Put(Con, text)
  <2>1. Con \in Peers /\ Con \in Listed /\ UNCHANGED Listed
    BY <1>1, ServedClient, ListedKept, ListedWhere
  <2>2. Live(Con) /\ Pending(it + 1)
    BY <1>1, <1>3, ServedClient DEF Live, Pending
  <2>3. sent[Con] # <<>> /\ Len(sent[Con]) + listedAt[Con] = text
    BY <1>1, <2>2, ServedClient DEF Served
  <2>4. text = listedAt[Con] + Len(sent[Con])
    BY <2>1, <2>3 DEF TypeOK
  <2>5. OB!Deliver(Con)
    BY <1>1, <1>3, <2>1, <2>3, <2>4 DEF OB!Deliver, Put
  <2>. QED
    BY <2>1, <2>5 DEF OB!Next
<1>. QED
  BY <1>2, <1>3 DEF WriteSome

\* The main thread publishes, and delivers.
LEMMA MainThreadSeen ==
  ASSUME IInv, MainThread
  PROVE  OB!Next \/ UNCHANGED OB!vars
<1>1. ASSUME ForeachRange
      PROVE  OB!Next
  <2>1. text' = text + 1 /\ UNCHANGED <<connections, listedAt, sent>>
    BY <1>1 DEF ForeachRange, io, vector
  <2>2. UNCHANGED Listed
    BY <2>1, ListedKept
  <2>. QED
    BY <2>1, <2>2 DEF OB!Next, OB!Publish
<1>2. ASSUME \/ BroadcastText \/ ForeachMixed \/ Foreach \/ ForeachFreed
             \/ ForeachEnd \/ SendText \/ WriteSomeError \/ Written
             \/ WriteFailed
      PROVE  UNCHANGED <<text, connections, listedAt, sent>>
  BY <1>2 DEF BroadcastText, ForeachMixed, Foreach, ForeachFreed, ForeachEnd,
     SendText, WriteSomeError, Written, WriteFailed, io, vector, main
<1>. QED
  BY <1>1, <1>2, UnseenStutters, WriteSomeSeen DEF MainThread

\* Whatever the two threads do, a client that is listed gets the handshake and
\* then every message begun since, in order, none twice and none left out,
\* until it is given up.
THEOREM DeliveryIsOrdered == Spec => OrderedDelivery
<1>1. Init => OB!Init
  <2>1. ASSUME Init
        PROVE  Listed = {}
    <3>1. DOMAIN connections = {}
      BY <2>1 DEF Init
    <3>. QED
      BY <3>1, ListedIs
  <2>. QED
    BY <2>1 DEF Init, OB!Init
<1>2. ASSUME IInv, [Next]_vars
      PROVE  [OB!Next]_(OB!vars)
  <2>1. ASSUME UNCHANGED vars
        PROVE  UNCHANGED <<text, connections, listedAt, sent>>
    BY <2>1 DEF vars, io, vector, main
  <2>. QED
    BY <1>2, <2>1, ClientUnseen, IoThreadSeen, MainThreadSeen, UnseenStutters
    DEF Next
<1>. QED
  BY <1>1, <1>2, Invariance, PTL DEF Spec, OrderedDelivery, OB!Spec
=============================================================================
