----------------------------- MODULE Handshake -----------------------------
(***************************************************************************)
(* ConnectionFactory::createConnection with Header and the constructors of *)
(* both connections: from the bytes of a request to the reply of the       *)
(* handshake.  The buffer lies on the stack and is not cleared: what       *)
(* follows a request in it, up to a NUL, is taken for a part of it.        *)
(*                                                                         *)
(* A symbol is a byte, or stands for the first line or a header's name.    *)
(***************************************************************************)
EXTENDS Integers, Sequences, SequencesExt

CONSTANTS
  Digest(_, _), PutBE(_),     \* those of Digests
  Encode(_, _), Decode(_, _), \* those of Base64
  Standard(_, _),             \* that of DigestStandards
  Requests,     \* [fields: of <<name, value>>, body, numbers, known]
  Leftovers,    \* what the buffer, and the stack behind it, may hold at first
  BufferSize,   \* of the buffer, 2048 in the code
  Strays,       \* bytes that may be behind a body
  OutputSizes,  \* what output_size may hold
  MaxClients    \* how many ask

FirstLine == 256
Key == 257    \* Sec-WebSocket-Key, in any case
Key1 == 258
Key2 == 259
Nul == 0
LF == 10
CR == 13
Space == 32
Colon == 58

VARIABLES
  buffer,     \* of createConnection
  request,    \* the one in it, or none
  reply,      \* what the constructor has answered, or none
  clients     \* history: how many have asked

vars == <<buffer, request, reply, clients>>

None == [as |-> "none"]

Lowest(places) == CHOOSE i \in places : \A j \in places : i <= j
Highest(places) == CHOOSE i \in places : \A j \in places : i >= j

\* External: a request as a client writes it, its header first.
Lines(fields) ==
  [i \in DOMAIN fields |->
     <<fields[i][1], Colon, Space>> \o fields[i][2] \o <<CR, LF>>]
HeaderText(r) ==
  <<FirstLine, CR, LF>> \o FlattenSeq(Lines(r.fields)) \o <<CR, LF>>
RequestText(r) == HeaderText(r) \o r.body

Over(text, old) == text \o SubSeq(old, Len(text) + 1, Len(old))

-----------------------------------------------------------------------------
(* Header.                                                                 *)

\* std::string input(buffer.data()).
CString(bytes) ==
  LET nuls == {i \in DOMAIN bytes : bytes[i] = Nul}
  IN  IF nuls = {} THEN bytes ELSE SubSeq(bytes, 1, Lowest(nuls) - 1)
Input == CString(buffer)

\* The lines, of which runs of line breaks make one end: empty is only the
\* first or the last.
Inside(text, i) == i \in DOMAIN text /\ text[i] \notin {CR, LF}
Starts(text) ==
  {i \in 1 .. Len(text) + 1 :
     /\ i = 1 \/ ~Inside(text, i - 1)
     /\ Inside(text, i) \/ i = 1 \/ i = Len(text) + 1}
LineAt(text, i) ==
  SubSeq(text, i, CHOOSE j \in i - 1 .. Len(text) :
                    ~Inside(text, j + 1) /\ \A k \in i .. j : Inside(text, k))

Blanks == (9 .. 13) \cup {Space}
Trim(text) ==
  LET kept == {i \in DOMAIN text : text[i] \notin Blanks}
  IN  IF kept = {} THEN <<>> ELSE SubSeq(text, Lowest(kept), Highest(kept))

Colons(line) == {i \in DOMAIN line : line[i] = Colon}
IsNamed(line, name) ==
  /\ Colons(line) # {}
  /\ Trim(SubSeq(line, 1, Lowest(Colons(line)) - 1)) = <<name>>
ValueOf(line) == Trim(SubSeq(line, Lowest(Colons(line)) + 1, Len(line)))

\* The lines between the first and the last with some name.
Named(text, name) ==
  {i \in Starts(text) : /\ i # 1 /\ i # Highest(Starts(text))
                        /\ IsNamed(LineAt(text, i), name)}

\* A slip: a later line with the same name takes the place of the first.
GetValueLast(text, name) ==
  IF Named(text, name) = {} THEN <<>>
  ELSE ValueOf(LineAt(text, Highest(Named(text, name))))

\* getValue: the value of the first line with this name; the last line is the
\* body's.
GetValue(text, name) ==
  IF Named(text, name) = {} THEN <<>>
  ELSE ValueOf(LineAt(text, Lowest(Named(text, name))))

\* body_: eight symbols of the last line; behind its end it reads a NUL and
\* then whatever there is.
Body(text, stray) ==
  LET line == LineAt(text, Highest(Starts(text)))
  IN  [i \in 1 .. 8 |-> CASE i <= Len(line) -> line[i] % 256
                          [] i = Len(line) + 1 -> Nul
                          [] OTHER -> stray]

-----------------------------------------------------------------------------
(* The constructors.                                                       *)

\* "258EAFA5-E914-47DA-95CA-C5AB0DC85B11"
GUID == <<50, 53, 56, 69, 65, 70, 65, 53, 45, 69, 57, 49, 52, 45, 52, 55, 68,
          65, 45, 57, 53, 67, 65, 45, 67, 53, 65, 66, 48, 68, 67, 56, 53, 66,
          49, 49>>

\* Connection_ver10.  Without room nothing is written to buf, and the key is
\* what it held: <<>>.
Ver10Reply(text, room) ==
  LET hash == Digest("sha1", GetValue(text, Key) \o GUID)
      encoded == Encode(hash, room).written
  IN  [as |-> "ver10", room |-> room,
       accept |-> IF encoded = <<>> THEN <<>>
                  ELSE SubSeq(encoded, 1, Len(encoded) - 1)]

IsDigit(b) == b \in 48 .. 57

\* decodeKey.  A word has two halves, as in Digests.
DecodeKey(key) ==
  LET digits == SelectSeq(key, IsDigit)
      spaces == Len(SelectSeq(key, LAMBDA b : b = Space))
      tenfold(n, b) == LET low == (n[2] * 10) + (b - 48)
                       IN  <<(n[1] * 10) + (low \div 65536), low % 65536>>
      number == FoldLeft(tenfold, <<0, 0>>, digits)
  IN  CASE digits = <<>> \/ number[1] > 65535 -> [as |-> "bad_lexical_cast"]
        [] digits # <<>> /\ number[1] <= 65535 /\ spaces = 0 ->
             [as |-> "division by zero"]
        [] OTHER ->
             [as |-> "value",
              value |-> <<number[1] \div spaces,
                          (((number[1] % spaces) * 65536) + number[2])
                            \div spaces>>]

\* Connection_draft76.
Draft76Reply(text, stray) ==
  LET key1 == DecodeKey(GetValue(text, Key1))
      key2 == DecodeKey(GetValue(text, Key2))
  IN  IF \E k \in {key1, key2} : k.as # "value"
        THEN IF key1.as # "value" THEN key1 ELSE key2
        ELSE [as |-> "draft76",
              hash |-> Digest("md5", PutBE(key1.value) \o PutBE(key2.value)
                                     \o Body(text, stray))]

-----------------------------------------------------------------------------
(* createConnection.                                                       *)

\* read_some; a request that comes in parts, because it does not fit or for
\* another reason, is beyond this model.
ReadSome(r) ==
  /\ request = None /\ clients < MaxClients
  /\ Len(RequestText(r)) <= BufferSize
  /\ request' = r /\ clients' = clients + 1
  /\ buffer' = Over(RequestText(r), buffer)
  /\ reply' = None

\* The rest: version 10 first, then draft 76.
CreateConnection(room, stray) ==
  /\ request # None /\ reply = None
  /\ reply' = CASE GetValue(Input, Key) # <<>> -> Ver10Reply(Input, room)
                 [] GetValue(Input, Key) = <<>>
                    /\ GetValue(Input, Key2) # <<>> ->
                      Draft76Reply(Input, stray)
                 [] OTHER -> [as |-> "null"]
  /\ UNCHANGED <<buffer, request, clients>>

\* The client has its reply, or goes without one.
Close ==
  /\ reply # None
  /\ request' = None /\ reply' = None
  /\ UNCHANGED <<buffer, clients>>

Init ==
  /\ buffer \in Leftovers
  /\ request = None /\ reply = None /\ clients = 0

Next ==
  \/ \E r \in Requests : ReadSome(r)
  \/ \E room \in OutputSizes, stray \in Strays : CreateConnection(room, stray)
  \/ Close

Spec == Init /\ [][Next]_vars

-----------------------------------------------------------------------------

\* What follows the request in the buffer, and is taken for a part of it.
Stale == SubSeq(Input, Len(RequestText(request)) + 1, Len(Input))

Unbroken(text) == \A i \in DOMAIN text : text[i] \notin {Nul, CR, LF}

AskedOf(r, name) ==
  LET named == {i \in DOMAIN r.fields : r.fields[i][1] = name}
  IN  IF named = {} THEN <<>> ELSE r.fields[Lowest(named)][2]
Asked(name) == AskedOf(request, name)

\* The challenge of draft 76 to this client, whose keys are these numbers.
Challenge(r) == PutBE(r.numbers[1]) \o PutBE(r.numbers[2]) \o r.body

\* createConnection: a client of version 10 gets the accept key of RFC 6455,
\* whatever the buffer held before, if output_size happens to leave room for
\* 28 characters and a NUL; without, nothing is said of the key.  A client of
\* draft 76 whose keys have numbers gets an answer of draft 76, and if its body
\* has no NUL, CR or LF the right one; the others are ChallengeAnswered's.  A
\* client that asks for neither has no connection.  The last two only hold
\* while what another request left behind this one does not break into lines.
HandshakeRight ==
  reply # None =>
    CASE Asked(Key) # <<>> ->
           /\ reply.as = "ver10"
           /\ reply.room > 28 =>
                /\ Decode(reply.accept, 21) =
                     [rc |-> "ok", dlen |-> 20,
                      written |-> Standard("sha1", Asked(Key) \o GUID)]
                /\ request.known \in {<<>>, reply.accept}
      [] Asked(Key) = <<>> /\ Asked(Key2) # <<>> ->
           request.numbers # <<>> /\ Unbroken(Stale) =>
             /\ reply.as = "draft76"
             /\ Unbroken(request.body) =>
                  /\ reply.hash = Standard("md5", Challenge(request))
                  /\ request.known \in {<<>>, reply.hash}
      [] OTHER -> Unbroken(Stale) => reply.as = "null"

\* Connection_draft76.cpp:20-23: the reply is the MD5 of both keys' numbers and
\* the 64 bits of the request's body, whatever these are.
ChallengeAnswered ==
  reply # None /\ reply.as = "draft76" /\ request.numbers # <<>>
    /\ Unbroken(Stale)
  => reply.hash = Standard("md5", Challenge(request))

-----------------------------------------------------------------------------

\* External: what a client sends.  Names are not bytes; a value has no break
\* and no blank at an end; the numbers are those of its keys, and the answer
\* it knows is its standard's.
IsValue(value) ==
  /\ value \in Seq(0 .. 255) /\ Unbroken(value)
  /\ value # <<>> => value[1] \notin Blanks /\ value[Len(value)] \notin Blanks
AcceptKey(key) ==
  LET encoded == Encode(Standard("sha1", key \o GUID), 29).written
  IN  SubSeq(encoded, 1, Len(encoded) - 1)
Halves == 0 .. 65535
Reads(key, number) ==
  /\ number \in Halves \X Halves
  /\ DecodeKey(key) = [as |-> "value", value |-> number]
IsRequest(r) ==
  /\ r.fields \in Seq(Nat \X Seq(0 .. 255))
  /\ \A i \in DOMAIN r.fields :
       r.fields[i][1] > FirstLine /\ IsValue(r.fields[i][2])
  /\ r.body \in Seq(0 .. 255)
  /\ r.numbers # <<>> =>
       /\ Len(r.body) = 8
       /\ Reads(AskedOf(r, Key1), r.numbers[1])
       /\ Reads(AskedOf(r, Key2), r.numbers[2])
  /\ r.known # <<>> =>
       r.known = IF AskedOf(r, Key) # <<>> THEN AcceptKey(AskedOf(r, Key))
                 ELSE Standard("md5", PutBE(r.numbers[1])
                                      \o PutBE(r.numbers[2]) \o r.body)
=============================================================================
