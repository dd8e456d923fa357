-------------------------- MODULE WebSocketStream --------------------------
(***************************************************************************)
(* Connection_ver10 and Connection_draft76, sendText and handle_read: the  *)
(* bytes of one connection.  TCP gives the client a stream, in which a     *)
(* frame's end is known by its own length or by its last byte only: what   *)
(* one sendText leaves out or adds shifts all that follows.                *)
(***************************************************************************)
EXTENDS Frames

CONSTANTS
  TextLengths,   \* of the texts the server sends
  HeardLengths,  \* of those a client sends
  MaxTexts,      \* how many the server sends
  BufferSize,    \* of a connection's buffer, 2048 in the code
  Strays         \* bytes that may be in a buffer behind what was read

VARIABLES
  protocol,   \* "ver10" or "draft76"
  texts,      \* history: what sendText was given
  wire,       \* bytes sent and not read by the client
  received,   \* external: the texts the client has read
  whole,      \* history: every frame has gone out complete
  heard       \* what handle_read made of the client's text

vars == <<protocol, texts, wire, received, whole, heard>>

\* The texts are JSON: plain characters, here one for each text.
Text(n) == [i \in 1 .. n |-> 64 + (Len(texts) % 64)]

\* sendText of Connection_draft76: the text between 0x00 and 0xff.
Draft76Output(text) == <<0>> \o text \o <<255>>

\* What write_some is given; a text of 65536 bytes is beyond
\* TextLengths.
Output(text) ==
  IF protocol = "draft76" THEN Draft76Output(text)
  ELSE LET frame == CreateTextFrame(text)
       IN  SubSeq(ToBinary(frame, <<>>), 1, FrameSize(frame))

\* The text's last byte was written: nothing of it is missing.
Complete(text) ==
  protocol = "ver10" =>
    FrameSize(CreateTextFrame(text))
      = Len(ToBinary(CreateTextFrame(text), <<>>))

\* write_some takes all or, when the buffers are nearly full, a part; what it
\* returns is not looked at.
SendText(n) ==
  /\ Len(texts) < MaxTexts
  /\ LET text == Text(n)
         output == Output(text)
     IN  /\ texts' = Append(texts, text)
         /\ \E part \in {2, Len(output)} :
              /\ wire' = wire \o SubSeq(output, 1, part)
              /\ whole' = (whole /\ part = Len(output) /\ Complete(text))
  /\ UNCHANGED <<protocol, received, heard>>

-----------------------------------------------------------------------------
(* The client, external: RFC 6455, and 0x00 ... 0xff before it.            *)

\* Where the payload of the first frame of version 10 begins and ends.
PayloadStart ==
  CASE wire[2] = 126 -> 5 [] wire[2] = 127 -> 11 [] OTHER -> 3
PayloadEnd ==
  CASE wire[2] = 126 -> 4 + (wire[3] * 256) + wire[4]
    [] wire[2] < 126 -> 2 + wire[2]
    [] OTHER -> Len(wire) + 1

\* A frame has come to its end.
FrameThere ==
  /\ protocol = "ver10"
  /\ Len(wire) >= 4 \/ (Len(wire) >= 2 /\ wire[2] < 126)
  /\ wire[1] = 129 /\ wire[2] < 128 /\ PayloadEnd <= Len(wire)

Draft76There == protocol = "draft76" /\ wire # <<>> /\ wire[1] = 0
                /\ \E i \in DOMAIN wire : wire[i] = 255

ReadFrame ==
  /\ FrameThere
  /\ received' = Append(received, SubSeq(wire, PayloadStart, PayloadEnd))
  /\ wire' = SubSeq(wire, PayloadEnd + 1, Len(wire))
  /\ UNCHANGED <<protocol, texts, whole, heard>>

ReadDraft76 ==
  /\ Draft76There
  /\ LET last == SelectInSeq(wire, LAMBDA byte : byte = 255)
     IN  /\ received' = Append(received, SubSeq(wire, 2, last - 1))
         /\ wire' = SubSeq(wire, last + 1, Len(wire))
  /\ UNCHANGED <<protocol, texts, whole, heard>>

\* A frame a client makes of a text: masked, its length in network order.
ClientFrame(text, key) ==
  LET n == Len(text)
  IN  <<129>> \o (IF n < 126 THEN <<128 + n>>
                             ELSE <<254, n \div 256, n % 256>>)
      \o key \o [i \in 1 .. n |-> Xor8(text[i], key[((i - 1) % 4) + 1])]

Keys == {<<0, 0, 0, 0>>, <<1, 128, 255, 90>>}

\* async_read_some gives what has come, up to the buffer's size: all of a
\* frame of n bytes, or a part.
Reads(n) == {c \in {1, 3, n - 1, n, BufferSize} : c \in 1 .. n
                                                    /\ c <= BufferSize}

\* What becomes of a frame parsed: new char[] throws at a length taken for
\* negative, and reading behind the buffer's end may end the process.
Outcomes(input, said) ==
  IF ParsedLength(input) < 0 THEN {"bad_alloc"}
  ELSE {IF PayloadData(ParseFrame(input)) = said THEN "said" ELSE "other"}
       \cup (IF DataStart(input) + ParsedLength(input) > BufferSize
               THEN {"crash"} ELSE {})

\* handle_read of Connection_ver10 with a text frame, which it prints.  It
\* parses what one read gave, and never reads again.
HandleRead(n) ==
  /\ protocol = "ver10" /\ heard.as = "nothing"
  /\ \E key \in Keys, stray \in Strays :
       LET said == [i \in 1 .. n |-> 65 + (i % 26)]
           sent == ClientFrame(said, key)
       IN  \E count \in Reads(Len(sent)) :
           \E as \in Outcomes(Memory(SubSeq(sent, 1, count), stray), said) :
             heard' = [length |-> n, complete |-> count = Len(sent),
                       as |-> as]
  /\ UNCHANGED <<protocol, texts, wire, received, whole>>

-----------------------------------------------------------------------------

Init ==
  /\ protocol \in {"ver10", "draft76"}
  /\ texts = <<>> /\ wire = <<>> /\ received = <<>> /\ whole = TRUE
  /\ heard = [length |-> 0, complete |-> FALSE, as |-> "nothing"]

Next ==
  \/ \E n \in TextLengths : SendText(n)
  \/ \E n \in HeardLengths : HandleRead(n)
  \/ ReadFrame \/ ReadDraft76

Spec == Init /\ [][Next]_vars

-----------------------------------------------------------------------------

\* sendText: while every frame goes out complete the client has the texts the
\* server was given, no more, none changed, and all of them once there is no
\* frame left to read, whatever their lengths and however it reads.
StreamIntact ==
  whole => /\ IsPrefix(received, texts)
           /\ ~FrameThere /\ ~Draft76There => received = texts

\* As a frame has it, this length has no byte of 128 or more.
SmallBytes(n) == n < 128 \/ (n % 256 < 128 /\ n < 32768)

\* handle_read understands a client's text, whatever an earlier one or nobody
\* has left behind it in the buffer.  Nothing is said of the three cases in
\* which the code may misread it or end the process: a frame that comes in
\* parts, one larger than the buffer, and a length with a byte of 128 or more.
ClientUnderstood ==
  /\ heard.as # "nothing" /\ heard.complete /\ SmallBytes(heard.length)
  => heard.as = "said"
=============================================================================
