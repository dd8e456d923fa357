--------------------------- MODULE MCServerBytes ---------------------------
\* Lengths around the limits of a block, a buffer and a frame's length byte,
\* the requests of RFC 6455 and hixie-76, and every kind of JSON value, with
\* integers around the limits of an int.
EXTENDS ServerBytes

MCPartLengths == {1, 55, 64}
MCKeyLengths == {0, 80}

MCSourceBytes == {107, 255}
MCRooms == {0, 3, 8}

MCTextLengths == {0, 125, 126, 127}
MCHeardLengths == {0, 5, 126, 128, 257, 292, 293}
MCStrays == {0, 170, 255}

MCKey ==
  <<100, 71, 104, 108, 73, 72, 78, 104, 98, 88, 66, 115, 90, 83, 66, 117, 98,
    50, 53, 106, 90, 81, 61, 61>>
MCAccept ==
  <<115, 51, 112, 80, 76, 77, 66, 105, 84, 120, 97, 81, 57, 107, 89, 71, 122,
    122, 104, 90, 82, 98, 75, 43, 120, 79, 111, 61>>
MCKey1 ==
  <<52, 32, 64, 49, 32, 32, 52, 54, 53, 52, 54, 120, 87, 37, 48, 108, 32, 49,
    32, 53>>
MCKey2 ==
  <<49, 50, 57, 57, 56, 32, 53, 32, 89, 51, 32, 49, 32, 32, 46, 80, 48, 48>>
MCBody == <<94, 110, 58, 100, 115, 91, 52, 85>>
MCReply ==
  <<56, 106, 75, 83, 39, 121, 58, 71, 42, 67, 111, 44, 87, 120, 97, 45>>

\* 257 to 259 are the headers' names, as Handshake numbers them.
Ver10Request(key0, known) ==
  [fields |-> << <<257, key0>> >>, body |-> <<>>, numbers |-> <<>>,
   known |-> known]
Draft76Request(key1, numbers, body, known) ==
  [fields |-> << <<258, key1>>, <<259, MCKey2>> >>,
   body |-> body, numbers |-> numbers, known |-> known]
\* 829309203 and 259970620, in two halves of 16 bits.
MCNumbers == << <<12654, 16659>>, <<3966, 54844>> >>

MCRequests ==
  {Ver10Request(MCKey, MCAccept),
   Ver10Request(SubSeq(MCKey, 1, 19), <<>>),
   Ver10Request(SubSeq(MCKey, 1, 20), <<>>),
   Ver10Request(MCKey \o <<58, 32, 58, 58>>, <<>>),
   [Ver10Request(MCKey, <<>>) EXCEPT
      !.fields = @ \o << <<257, <<65>> >> >>],
   [Ver10Request(MCKey, <<>>) EXCEPT !.fields = << <<300, MCKey>> >>],
   Draft76Request(MCKey1, MCNumbers, MCBody, MCReply),
   Draft76Request(MCKey1, MCNumbers, <<13, 10, 58, 32, 0, 1, 2, 3>>, <<>>),
   Draft76Request(<<49, 50>>, <<>>, MCBody, <<>>)}
MCLeftovers == {[i \in 1 .. 120 |-> IF i = 110 THEN 0 ELSE 170]}
MCOutputSizes == {28, 29}

MCDepths == {0, 2, 299}
MCBytes == {200}

MCA == <<97>>
MCB == <<97, 34>>
MCNames == {MCA, MCB}
MCIndices == {0, 2}
MCPaths ==
  {<<>>, <<Index(0)>>, <<Index(2)>>, <<Key(MCA)>>,
   <<Key(MCB), Index(2)>>, <<Index(0), Key(MCA)>>}
MCLeaves ==
  {Null, IntValue(-128), UIntValue(255), RealValue(-105),
   BoolValue(TRUE), StringValue(<<92, 1, 10, 200>>)}
=============================================================================
