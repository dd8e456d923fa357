------------------------------- MODULE Frames -------------------------------
(***************************************************************************)
(* WebSocket/Frame.cpp: frames of version 10 as the server makes and reads *)
(* them.  A byte is a number below 256, a frame's data a sequence.         *)
(***************************************************************************)
EXTENDS Integers, Sequences, SequencesExt, Bits

Byte == 0 .. 255

\* The frame of a message: final, neither masked nor split.
CreateTextFrame(input) ==
  [opecode |-> 1, fin |-> TRUE, mask |-> FALSE, length |-> Len(input),
   maskingKey |-> <<0, 0, 0, 0>>, data |-> input]

\* The eight bytes that ToBinary shifts from a length of 65536 and more.  From
\* the third on the shift is by less than nothing: any byte may come.
IsLongLength(length, bytes) ==
  /\ bytes \in Seq(Byte) /\ Len(bytes) = 8
  /\ bytes[1] = (length \div 256) % 256 /\ bytes[2] = length % 256

\* A slip: the extended length from 127 on.
LengthBytesAbove(f, long) ==
  IF f.length < 127 THEN <<f.length>>
  ELSE IF f.length < 65536
         THEN <<126, (f.length \div 256) % 256, f.length % 256>>
         ELSE <<127>> \o long

\* The byte of the length with what extends it; the mask's bit is added to
\* the first only.
LengthBytes(f, long) ==
  IF f.length < 126 THEN <<f.length>>
  ELSE IF f.length < 65536
         THEN <<126, (f.length \div 256) % 256, f.length % 256>>
         ELSE <<127>> \o long

\* All that ToBinary writes: flags and opecode, length, key, data.  An
\* extended length overwrites the mask's bit.
ToBinary(f, long) ==
  LET second == LengthBytes(f, long)
  IN  <<(IF f.fin THEN 128 ELSE 0) + (f.opecode % 16)>>
      \o (IF f.mask /\ f.length < 126 THEN <<128 + second[1]>> ELSE second)
      \o (IF f.mask THEN f.maskingKey ELSE <<>>)
      \o f.data

\* How many bytes ToBinary takes room for, and sendText sends.
FrameSize(f) ==
  2 + (IF f.length > 126 THEN 2 ELSE 0) + (IF f.length > 65536 THEN 6 ELSE 0)
    + (IF f.mask THEN 2 ELSE 0) + f.length

\* "length <<= 8; length |= *pos": a byte of 128 or more is a negative char,
\* which sets all bits above it.  A negative length stands for one beyond
\* any memory.
SignedOr(length, byte) ==
  IF byte >= 128 THEN byte - 256 ELSE (length * 256) + byte

\* A buffer as ParseFrame sees it, through a pointer to its first byte: the
\* bytes read into it, and behind them whatever there is, in the rest of the
\* buffer, which nobody has cleared, and behind its end.
Memory(read, behind) ==
  [i \in Nat \ {0} |-> IF i <= Len(read) THEN read[i] ELSE behind]

\* How many bytes extend the length, and where the data begins.
ExtendedBytes(input) ==
  IF input[2] % 128 = 126 THEN 2 ELSE IF input[2] % 128 = 127 THEN 8 ELSE 0

DataStart(input) ==
  2 + ExtendedBytes(input) + (IF input[2] >= 128 THEN 4 ELSE 0)

ParsedLength(input) ==
  IF ExtendedBytes(input) = 0
    THEN input[2] % 128
    ELSE FoldLeft(SignedOr, 0,
                  [i \in 1 .. ExtendedBytes(input) |-> input[2 + i]])

\* ParseFrame is not told how much was read, nor how large the buffer is.
ParseFrame(input) ==
  LET mask == input[2] >= 128
      key == 2 + ExtendedBytes(input)
      start == DataStart(input)
      length == ParsedLength(input)
  IN  [opecode |-> input[1] % 16, fin |-> input[1] >= 128, mask |-> mask,
       length |-> length,
       maskingKey |-> [i \in 1 .. 4 |-> IF mask THEN input[key + i] ELSE 0],
       data |-> [i \in 1 .. length |-> input[start + i]]]

\* A slip: the key is begun with its second byte.
PayloadDataShifted(f) ==
  [i \in 1 .. f.length |-> Xor8(f.data[i], f.maskingKey[(i % 4) + 1])]

\* The key of a frame without mask is 0.
PayloadData(f) ==
  [i \in 1 .. f.length |-> Xor8(f.data[i], f.maskingKey[((i - 1) % 4) + 1])]
=============================================================================
