------------------------------ MODULE Base64 ------------------------------
(***************************************************************************)
(* PolarSSL/base64.c: the accept key of a handshake and the pixels of an   *)
(* image.  Bytes and characters are numbers; a call returns a code, what   *)
(* it leaves in *dlen and what it has written.                             *)
(***************************************************************************)
EXTENDS Integers, Sequences, FiniteSets, SequencesExt

\* base64_enc_map.
EncMap ==
  [i \in 0 .. 63 |-> CASE i < 26 -> 65 + i [] i \in 26 .. 51 -> 71 + i
                       [] i \in 52 .. 61 -> i - 4 [] i = 62 -> 43
                       [] OTHER -> 47]

\* base64_dec_map: 64 for '=', 127 for what has no place.
DecMap ==
  [c \in 0 .. 127 |-> IF c = 61 THEN 64
                      ELSE IF \E i \in 0 .. 63 : EncMap[i] = c
                             THEN CHOOSE i \in 0 .. 63 : EncMap[i] = c
                             ELSE 127]

\* A slip: two bytes over counted like one character's worth.
EncodedSizeShort(slen) ==
  LET n == (slen * 8) \div 6
  IN  n + (CASE (slen * 8) - (n * 6) = 2 -> 3
             [] (slen * 8) - (n * 6) = 4 -> 1 [] OTHER -> 0)

\* The characters of a text of slen bytes, as the first lines count them.
EncodedSize(slen) ==
  LET n == (slen * 8) \div 6
  IN  n + (CASE (slen * 8) - (n * 6) = 2 -> 3
             [] (slen * 8) - (n * 6) = 4 -> 2 [] OTHER -> 0)

\* The four characters of up to three bytes.
Quartet(c) ==
  LET byte(i) == IF i <= Len(c) THEN c[i] ELSE 0
  IN  <<EncMap[byte(1) \div 4],
        EncMap[((byte(1) % 4) * 16) + (byte(2) \div 16)],
        IF Len(c) > 1 THEN EncMap[((byte(2) % 16) * 4) + (byte(3) \div 64)]
                      ELSE 61,
        IF Len(c) > 2 THEN EncMap[byte(3) % 64] ELSE 61>>

\* The characters of all bytes, three by three.
Encoded(src) ==
  FlattenSeq([k \in 1 .. (Len(src) + 2) \div 3 |->
                Quartet(SubSeq(src, (3 * k) - 2,
                               IF 3 * k < Len(src) THEN 3 * k
                                                   ELSE Len(src)))])

\* base64_encode into a buffer of dlen bytes: what it writes ends with a 0
\* that *dlen leaves out.  Without input it touches nothing.
Encode(src, dlen) ==
  LET slen == Len(src)
      out == Encoded(src)
  IN  IF slen = 0 THEN [rc |-> "ok", dlen |-> dlen, written |-> <<>>]
      ELSE IF dlen < EncodedSize(slen) + 1
             THEN [rc |-> "too_small", dlen |-> EncodedSize(slen) + 1,
                   written |-> <<>>]
             ELSE [rc |-> "ok", dlen |-> Len(out), written |-> out \o <<0>>]

\* The first loop of base64_decode passes over line breaks.
IsBreak(src, i) ==
  src[i] = 10 \/ (src[i] = 13 /\ i < Len(src) /\ src[i + 1] = 10)

\* What it does not accept: other characters, more than two '=', and
\* anything after one.
Invalid(src) ==
  \E i \in DOMAIN src :
    /\ ~IsBreak(src, i)
    /\ \/ src[i] > 127 \/ DecMap[src[i]] = 127
       \/ LET pads == {k \in 1 .. i - 1 : src[k] = 61}
          IN  pads # {} /\ (src[i] # 61 \/ (\E k, l \in pads : k # l))

DecodedSize(n) == ((n * 6) + 7) \div 8

\* The second loop passes over both characters of a line break.
Kept(src) ==
  FlattenSeq([i \in DOMAIN src |-> IF src[i] \in {10, 13} THEN <<>>
                                                        ELSE <<src[i]>>])

\* A quartet's 24 bits, behind k characters, taken apart as far as the '=' of
\* the whole text up to its end leave any.
Triple(kept, k) ==
  LET x(i) == DecMap[kept[k + i]] % 64
      j == 3 - Cardinality({i \in 1 .. k + 4 : kept[i] = 61})
  IN  SubSeq(<<(x(1) * 4) + (x(2) \div 16),
               ((x(2) % 16) * 16) + (x(3) \div 4),
               ((x(3) % 4) * 64) + x(4)>>, 1, j)

\* Characters after the last whole quartet are lost.
Decoded(kept) ==
  FlattenSeq([q \in 1 .. Len(kept) \div 4 |-> Triple(kept, (4 * q) - 4)])

\* base64_decode into a buffer of dlen bytes.
Decode(src, dlen) ==
  LET n == Cardinality({i \in DOMAIN src : ~IsBreak(src, i)})
      out == Decoded(Kept(src))
  IN  CASE Invalid(src) -> [rc |-> "invalid", dlen |-> dlen, written |-> <<>>]
        [] ~Invalid(src) /\ n = 0 ->
             [rc |-> "ok", dlen |-> dlen, written |-> <<>>]
        [] ~Invalid(src) /\ n > 0 /\ dlen < DecodedSize(n) ->
             [rc |-> "too_small", dlen |-> DecodedSize(n), written |-> <<>>]
        [] OTHER -> [rc |-> "ok", dlen |-> Len(out), written |-> out]
=============================================================================
