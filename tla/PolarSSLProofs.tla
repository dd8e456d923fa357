---------------------------- MODULE PolarSSLProofs ----------------------------
(***************************************************************************)
(* What PolarSSL computes.  Of Base64, for data of any length and buffers  *)
(* of any size: the characters that base64_encode makes of three bytes and *)
(* where they stand, that base64_decode makes the bytes of them again      *)
(* wherever a line is broken, and that neither writes behind its buffer.   *)
(* Of SHA-1 and MD5, for messages of any length: that a block is processed *)
(* as the standard says, that a context stands for all it was fed in       *)
(* whatever parts, and that its finish is the standard's digest, of an     *)
(* HMAC, too.  The invariants of Base64Buffers, FrameImages and HashStream *)
(* in WireFormatsProofs rest on it.                                        *)
(***************************************************************************)
EXTENDS Base64, DigestStandards, TLAPS, FiniteSetTheorems, SequenceTheorems,
        NaturalsInduction

-----------------------------------------------------------------------------
(* Sequences of sequences: FlattenSeq is a recursive function, so that     *)
(* what it gives is found by induction over how many it has put together.  *)

\* Induction: a set of numbers that is not empty has a least one.
LEMMA Least ==
  ASSUME NEW Elem \in SUBSET Nat, Elem # {}
  PROVE  \E m \in Elem : \A k \in Elem : m <= k
  <1>1. IsWellFoundedOn(OpToRel(<, Nat), Nat)
    BY NatLessThanWellFounded, Zenon
  <1>2. PICK m \in Elem : \A k \in Elem : ~(<<k, m>> \in OpToRel(<, Nat))
    BY <1>1, WFMin, Zenon
  <1>3. \A k, l \in Nat : k < l => <<k, l>> \in OpToRel(<, Nat)
    BY Zenon DEF OpToRel
  <1>4. \A k \in Elem : ~(k < m)
    BY <1>2, <1>3, Zenon
  <1> QED
    BY <1>4

\* What FlattenSeq chooses.
IsFlattening(f, seqs) ==
  f = [i \in 1 .. Len(seqs) |-> IF i = 1 THEN seqs[i] ELSE f[i - 1] \o seqs[i]]

\* FlattenSeq is the last element of any function that flattens step by step.
LEMMA FlattenIs ==
  ASSUME NEW seqs, Len(seqs) # 0, \E f : IsFlattening(f, seqs)
  PROVE  \E f : IsFlattening(f, seqs) /\ FlattenSeq(seqs) = f[Len(seqs)]
  <1> DEFINE g == CHOOSE f : IsFlattening(f, seqs)
  <1>1. IsFlattening(g, seqs)
    BY Zenon
  <1>2. FlattenSeq(seqs) = g[Len(seqs)]
    BY Zenon DEF FlattenSeq, IsFlattening
  <1> QED
    BY <1>1, <1>2, Zenon

\* There is such a function: if not, there is a least number of sequences that
\* it does not exist for, and one more step makes it exist there, too.
LEMMA FlattenSteps ==
  ASSUME NEW Elem, NEW seqs \in Seq(Seq(Elem)), Len(seqs) # 0
  PROVE  \E f : /\ FlattenSeq(seqs) = f[Len(seqs)]
               /\ f[1] = seqs[1]
               /\ \A i \in 2 .. Len(seqs) : f[i] = f[i - 1] \o seqs[i]
  <1> DEFINE n == Len(seqs)
             E(m) == \E f : f = [i \in 1 .. m |->
                                 IF i = 1 THEN seqs[i]
                                          ELSE f[i - 1] \o seqs[i]]
             Bad == {m \in 0 .. n : ~E(m)}
  <1> HIDE DEF n, E
  <1>1. n \in Nat /\ n # 0
    BY DEF n
  <1>2. Bad = {}
    <2> SUFFICES ASSUME Bad # {} PROVE FALSE
      OBVIOUS
    <2>1. Bad \in SUBSET Nat
      BY <1>1
    <2>2. PICK m \in Bad : \A k \in Bad : m <= k
      BY <2>1, Least
    <2>3. m \in 0 .. n /\ ~E(m)
      BY <2>2
    <2>4. CASE m = 0
      <3> DEFINE f == [i \in 1 .. m |-> 0]
      <3>1. f = [i \in 1 .. m |-> IF i = 1 THEN seqs[i]
                                          ELSE f[i - 1] \o seqs[i]]
        BY <2>4
      <3> QED
        BY <2>3, <3>1, Zenon DEF E
    <2>5. CASE m # 0
      <3>1. m - 1 \in 0 .. n /\ m \in Nat /\ m >= 1
        BY <1>1, <2>3, <2>5
      <3>2. E(m - 1)
        BY <2>2, <3>1
      <3>3. PICK f : f = [i \in 1 .. m - 1 |->
                            IF i = 1 THEN seqs[i] ELSE f[i - 1] \o seqs[i]]
        BY <3>2 DEF E
      <3> HIDE DEF Bad
      <3> DEFINE last == IF m = 1 THEN seqs[m] ELSE f[m - 1] \o seqs[m]
      <3> HIDE DEF last
      <3> DEFINE g == [i \in 1 .. m |-> IF i < m THEN f[i] ELSE last]
      <3>4. \A i \in 1 .. m - 1 :
              g[i] = IF i = 1 THEN seqs[i] ELSE g[i - 1] \o seqs[i]
        <4> TAKE i \in 1 .. m - 1
        <4>1. g[i] = f[i]
          BY <3>1
        <4>2. f[i] = IF i = 1 THEN seqs[i] ELSE f[i - 1] \o seqs[i]
          BY <3>3
        <4>3. i # 1 => g[i - 1] = f[i - 1]
          BY <3>1
        <4> HIDE DEF g
        <4> QED
          BY <4>1, <4>2, <4>3
      <3>5. g[m] = IF m = 1 THEN seqs[m] ELSE g[m - 1] \o seqs[m]
        <4>1. g[m] = last
          BY <3>1
        <4>2. m # 1 => g[m - 1] = f[m - 1]
          BY <3>1
        <4> HIDE DEF g
        <4> QED
          BY <4>1, <4>2 DEF last
      <3>6. g = [i \in 1 .. m |-> g[i]]
        BY <3>1
      <3> HIDE DEF g
      <3>7. \A i \in 1 .. m : i \in 1 .. m - 1 \/ i = m
        BY <3>1
      <3>8. \A i \in 1 .. m :
              g[i] = IF i = 1 THEN seqs[i] ELSE g[i - 1] \o seqs[i]
        BY <3>4, <3>5, <3>7, Zenon
      <3>9. g = [i \in 1 .. m |-> IF i = 1 THEN seqs[i]
                                          ELSE g[i - 1] \o seqs[i]]
        BY <3>6, <3>8
      <3> QED
        BY <2>3, <3>9 DEF E
    <2> QED
      BY <2>4, <2>5
  <1>3. n \in 0 .. n
    BY <1>1
  <1>4. E(n)
    BY <1>2, <1>3
  <1> HIDE DEF Bad
  <1>5. PICK f : IsFlattening(f, seqs) /\ FlattenSeq(seqs) = f[n]
    <2>1. (\E f : IsFlattening(f, seqs)) /\ Len(seqs) # 0
      BY <1>1, <1>4, Zenon DEF IsFlattening, n, E
    <2> QED
      BY <2>1, FlattenIs, Zenon DEF n
  <1>6. \A i \in 1 .. n : f[i] = IF i = 1 THEN seqs[i]
                                         ELSE f[i - 1] \o seqs[i]
    <2>1. f = [i \in 1 .. n |-> IF i = 1 THEN seqs[i]
                                        ELSE f[i - 1] \o seqs[i]]
      BY <1>5, Zenon DEF IsFlattening, n
    <2> QED
      BY <2>1, Zenon
  <1>7. f[1] = seqs[1] /\ \A i \in 2 .. n : f[i] = f[i - 1] \o seqs[i]
    <2>1. 1 \in 1 .. n /\ \A i \in 2 .. n : i \in 1 .. n /\ i # 1
      BY <1>1
    <2> QED
      BY <1>6, <2>1, Zenon
  <1> QED
    BY <1>5, <1>7, Zenon DEF n

\* Where each of some sequences is when they stand one after the other.
Offsets(seqs, at) ==
  /\ \A q \in 0 .. Len(seqs) : at[q] \in Nat
  /\ at[0] = 0
  /\ \A q \in 1 .. Len(seqs) : at[q] = at[q - 1] + Len(seqs[q])

StandAt(Elem, flat, seqs, at) ==
  /\ flat \in Seq(Elem)
  /\ Len(flat) = at[Len(seqs)]
  /\ \A q \in 1 .. Len(seqs) :
       /\ at[q] <= at[Len(seqs)]
       /\ \A i \in 1 .. Len(seqs[q]) : flat[at[q - 1] + i] = seqs[q][i]

\* Flattened sequences stand one after the other.
LEMMA FlattenedAt ==
  ASSUME NEW Elem, NEW seqs \in Seq(Seq(Elem)), NEW at, Offsets(seqs, at)
  PROVE  StandAt(Elem, FlattenSeq(seqs), seqs, at)
  <1> USE DEF Offsets, StandAt
  <1> DEFINE n == Len(seqs)
             Placed(s, m) == \A q \in 1 .. m :
               /\ at[q] <= at[m]
               /\ \A i \in 1 .. Len(seqs[q]) : s[at[q - 1] + i] = seqs[q][i]
             Good(s, m) ==
               s \in Seq(Elem) /\ Len(s) = at[m] /\ Placed(s, m)
  <1>1. n \in Nat /\ \A q \in 1 .. n : seqs[q] \in Seq(Elem)
    OBVIOUS
  <1>2. CASE n = 0
    <2>1. FlattenSeq(seqs) = seqs
      BY <1>2 DEF FlattenSeq
    <2>2. seqs \in Seq(Elem) /\ Len(seqs) = at[n]
      BY <1>2
    <2>3. \A q \in 1 .. n : FALSE
      BY <1>2
    <2> QED
      BY <2>1, <2>2, <2>3
  <1>3. CASE n # 0
    <2>1. PICK f : /\ FlattenSeq(seqs) = f[n]
                   /\ f[1] = seqs[1]
                   /\ \A i \in 2 .. n : f[i] = f[i - 1] \o seqs[i]
      BY <1>3, FlattenSteps, Zenon DEF n
    <2>2. Good(f[1], 1)
      <3>1. f[1] \in Seq(Elem) /\ Len(f[1]) = at[1]
        BY <1>1, <1>3, <2>1
      <3>2. \A q \in 1 .. 1 : q = 1
        OBVIOUS
      <3>3. \A i \in 1 .. Len(seqs[1]) : at[1 - 1] + i = i
        BY <1>1, <1>3
      <3>4. at[1] <= at[1]
        <4>1. 1 \in 0 .. n
          BY <1>1, <1>3
        <4> QED
          BY <4>1
      <3> QED
        BY <2>1, <3>1, <3>2, <3>3, <3>4, Zenon
    <2>3. ASSUME NEW m \in 2 .. n, Good(f[m - 1], m - 1)
          PROVE  Good(f[m], m)
      <3> DEFINE s == f[m - 1]
                 t == seqs[m]
      <3>1. m \in Nat /\ m - 1 \in 1 .. n /\ m \in 1 .. n /\ m - 1 \in Nat
            /\ at[m - 1] \in Nat /\ at[m] \in Nat
        BY <1>1
      <3>2. f[m] = s \o t /\ s \in Seq(Elem) /\ t \in Seq(Elem)
            /\ Len(s) = at[m - 1] /\ at[m] = at[m - 1] + Len(t)
        BY <1>1, <2>1, <2>3, <3>1
      <3>3. Placed(s, m - 1)
        BY <2>3
      <3>6. s \in Seq(Elem) /\ t \in Seq(Elem)
        BY <3>2
      <3> HIDE DEF s, t, n
      <3>4. /\ f[m] \in Seq(Elem) /\ Len(f[m]) = Len(s) + Len(t)
            /\ \A i \in 1 .. Len(s) : f[m][i] = s[i]
            /\ \A i \in 1 .. Len(t) : f[m][Len(s) + i] = t[i]
        <4>1. /\ s \o t \in Seq(Elem) /\ Len(s \o t) = Len(s) + Len(t)
              /\ \A i \in 1 .. Len(s) : (s \o t)[i] = s[i]
              /\ \A i \in 1 .. Len(t) : (s \o t)[Len(s) + i] = t[i]
          BY <3>6
        <4>2. f[m] = s \o t
          BY <3>2
        <4> QED
          BY <4>1, <4>2, Zenon
      <3>7. Len(t) \in Nat /\ Len(s) = at[m - 1] /\ at[m] = at[m - 1] + Len(t)
        BY <3>2, <3>6
      <3>8. at[m - 1] <= at[m]
        BY <3>1, <3>7
      <3>5. ASSUME NEW q \in 1 .. m
            PROVE  /\ at[q] <= at[m]
                   /\ \A i \in 1 .. Len(seqs[q]) :
                        f[m][at[q - 1] + i] = seqs[q][i]
        <4>1. CASE q = m
          <5>1. \A i \in 1 .. Len(seqs[q]) : f[m][at[q - 1] + i] = seqs[q][i]
            BY <3>4, <3>7, <4>1, Zenon DEF t
          <5>2. at[q] <= at[m]
            BY <3>1, <4>1
          <5> QED
            BY <5>1, <5>2, Zenon
        <4>2. CASE q # m
          <5>1. q \in 1 .. m - 1 /\ q \in 1 .. n /\ q - 1 \in 0 .. n
            BY <1>1, <3>1, <4>2
          <5>2. at[q] <= at[m - 1] /\ at[q] \in Nat /\ at[q - 1] \in Nat
                /\ at[q] = at[q - 1] + Len(seqs[q]) /\ seqs[q] \in Seq(Elem)
            BY <1>1, <3>3, <5>1 DEF n
          <5>3. ASSUME NEW i \in 1 .. Len(seqs[q])
                PROVE  f[m][at[q - 1] + i] = seqs[q][i]
            <6>1. at[q - 1] + i \in 1 .. Len(s)
              <7>1. Len(s) = at[m - 1] /\ at[m - 1] \in Nat
                BY <3>1, <3>7
              <7>2. Len(seqs[q]) \in Nat
                BY <5>2
              <7> DEFINE a == at[q - 1]
                         b == at[m - 1]
                         c == at[q]
                         l == Len(seqs[q])
              <7>3. /\ a \in Nat /\ b \in Nat /\ l \in Nat /\ c \in Nat
                    /\ c = a + l /\ c <= b /\ i \in 1 .. l /\ Len(s) = b
                BY <5>2, <7>1, <7>2
              <7> HIDE DEF a, b, c, l
              <7>4. a + i \in 1 .. b
                BY <7>3
              <7> QED
                BY <7>3, <7>4, Zenon DEF a
            <6>2. s[at[q - 1] + i] = seqs[q][i]
              BY <3>3, <5>1
            <6> QED
              BY <3>4, <6>1, <6>2, Zenon
          <5>4. at[q] <= at[m]
            BY <3>1, <3>8, <5>2
          <5> QED
            BY <5>3, <5>4, Zenon
        <4> QED
          BY <4>1, <4>2
      <3> QED
        BY <3>2, <3>4, <3>5
    <2> DEFINE Bad == {m \in 1 .. n : ~Good(f[m], m)}
    <2> HIDE DEF Good, n
    <2>4. Bad = {}
      <3> SUFFICES ASSUME Bad # {} PROVE FALSE
        OBVIOUS
      <3>1. Bad \in SUBSET Nat
        BY <1>1
      <3>2. PICK m \in Bad : \A k \in Bad : m <= k
        BY <3>1, Least, Zenon
      <3>3. m # 1
        BY <2>2, <3>2
      <3>4. m \in 2 .. n /\ m - 1 \in 1 .. n /\ ~(m <= m - 1)
        BY <1>1, <3>2, <3>3
      <3>5. Good(f[m - 1], m - 1)
        BY <3>2, <3>4
      <3> QED
        BY <2>3, <3>2, <3>4, <3>5
    <2>5. Good(f[n], n)
      <3>1. n \in 1 .. n
        BY <1>1, <1>3
      <3> QED
        BY <2>4, <3>1
    <2> QED
      BY <2>1, <2>5, Zenon DEF Good, n
  <1> QED
    BY <1>2, <1>3

\* Sequences of at most three make one of at most three times as many.
LEMMA FlattenedByThree ==
  ASSUME NEW Elem, NEW seqs \in Seq(Seq(Elem)),
         \A q \in 1 .. Len(seqs) : Len(seqs[q]) <= 3
  PROVE  /\ FlattenSeq(seqs) \in Seq(Elem)
         /\ Len(FlattenSeq(seqs)) <= 3 * Len(seqs)
  <1> DEFINE n == Len(seqs)
             Good(s, m) == s \in Seq(Elem) /\ Len(s) <= 3 * m
  <1>1. n \in Nat
        /\ \A q \in 1 .. n : seqs[q] \in Seq(Elem) /\ Len(seqs[q]) <= 3
    OBVIOUS
  <1>2. CASE n = 0
    <2>1. FlattenSeq(seqs) = seqs
      BY <1>2 DEF FlattenSeq
    <2>2. seqs \in Seq(Elem)
      BY <1>2
    <2> QED
      BY <1>2, <2>1, <2>2
  <1>3. CASE n # 0
    <2>1. PICK f : /\ FlattenSeq(seqs) = f[n]
                   /\ f[1] = seqs[1]
                   /\ \A i \in 2 .. n : f[i] = f[i - 1] \o seqs[i]
      BY <1>3, FlattenSteps, Zenon DEF n
    <2>2. Good(f[1], 1)
      BY <1>1, <1>3, <2>1
    <2>3. ASSUME NEW m \in 2 .. n, Good(f[m - 1], m - 1)
          PROVE  Good(f[m], m)
      <3> DEFINE s == f[m - 1]
                 t == seqs[m]
      <3>1. m \in 1 .. n /\ m \in Nat
        BY <1>1
      <3>2. s \in Seq(Elem) /\ Len(s) <= 3 * (m - 1)
            /\ t \in Seq(Elem) /\ Len(t) <= 3
        BY <1>1, <2>3, <3>1
      <3>3. f[m] = s \o t
        BY <2>1
      <3> HIDE DEF s, t, n
      <3>4. s \o t \in Seq(Elem) /\ Len(s \o t) = Len(s) + Len(t)
            /\ Len(s) \in Nat /\ Len(t) \in Nat
        BY <3>2
      <3>5. Len(s \o t) <= 3 * m
        BY <3>1, <3>2, <3>4
      <3> QED
        BY <3>3, <3>4, <3>5, Zenon
    <2> DEFINE Bad == {m \in 1 .. n : ~Good(f[m], m)}
    <2> HIDE DEF Good, n
    <2>4. Bad = {}
      <3> SUFFICES ASSUME Bad # {} PROVE FALSE
        OBVIOUS
      <3>1. Bad \in SUBSET Nat
        BY <1>1
      <3>2. PICK m \in Bad : \A k \in Bad : m <= k
        BY <3>1, Least, Zenon
      <3>3. m # 1
        BY <2>2, <3>2
      <3>4. m \in 2 .. n /\ m - 1 \in 1 .. n /\ ~(m <= m - 1)
        BY <1>1, <3>2, <3>3
      <3>5. Good(f[m - 1], m - 1)
        BY <3>2, <3>4
      <3> QED
        BY <2>3, <3>2, <3>4, <3>5
    <2>5. n \in 1 .. n
      BY <1>1, <1>3
    <2>6. Good(f[n], n)
      BY <2>4, <2>5
    <2> QED
      BY <2>1, <2>6, Zenon DEF Good, n
  <1> QED
    BY <1>2, <1>3

-----------------------------------------------------------------------------
(* The two tables.                                                         *)

\* A byte and a character of the table.
IsByte(b) == b \in Nat /\ b < 256
IsCharacter(c) == c \in Nat /\ c <= 127 /\ c # 10 /\ c # 13

\* The ranges of base64_enc_map: a value and its character.
Maps(i, c) ==
  \/ i < 26 /\ c = 65 + i
  \/ 26 <= i /\ i <= 51 /\ c = 71 + i
  \/ 52 <= i /\ i <= 61 /\ c = i - 4
  \/ i = 62 /\ c = 43
  \/ i = 63 /\ c = 47

\* The table, range by range.
LEMMA EncMapRanges ==
  ASSUME NEW i \in 0 .. 63
  PROVE  EncMap[i] \in Int /\ Maps(i, EncMap[i])
  <1> DEFINE c == EncMap[i]
  <1>1. CASE i < 26
    <2>1. c = 65 + i
      BY <1>1 DEF EncMap
    <2> QED
      BY <1>1, <2>1 DEF Maps
  <1>2. CASE 26 <= i /\ i <= 51
    <2>1. c = 71 + i
      BY <1>2 DEF EncMap
    <2> QED
      BY <1>2, <2>1 DEF Maps
  <1>3. CASE 52 <= i /\ i <= 61
    <2>1. c = i - 4
      BY <1>3 DEF EncMap
    <2> QED
      BY <1>3, <2>1 DEF Maps
  <1>4. CASE i = 62
    <2>1. c = 43
      BY <1>4 DEF EncMap
    <2> QED
      BY <1>4, <2>1 DEF Maps
  <1>5. CASE i = 63
    <2>1. c = 47
      BY <1>5 DEF EncMap
    <2> QED
      BY <1>5, <2>1 DEF Maps
  <1>6. i < 26 \/ (26 <= i /\ i <= 51) \/ (52 <= i /\ i <= 61) \/ i = 62
        \/ i = 63
    OBVIOUS
  <1> QED
    BY <1>1, <1>2, <1>3, <1>4, <1>5, <1>6, Zenon

\* No range has a line's end or a '='.
LEMMA MapsCharacter ==
  ASSUME NEW i \in Int, NEW c \in Int, 0 <= i, Maps(i, c)
  PROVE  IsCharacter(c) /\ c # 61
  BY DEF Maps, IsCharacter

\* No two ranges have a character in common.
LEMMA MapsApart ==
  ASSUME NEW i \in Int, NEW k \in Int, NEW c \in Int, 0 <= i, 0 <= k,
         Maps(i, c), Maps(k, c)
  PROVE  i = k
  <1>1. /\ c \in 65 .. 90 => i = c - 65 /\ k = c - 65
        /\ c \in 97 .. 122 => i = c - 71 /\ k = c - 71
        /\ c \in 48 .. 57 => i = c + 4 /\ k = c + 4
        /\ c = 43 => i = 62 /\ k = 62
        /\ c = 47 => i = 63 /\ k = 63
    BY DEF Maps
  <1>2. c \in 65 .. 90 \/ c \in 97 .. 122 \/ c \in 48 .. 57 \/ c = 43 \/ c = 47
    BY DEF Maps
  <1> QED
    BY <1>1, <1>2

\* A value of six bits.
Six == 0 .. 63

\* No two values have the same character, and none has one of those that are
\* no part of the table.
LEMMA EncMapCharacters ==
  ASSUME NEW i \in Six
  PROVE  IsCharacter(EncMap[i]) /\ EncMap[i] # 61
  <1>1. i \in Int /\ 0 <= i /\ i \in 0 .. 63
    BY DEF Six
  <1>2. EncMap[i] \in Int /\ Maps(i, EncMap[i])
    BY <1>1, EncMapRanges
  <1> QED
    BY <1>1, <1>2, MapsCharacter, Zenon

\* Hence no two values have.
LEMMA EncMapInjective ==
  ASSUME NEW i \in Six, NEW k \in Six, EncMap[i] = EncMap[k]
  PROVE  i = k
  <1>0. i \in 0 .. 63 /\ k \in 0 .. 63
    BY Zenon DEF Six
  <1>1. i \in Int /\ 0 <= i /\ k \in Int /\ 0 <= k
    BY <1>0
  <1>2. EncMap[i] \in Int /\ Maps(i, EncMap[i]) /\ Maps(k, EncMap[k])
    BY <1>0, EncMapRanges, Zenon
  <1>3. Maps(k, EncMap[i])
    BY <1>2, Zenon
  <1> QED
    BY <1>1, <1>2, <1>3, MapsApart, Zenon

\* base64_dec_map undoes base64_enc_map.
LEMMA DecMapUndoes ==
  ASSUME NEW i \in Six
  PROVE  DecMap[EncMap[i]] = i
  <1> DEFINE c == EncMap[i]
  <1>1. c \in 0 .. 127 /\ c # 61
    <2>1. IsCharacter(c) /\ c # 61
      BY EncMapCharacters, ZenonT(30)
    <2> HIDE DEF c
    <2> QED
      BY <2>1 DEF IsCharacter
  <1>2. c = EncMap[i]
    OBVIOUS
  <1> HIDE DEF c
  <1>3. DecMap[c] = IF \E k \in Six : EncMap[k] = c
                    THEN CHOOSE k \in Six : EncMap[k] = c ELSE 127
    BY <1>1, ZenonT(30) DEF DecMap, Six
  <1>4. \A k \in Six : EncMap[k] = c => k = i
    BY <1>2, EncMapInjective, Zenon
  <1>5. (CHOOSE k \in Six : EncMap[k] = c) = i
    BY <1>2, <1>4, Zenon
  <1>6. DecMap[c] = i
    BY <1>2, <1>3, <1>5, Zenon
  <1> QED
    BY <1>6, Zenon DEF c

\* What a character of the table or a '=' gives to its quartet.
Value(c) == DecMap[c] % 64

\* The value of a character of the table, and of a '='.
LEMMA Values ==
  /\ \A i \in Six : Value(EncMap[i]) = i
  /\ Value(61) = 0
  <1>1. \A i \in Six : i % 64 = i
    BY DEF Six
  <1>2. \A i \in Six : Value(EncMap[i]) = i
    BY <1>1, DecMapUndoes, Zenon DEF Value
  <1>3. DecMap[61] = 64
    BY DEF DecMap
  <1> QED
    BY <1>2, <1>3 DEF Value

\* The bits of a quartet of three bytes.
LEMMA ThreeBytes ==
  ASSUME NEW a \in Nat, NEW b \in Nat, NEW c \in Nat,
         IsByte(a), IsByte(b), IsByte(c)
  PROVE  /\ a \div 4 \in Six
         /\ ((a % 4) * 16) + (b \div 16) \in Six
         /\ ((b % 16) * 4) + (c \div 64) \in Six
         /\ c % 64 \in Six
         /\ ((a \div 4) * 4) + ((((a % 4) * 16) + (b \div 16)) \div 16) = a
         /\ (((((a % 4) * 16) + (b \div 16)) % 16) * 16)
              + ((((b % 16) * 4) + (c \div 64)) \div 4) = b
         /\ (((((b % 16) * 4) + (c \div 64)) % 4) * 64) + (c % 64) = c
  <1> DEFINE q == a % 4
             r == b \div 16
             s == b % 16
             t == c \div 64
  <1>1. /\ a = 4 * (a \div 4) + q /\ q \in 0 .. 3 /\ a \div 4 \in 0 .. 63
        /\ b = 16 * r + s /\ r \in 0 .. 15 /\ s \in 0 .. 15
        /\ c = 64 * t + (c % 64) /\ t \in 0 .. 3 /\ c % 64 \in 0 .. 63
    BY DEF IsByte
  <1> HIDE DEF q, r, s, t
  <1>2. /\ (q * 16) + r \in 0 .. 63 /\ (s * 4) + t \in 0 .. 63
        /\ ((q * 16) + r) \div 16 = q /\ ((q * 16) + r) % 16 = r
        /\ ((s * 4) + t) \div 4 = s /\ ((s * 4) + t) % 4 = t
    BY <1>1
  <1>3. /\ ((a \div 4) * 4) + (((q * 16) + r) \div 16) = a
        /\ ((((q * 16) + r) % 16) * 16) + (((s * 4) + t) \div 4) = b
        /\ ((((s * 4) + t) % 4) * 64) + (c % 64) = c
    BY <1>1, <1>2
  <1> QED
    BY <1>1, <1>2, <1>3 DEF q, r, s, t, Six

-----------------------------------------------------------------------------
(* base64_encode: four characters for each three bytes.                    *)

\* A sequence of bytes.
IsData(src) == src \in Seq(Nat) /\ \A i \in 1 .. Len(src) : IsByte(src[i])

\* How many quartets the characters of n bytes are.
Quartets(n) == (n + 2) \div 3

\* The bytes of a quartet, 0 for those that are behind the end.
ByteAt(src, i) == IF i <= Len(src) THEN src[i] ELSE 0

\* Its values of six bits.
SixAt(src, k, i) ==
  LET a == ByteAt(src, (3 * k) - 2)
      b == ByteAt(src, (3 * k) - 1)
      c == ByteAt(src, 3 * k)
  IN  CASE i = 1 -> a \div 4
        [] i = 2 -> ((a % 4) * 16) + (b \div 16)
        [] i = 3 -> ((b % 16) * 4) + (c \div 64)
        [] OTHER -> c % 64

\* Whether there is one for the i-th character, or a '='.
HasSix(src, k, i) == i <= 2 \/ (3 * k) + i - 4 <= Len(src)

\* The character there is.  (These have names because a prover that counts
\* with successors cannot take the numbers.)
Places == 1 .. 4
Character(src, k, i) ==
  IF HasSix(src, k, i) THEN EncMap[SixAt(src, k, i)] ELSE 61

\* The k-th three bytes.
ThreeOf(src, k) ==
  SubSeq(src, (3 * k) - 2, IF 3 * k < Len(src) THEN 3 * k ELSE Len(src))

\* base64_encode's count of characters is four for each started three bytes.
LEMMA QuartetCount ==
  ASSUME NEW n \in Nat
  PROVE  /\ Quartets(n) \in Nat
         /\ n <= 3 * Quartets(n) /\ 3 * Quartets(n) <= n + 2
         /\ EncodedSize(n) = 4 * Quartets(n)
  <1> DEFINE q == Quartets(n)
             m == (n * 8) \div 6
  <1>1. q \in Nat /\ n <= 3 * q /\ 3 * q <= n + 2
    BY DEF Quartets
  <1>2. m \in Nat /\ 6 * m <= n * 8 /\ n * 8 < (6 * m) + 6
    OBVIOUS
  <1>3. EncodedSize(n) = m + (CASE (n * 8) - (m * 6) = 2 -> 3
                                [] (n * 8) - (m * 6) = 4 -> 2 [] OTHER -> 0)
    BY DEF EncodedSize
  <1> HIDE DEF q, m
  <1>4. CASE n = 3 * q
    <2>1. m = 4 * q
      BY <1>1, <1>2, <1>4
    <2> QED
      BY <1>1, <1>3, <1>4, <2>1 DEF q
  <1>5. CASE n = (3 * q) - 1
    <2>1. m = (4 * q) - 2 /\ (n * 8) - (m * 6) = 4
      BY <1>1, <1>2, <1>5
    <2> QED
      BY <1>1, <1>3, <1>5, <2>1 DEF q
  <1>6. CASE n = (3 * q) - 2
    <2>1. m = (4 * q) - 3 /\ (n * 8) - (m * 6) = 2
      BY <1>1, <1>2, <1>6
    <2> QED
      BY <1>1, <1>3, <1>6, <2>1 DEF q
  <1> QED
    BY <1>1, <1>4, <1>5, <1>6

\* They are bytes,
LEMMA BytesAt ==
  ASSUME NEW src, IsData(src), NEW i \in Nat \ {0}
  PROVE  ByteAt(src, i) \in Nat /\ IsByte(ByteAt(src, i))
  BY DEF IsData, ByteAt, IsByte

\* and their values are of six bits.
LEMMA SixesAt ==
  ASSUME NEW src, IsData(src), NEW k \in Nat \ {0}
  PROVE  \A i \in Places : SixAt(src, k, i) \in Six
  <1> DEFINE a == ByteAt(src, (3 * k) - 2)
             b == ByteAt(src, (3 * k) - 1)
             c == ByteAt(src, 3 * k)
  <1>1. (3 * k) - 2 \in Nat \ {0} /\ (3 * k) - 1 \in Nat \ {0}
        /\ 3 * k \in Nat \ {0}
    OBVIOUS
  <1>2. /\ a \in Nat /\ IsByte(a) /\ b \in Nat /\ IsByte(b)
        /\ c \in Nat /\ IsByte(c)
    BY <1>1, BytesAt
  <1>3. \A i \in 1 .. 4 : SixAt(src, k, i) =
          IF i = 1 THEN a \div 4
          ELSE IF i = 2 THEN ((a % 4) * 16) + (b \div 16)
          ELSE IF i = 3 THEN ((b % 16) * 4) + (c \div 64) ELSE c % 64
    BY DEF SixAt
  <1> HIDE DEF a, b, c
  <1>4. /\ a \div 4 \in Six
        /\ ((a % 4) * 16) + (b \div 16) \in Six
        /\ ((b % 16) * 4) + (c \div 64) \in Six
        /\ c % 64 \in Six
    BY <1>2, ThreeBytes
  <1> QED
    BY <1>3, <1>4 DEF Places

\* The four characters of the k-th quartet.
LEMMA QuartetAt ==
  ASSUME NEW src, IsData(src), NEW k \in 1 .. Quartets(Len(src))
  PROVE  /\ Quartet(ThreeOf(src, k)) \in Seq(Nat)
         /\ Len(Quartet(ThreeOf(src, k))) = 4
         /\ \A i \in Places :
              Quartet(ThreeOf(src, k))[i] = Character(src, k, i)
  <1> DEFINE n == Len(src)
             last == IF 3 * k < n THEN 3 * k ELSE n
             c == SubSeq(src, (3 * k) - 2, last)
             byte(i) == IF i <= Len(c) THEN c[i] ELSE 0
  <1>1. n \in Nat /\ src \in Seq(Nat) /\ k \in Nat \ {0} /\ (3 * k) - 2 <= n
    <2>1. n \in Nat /\ src \in Seq(Nat)
      BY DEF IsData
    <2> HIDE DEF n
    <2> DEFINE q == Quartets(n)
    <2>2. q \in Nat /\ 3 * q <= n + 2 /\ k \in 1 .. q
      BY <2>1, QuartetCount DEF n
    <2> HIDE DEF q
    <2>3. k \in Nat \ {0} /\ (3 * k) - 2 <= n
      BY <2>1, <2>2
    <2> QED
      BY <2>1, <2>3
  <1>3. last \in Nat /\ last <= n /\ last <= 3 * k /\ last >= (3 * k) - 2
        /\ (last = n \/ last = 3 * k)
    BY <1>1
  <1> HIDE DEF last
  <1>2. /\ Len(c) = last - (3 * k) + 3
        /\ \A i \in 1 .. Len(c) : c[i] = src[((3 * k) - 3) + i]
    <2> DEFINE m == (3 * k) - 2
    <2>1. m \in Nat \ {0} /\ m <= last /\ last <= Len(src)
      BY <1>1, <1>3
    <2> HIDE DEF m
    <2> DEFINE p == SubSeq(src, m, last)
    <2>2. Len(p) = last - m + 1 /\ \A i \in 1 .. Len(p) : p[i] = src[m + i - 1]
      BY <1>1, <1>3, <2>1
    <2> HIDE DEF p
    <2>3. p = c /\ m = (3 * k) - 2
      BY DEF p, m
    <2>4. Len(c) = last - m + 1 /\ \A i \in 1 .. Len(c) : c[i] = src[m + i - 1]
      BY <2>2, <2>3, Zenon
    <2> HIDE DEF c
    <2>5. Len(c) = last - (3 * k) + 3
      BY <1>1, <1>3, <2>3, <2>4
    <2>6. \A i \in 1 .. Len(c) : m + i - 1 = ((3 * k) - 3) + i
      BY <1>1, <1>3, <2>3, <2>5
    <2> QED
      BY <2>4, <2>5, <2>6
  <1> HIDE DEF c
  <1>4. /\ byte(1) = ByteAt(src, (3 * k) - 2)
        /\ byte(2) = ByteAt(src, (3 * k) - 1)
        /\ byte(3) = ByteAt(src, 3 * k)
    BY <1>1, <1>2, <1>3 DEF ByteAt
  <1>5. Quartet(c) =
          <<EncMap[byte(1) \div 4],
            EncMap[((byte(1) % 4) * 16) + (byte(2) \div 16)],
            IF Len(c) > 1 THEN EncMap[((byte(2) % 16) * 4)
                                      + (byte(3) \div 64)]
                          ELSE 61,
            IF Len(c) > 2 THEN EncMap[byte(3) % 64] ELSE 61>>
    BY DEF Quartet
  <1> HIDE DEF byte
  <1>6. /\ Quartet(c)[1] = EncMap[SixAt(src, k, 1)]
        /\ Quartet(c)[2] = EncMap[SixAt(src, k, 2)]
        /\ Quartet(c)[3] = IF Len(c) > 1 THEN EncMap[SixAt(src, k, 3)] ELSE 61
        /\ Quartet(c)[4] = IF Len(c) > 2 THEN EncMap[SixAt(src, k, 4)] ELSE 61
        /\ Len(Quartet(c)) = 4
    BY <1>4, <1>5 DEF SixAt
  <1>7. /\ HasSix(src, k, 1) /\ HasSix(src, k, 2)
        /\ HasSix(src, k, 3) <=> Len(c) > 1
        /\ HasSix(src, k, 4) <=> Len(c) > 2
    BY <1>1, <1>2, <1>3 DEF HasSix
  <1>8. \A i \in 1 .. 4 : i = 1 \/ i = 2 \/ i = 3 \/ i = 4
    OBVIOUS
  <1>9. \A i \in 1 .. 4 : Quartet(c)[i] = Character(src, k, i)
    BY <1>6, <1>7, <1>8 DEF Character
  <1>10. \A i \in 1 .. 4 : Quartet(c)[i] \in Nat
    <2>1. \A i \in Places : EncMap[SixAt(src, k, i)] \in Nat
      BY <1>1, SixesAt, EncMapCharacters, Zenon DEF IsCharacter
    <2>2. \A i \in Places : Character(src, k, i) \in Nat
      BY <2>1 DEF Character
    <2> QED
      BY <1>9, <2>2 DEF Places
  <1>11. Quartet(c) \in Seq(Nat)
    BY <1>5, <1>10
  <1>12. c = ThreeOf(src, k)
    BY DEF c, last, n, ThreeOf
  <1> HIDE DEF n
  <1> QED
    BY <1>6, <1>9, <1>11, <1>12 DEF Places

\* Each character that base64_encode writes, at its place.
LEMMA EncodedParts ==
  ASSUME NEW src, IsData(src), NEW m, m = Quartets(Len(src))
  PROVE  /\ Encoded(src) \in Seq(Nat) /\ Len(Encoded(src)) = 4 * m
         /\ \A k \in 1 .. m : \A i \in Places :
              Encoded(src)[(4 * (k - 1)) + i] = Character(src, k, i)
  <1> DEFINE at == [q \in 0 .. m |-> 4 * q]
             C(k) == Quartet(ThreeOf(src, k))
             seqs == [k \in 1 .. m |-> C(k)]
  <1>1. m \in Nat
    BY QuartetCount DEF IsData
  <1>2. ASSUME NEW k \in 1 .. m
        PROVE  /\ C(k) \in Seq(Nat) /\ Len(C(k)) = 4
               /\ \A i \in Places : C(k)[i] = Character(src, k, i)
    BY QuartetAt
  <1>3. Encoded(src) = FlattenSeq(seqs)
    BY Zenon DEF Encoded, Quartets, ThreeOf
  <1> HIDE DEF C
  <1>4. /\ seqs \in Seq(Seq(Nat)) /\ Len(seqs) = m
        /\ \A k \in 1 .. m : seqs[k] = C(k) /\ Len(seqs[k]) = 4
    BY <1>1, <1>2
  <1>5. /\ \A q \in 0 .. m : at[q] \in Nat
        /\ at[0] = 0
        /\ \A q \in 1 .. m : at[q] = at[q - 1] + 4
        /\ at[m] = 4 * m
    BY <1>1
  <1>10. \A q \in 1 .. m : at[q - 1] = 4 * (q - 1)
    BY <1>1
  <1> HIDE DEF seqs, at
  <1>6. /\ \A q \in 0 .. Len(seqs) : at[q] \in Nat
        /\ \A q \in 1 .. Len(seqs) : at[q] = at[q - 1] + Len(seqs[q])
        /\ at[0] = 0 /\ seqs \in Seq(Seq(Nat))
    BY <1>1, <1>4, <1>5
  <1>7. /\ FlattenSeq(seqs) \in Seq(Nat)
        /\ Len(FlattenSeq(seqs)) = at[Len(seqs)]
        /\ \A q \in 1 .. Len(seqs) : \A i \in 1 .. Len(seqs[q]) :
             FlattenSeq(seqs)[at[q - 1] + i] = seqs[q][i]
    <2>1. Offsets(seqs, at) /\ seqs \in Seq(Seq(Nat))
      BY <1>6 DEF Offsets
    <2>2. StandAt(Nat, FlattenSeq(seqs), seqs, at)
      BY <2>1, FlattenedAt, Zenon
    <2> QED
      BY <2>2, Zenon DEF StandAt
  <1>8. ASSUME NEW k \in 1 .. m, NEW i \in Places
        PROVE  Encoded(src)[(4 * (k - 1)) + i] = Character(src, k, i)
    <2>1. k \in 1 .. Len(seqs) /\ i \in 1 .. Len(seqs[k]) /\ seqs[k] = C(k)
      BY <1>4 DEF Places
    <2>2. FlattenSeq(seqs)[at[k - 1] + i] = seqs[k][i]
      BY <1>7, <2>1, Zenon
    <2>3. C(k)[i] = Character(src, k, i)
      BY <1>2, Zenon
    <2>4. at[k - 1] = 4 * (k - 1)
      BY <1>10, Zenon
    <2> QED
      BY <1>3, <2>1, <2>2, <2>3, <2>4, Zenon
  <1>9. Encoded(src) \in Seq(Nat) /\ Len(Encoded(src)) = 4 * m
    BY <1>3, <1>4, <1>5, <1>7
  <1> QED
    BY <1>8, <1>9

\* The place of a character: its quartet and where it is there.
LEMMA QuartetPlace ==
  ASSUME NEW m \in Nat, NEW p \in 1 .. 4 * m
  PROVE  \E k \in 1 .. m, i \in Places : p = (4 * (k - 1)) + i
  <1> DEFINE k == ((p - 1) \div 4) + 1
             i == ((p - 1) % 4) + 1
  <1>1. k \in 1 .. m /\ i \in 1 .. 4 /\ p = (4 * (k - 1)) + i
    BY DEF Places
  <1>2. i \in Places
    BY <1>1 DEF Places
  <1> HIDE DEF k, i
  <1> QED
    BY <1>1, <1>2

\* Only in the last quartet the values of six bits may be fewer than four.
LEMMA LastQuartet ==
  ASSUME NEW n \in Nat, NEW m \in Nat, n <= 3 * m, 3 * m <= n + 2,
         NEW k \in Nat, k <= m, NEW i \in Nat, 1 <= i, i <= 4,
         NEW p, p = (4 * (k - 1)) + i
  PROVE  (i <= 2 \/ (3 * k) + i - 4 <= n)
         <=> ~(p > (4 * m) - ((3 * m) - n))
  <1>1. CASE k = m
    BY <1>1
  <1>2. CASE k # m
    <2>1. k + 1 <= m
      BY <1>2
    <2>2. (3 * k) + i - 4 <= n /\ p <= (4 * m) - ((3 * m) - n)
      BY <2>1
    <2> QED
      BY <2>2
  <1> QED
    BY <1>1, <1>2

\* What base64_decode accepts in a text.
Accepted(c) == IsCharacter(c) /\ DecMap[c] # 127
IsPad(c) == c = 61

\* The characters of a text that base64_decode accepts, with its '=' at the
\* end: one for each byte that its last quartet lacks.
LEMMA EncodedCharacters ==
  ASSUME NEW src, IsData(src), NEW m, m = Quartets(Len(src)),
         NEW p \in 1 .. 4 * m
  PROVE  /\ Accepted(Encoded(src)[p])
         /\ IsPad(Encoded(src)[p]) <=> p > (4 * m) - ((3 * m) - Len(src))
  <1> DEFINE out == Encoded(src)
             n == Len(src)
  <1>1. n \in Nat /\ m \in Nat /\ n <= 3 * m /\ 3 * m <= n + 2
    BY QuartetCount DEF IsData
  <1>2. PICK k \in 1 .. m, i \in Places : p = (4 * (k - 1)) + i
    BY <1>1, QuartetPlace
  <1>3. out[p] = Character(src, k, i)
    BY <1>2, EncodedParts, Zenon
  <1> HIDE DEF out
  <1>4. k \in Nat \ {0} /\ k <= m /\ i \in Nat /\ 1 <= i /\ i <= 4
    BY <1>1 DEF Places
  <1> HIDE DEF n
  <1>6. HasSix(src, k, i) <=> ~(p > (4 * m) - ((3 * m) - n))
    <2>1. HasSix(src, k, i) <=> i <= 2 \/ (3 * k) + i - 4 <= n
      BY DEF HasSix, n
    <2>2. (i <= 2 \/ (3 * k) + i - 4 <= n)
          <=> ~(p > (4 * m) - ((3 * m) - n))
      BY <1>1, <1>2, <1>4, LastQuartet
    <2> QED
      BY <2>1, <2>2, Zenon
  <1>7. SixAt(src, k, i) \in Six
    BY <1>4, SixesAt, Zenon
  <1>8. CASE HasSix(src, k, i)
    <2>1. IsCharacter(out[p]) /\ ~IsPad(out[p])
      BY <1>3, <1>7, <1>8, EncMapCharacters DEF Character, IsPad
    <2>2. DecMap[out[p]] \in Six
      BY <1>3, <1>7, <1>8, DecMapUndoes DEF Character
    <2>3. \A v \in Six : v # 127
      BY DEF Six
    <2>4. Accepted(out[p])
      BY <2>1, <2>2, <2>3 DEF Accepted
    <2> QED
      BY <1>6, <1>8, <2>1, <2>4, Zenon DEF n, out
  <1>9. CASE ~HasSix(src, k, i)
    <2>1. out[p] = 61
      BY <1>3, <1>9 DEF Character
    <2>2. Accepted(61) /\ IsPad(61)
      BY DEF DecMap, IsCharacter, Accepted, IsPad
    <2>3. Accepted(out[p]) /\ IsPad(out[p])
      BY <2>1, <2>2
    <2> QED
      BY <1>6, <1>9, <2>3, Zenon DEF n, out
  <1> QED
    BY <1>8, <1>9

-----------------------------------------------------------------------------
(* Texts with a line's end in them.                                        *)

\* Two sequences, one after the other, by their elements.
IsJoin(Elem, u, s, t) ==
  /\ u \in Seq(Elem) /\ Len(u) = Len(s) + Len(t)
  /\ \A i \in 1 .. Len(s) : u[i] = s[i]
  /\ \A i \in 1 .. Len(t) : u[Len(s) + i] = t[i]

\* It is what \o gives.
LEMMA JoinIs ==
  ASSUME NEW Elem, NEW s \in Seq(Elem), NEW t \in Seq(Elem)
  PROVE  IsJoin(Elem, s \o t, s, t)
  BY DEF IsJoin

\* Sequences with the same elements are the same.
LEMMA SameSequence ==
  ASSUME NEW Elem, NEW s \in Seq(Elem), NEW t \in Seq(Elem), Len(s) = Len(t),
         \A i \in 1 .. Len(s) : s[i] = t[i]
  PROVE  s = t
  OBVIOUS

\* s with the end of a line behind its p-th character, of h characters: none
\* for a text on one line.
Broken(s, t, p, h) ==
  /\ s \in Seq(Nat) /\ t \in Seq(Nat)
  /\ p \in 1 .. Len(s) /\ h \in 0 .. 2 /\ Len(t) = Len(s) + h
  /\ \A i \in 1 .. p : t[i] = s[i]
  /\ \A i \in p + 1 .. p + h : t[i] \in {10, 13} /\ IsBreak(t, i)
  /\ \A i \in p + 1 .. Len(s) : t[i + h] = s[i]

\* A text on one line is broken nowhere.
LEMMA Unbroken ==
  ASSUME NEW s \in Seq(Nat), s # <<>>
  PROVE  Broken(s, s, Len(s), 0)
  <1> DEFINE p == Len(s)
  <1>1. p \in Nat /\ p # 0
    OBVIOUS
  <1> HIDE DEF p
  <1>2. /\ p \in 1 .. p /\ 0 \in 0 .. 2 /\ p = p + 0
        /\ (\A i \in p + 1 .. p + 0 : FALSE) /\ (\A i \in p + 1 .. p : FALSE)
    BY <1>1
  <1>3. /\ \A i \in 1 .. p : s[i] = s[i]
        /\ \A i \in p + 1 .. p + 0 : s[i] \in {10, 13} /\ IsBreak(s, i)
        /\ \A i \in p + 1 .. p : s[i + 0] = s[i]
    BY <1>2, Zenon
  <1> QED
    BY <1>1, <1>2, <1>3, Zenon DEF Broken, p

\* Text in the middle of another one.
Spliced(s, p, e) == SubSeq(s, 1, p) \o e \o SubSeq(s, p + 1, Len(s))

\* What stands where in it.
LEMMA SplicedParts ==
  ASSUME NEW s \in Seq(Nat), NEW p \in 1 .. Len(s), NEW e \in Seq(Nat)
  PROVE  /\ Spliced(s, p, e) \in Seq(Nat)
         /\ Len(Spliced(s, p, e)) = Len(s) + Len(e)
         /\ \A i \in 1 .. p : Spliced(s, p, e)[i] = s[i]
         /\ \A i \in 1 .. Len(e) : Spliced(s, p, e)[p + i] = e[i]
         /\ \A i \in p + 1 .. Len(s) : Spliced(s, p, e)[i + Len(e)] = s[i]
  <1> DEFINE n == Len(s)
             h == Len(e)
             a == SubSeq(s, 1, p)
             b == SubSeq(s, p + 1, n)
             c == a \o e
             t == c \o b
  <1>1. n \in Nat /\ p \in Nat /\ p <= n /\ 1 <= p /\ h \in Nat
    OBVIOUS
  <1>3. a \in Seq(Nat) /\ Len(a) = p /\ \A i \in 1 .. p : a[i] = s[i]
    BY <1>1
  <1>4. b \in Seq(Nat) /\ Len(b) = n - p
        /\ \A i \in 1 .. n - p : b[i] = s[p + i]
    BY <1>1
  <1>6. t = Spliced(s, p, e)
    BY Zenon DEF Spliced
  <1> HIDE DEF a, b
  <1>5. c \in Seq(Nat) /\ Len(c) = p + h /\ (\A i \in 1 .. p : c[i] = a[i])
        /\ \A i \in 1 .. h : c[p + i] = e[i]
    <2>1. /\ c \in Seq(Nat) /\ Len(c) = Len(a) + h
          /\ \A i \in 1 .. Len(a) : c[i] = a[i]
          /\ \A i \in 1 .. h : c[Len(a) + i] = e[i]
      <3>1. IsJoin(Nat, c, a, e)
        BY <1>3, JoinIs, Zenon
      <3> QED
        BY <3>1, Zenon DEF IsJoin, h
    <2> QED
      BY <1>3, <2>1, Zenon
  <1> HIDE DEF c, h
  <1>11. /\ t \in Seq(Nat) /\ Len(t) = (p + h) + (n - p)
        /\ (\A i \in 1 .. p + h : t[i] = c[i])
        /\ \A i \in 1 .. n - p : t[(p + h) + i] = b[i]
    <2>1. /\ t \in Seq(Nat) /\ Len(t) = Len(c) + Len(b)
          /\ \A i \in 1 .. Len(c) : t[i] = c[i]
          /\ \A i \in 1 .. Len(b) : t[Len(c) + i] = b[i]
      <3>1. IsJoin(Nat, t, c, b)
        BY <1>4, <1>5, JoinIs, Zenon
      <3> QED
        BY <3>1, Zenon DEF IsJoin
    <2> QED
      BY <1>4, <1>5, <2>1, Zenon
  <1> HIDE DEF t, n
  <1>7. t \in Seq(Nat) /\ Len(t) = n + h
        /\ (\A i \in 1 .. p + h : t[i] = c[i])
        /\ \A i \in 1 .. n - p : t[p + h + i] = b[i]
    <2>1. (p + h) + (n - p) = n + h
      BY <1>1
    <2> QED
      BY <1>11, <2>1, Zenon
  <1>8. \A i \in 1 .. p : t[i] = s[i]
    <2>1. \A i \in 1 .. p : i \in 1 .. p + h
      BY <1>1
    <2> QED
      BY <1>3, <1>5, <1>7, <2>1, Zenon
  <1>9. \A i \in 1 .. h : t[p + i] = e[i]
    <2>1. \A i \in 1 .. h : p + i \in 1 .. p + h
      BY <1>1
    <2> QED
      BY <1>5, <1>7, <2>1, Zenon
  <1>10. \A i \in p + 1 .. n : t[i + h] = s[i]
    <2> TAKE i \in p + 1 .. n
    <2>1. i - p \in 1 .. n - p /\ p + (i - p) = i /\ p + h + (i - p) = i + h
      BY <1>1
    <2> QED
      BY <1>4, <1>7, <2>1, Zenon
  <1> QED
    BY <1>6, <1>7, <1>8, <1>9, <1>10, Zenon DEF h, n

\* The ends of a line.
LineEnds == {<<10>>, <<13, 10>>}

\* What the end of a line makes of a text.
LEMMA BreakBreaks ==
  ASSUME NEW s \in Seq(Nat), NEW p \in 1 .. Len(s), NEW e \in LineEnds
  PROVE  \E h \in 1 .. 2 : Broken(s, Spliced(s, p, e), p, h)
  <1> DEFINE h == Len(e)
             t == Spliced(s, p, e)
  <1>2. e \in Seq(Nat) /\ h \in 1 .. 2 /\ h \in 0 .. 2 /\ h \in Nat
    <2>1. e = <<10>> \/ e = <<13, 10>>
      BY DEF LineEnds
    <2>2. CASE e = <<10>>
      BY <2>2
    <2>3. CASE e = <<13, 10>>
      BY <2>3
    <2> QED
      BY <2>1, <2>2, <2>3
  <1>1. Len(s) \in Nat /\ p \in Nat /\ p <= Len(s)
    OBVIOUS
  <1>3. /\ t \in Seq(Nat) /\ Len(t) = Len(s) + h
        /\ \A i \in 1 .. p : t[i] = s[i]
        /\ \A i \in 1 .. h : t[p + i] = e[i]
        /\ \A i \in p + 1 .. Len(s) : t[i + h] = s[i]
    BY <1>2, SplicedParts
  <1> HIDE DEF t
  <1>4. ASSUME NEW i \in p + 1 .. p + h
         PROVE  t[i] \in {10, 13} /\ IsBreak(t, i)
    <2>1. CASE e = <<10>>
      <3>1. h = 1 /\ i = p + 1 /\ e[1] = 10
        BY <1>1, <1>2, <2>1 DEF h
      <3>2. t[i] = 10
        BY <1>3, <3>1
      <3> QED
        BY <3>2 DEF IsBreak
    <2>2. CASE e = <<13, 10>>
      <3>1. h = 2 /\ e[1] = 13 /\ e[2] = 10 /\ (i = p + 1 \/ i = p + 2)
        BY <1>1, <1>2, <2>2 DEF h
      <3>2. t[p + 1] = 13 /\ t[p + 2] = 10
        BY <1>3, <3>1
      <3>3. (p + 1) + 1 = p + 2 /\ p + 1 < Len(t)
        BY <1>1, <1>3, <3>1
      <3> QED
        BY <3>1, <3>2, <3>3 DEF IsBreak
    <2> QED
      BY <2>1, <2>2 DEF LineEnds
  <1> HIDE DEF h
  <1> QED
    BY <1>2, <1>3, <1>4, Zenon DEF Broken, t

\* Characters that are no line's end.
NoEnd(c) == c # 10 /\ c # 13

\* Where a character of a broken text is from.
IsFrom(s, t, p, h, i, r) ==
  /\ t[i] = s[r]
  /\ (r <= p /\ i = r) \/ (~(r <= p) /\ i = r + h)

\* Each of its characters but those of a line's end is from the text.
LEMMA Origin ==
  ASSUME NEW s, NEW t, NEW p, NEW h, Broken(s, t, p, h),
         NEW i \in 1 .. Len(t), ~IsBreak(t, i)
  PROVE  \E r \in 1 .. Len(s) : IsFrom(s, t, p, h, i, r)
  <1> USE DEF IsFrom
  <1>1. p \in 1 .. Len(s) /\ h \in Nat /\ Len(t) = Len(s) + h
        /\ Len(s) \in Nat
    BY DEF Broken
  <1>2. ~(i \in p + 1 .. p + h)
    BY Zenon DEF Broken
  <1>3. CASE i <= p
    <2>1. i \in 1 .. p /\ i \in 1 .. Len(s)
      BY <1>1, <1>3
    <2>2. t[i] = s[i]
      BY <2>1 DEF Broken
    <2> QED
      BY <1>3, <2>1, <2>2
  <1>4. CASE i > p + h
    <2> DEFINE r == i - h
    <2>1. r \in p + 1 .. Len(s) /\ r + h = i /\ ~(r <= p) /\ r \in 1 .. Len(s)
      BY <1>1, <1>4
    <2>2. t[r + h] = s[r]
      BY <2>1 DEF Broken
    <2> HIDE DEF r
    <2> QED
      BY <2>1, <2>2
  <1> QED
    BY <1>1, <1>2, <1>3, <1>4

\* base64_decode's second loop takes the line's end out of a text again.
LEMMA KeptWhole ==
  ASSUME NEW s, NEW t, NEW p, NEW h, Broken(s, t, p, h),
         \A i \in 1 .. Len(s) : NoEnd(s[i])
  PROVE  Kept(t) = s
  <1> DEFINE n == Len(s)
             l == Len(t)
             One(i) == IF t[i] \in {10, 13} THEN <<>> ELSE <<t[i]>>
             seqs == [i \in 1 .. l |-> One(i)]
             at == [i \in 0 .. l |->
                      IF i <= p THEN i ELSE IF i <= p + h THEN p ELSE i - h]
  <1>1. /\ s \in Seq(Nat) /\ t \in Seq(Nat) /\ n \in Nat /\ l = n + h
        /\ p \in 1 .. n /\ h \in Nat /\ l \in Nat
    BY DEF Broken
  <1>2. \A i \in 1 .. p : t[i] = s[i] /\ NoEnd(t[i])
    BY <1>1 DEF Broken
  <1>3. \A i \in p + 1 .. p + h : t[i] \in {10, 13}
    BY DEF Broken
  <1>4. \A i \in p + 1 .. n : t[i + h] = s[i] /\ NoEnd(t[i + h])
    BY <1>1 DEF Broken
  <1>5. Kept(t) = FlattenSeq(seqs)
    <2>1. DOMAIN t = 1 .. l
      BY <1>1
    <2> QED
      BY <2>1, Zenon DEF Kept
  <1> HIDE DEF n
  <1>6. \A i \in 1 .. l : One(i) \in Seq(Nat)
    BY <1>1
  <1>7. \A i \in 1 .. l :
          IF i \in p + 1 .. p + h THEN Len(One(i)) = 0
          ELSE Len(One(i)) = 1 /\ One(i)[1] = t[i]
    <2>1. \A i \in 1 .. l : i \in p + 1 .. p + h => Len(One(i)) = 0
      BY <1>3
    <2>2. ASSUME NEW i \in 1 .. l, ~(i \in p + 1 .. p + h)
          PROVE  NoEnd(t[i])
      <3>1. CASE i <= p
        BY <1>1, <1>2, <3>1
      <3>2. CASE i > p + h
        <4>1. i - h \in p + 1 .. n /\ (i - h) + h = i
          BY <1>1, <3>2
        <4> QED
          BY <1>4, <4>1
      <3> QED
        BY <1>1, <2>2, <3>1, <3>2
    <2>3. \A i \in 1 .. l : NoEnd(t[i]) => One(i) = <<t[i]>>
      BY DEF NoEnd
    <2> QED
      BY <2>1, <2>2, <2>3
  <1> HIDE DEF One
  <1>8. seqs \in Seq(Seq(Nat)) /\ Len(seqs) = l
        /\ \A i \in 1 .. l : seqs[i] = One(i)
    BY <1>1, <1>6
  <1> HIDE DEF seqs
  <1>9. Offsets(seqs, at)
    <2>1. (\A q \in 0 .. l : at[q] \in Nat) /\ at[0] = 0
      BY <1>1
    <2>2. ASSUME NEW q \in 1 .. l PROVE at[q] = at[q - 1] + Len(seqs[q])
      <3>1. q - 1 \in 0 .. l /\ q \in 0 .. l
        BY <1>1
      <3>2. CASE q \in p + 1 .. p + h
        <4>1. at[q] = p /\ at[q - 1] = p
          BY <1>1, <3>1, <3>2
        <4>2. Len(seqs[q]) = 0
          BY <1>7, <1>8, <3>2
        <4> HIDE DEF at
        <4> QED
          BY <1>1, <4>1, <4>2
      <3>3. CASE ~(q \in p + 1 .. p + h)
        <4>1. at[q] = at[q - 1] + 1
          BY <1>1, <3>1, <3>3
        <4>2. Len(seqs[q]) = 1
          BY <1>7, <1>8, <3>3
        <4> QED
          BY <4>1, <4>2
      <3> QED
        BY <3>2, <3>3
    <2> HIDE DEF at
    <2> QED
      BY <1>8, <2>1, <2>2, Zenon DEF Offsets
  <1>10. at[l] = n
    BY <1>1
  <1>11. \A i \in 1 .. p : at[i - 1] = i - 1
    BY <1>1
  <1>12. ASSUME NEW i \in p + 1 .. n PROVE at[(i + h) - 1] = i - 1
    <2> DEFINE q == (i + h) - 1
    <2>1. q \in 0 .. l /\ (q <= p => q = i - 1) /\ (q <= p + h => p = i - 1)
          /\ q - h = i - 1 /\ p \in Nat /\ q \in Nat
      BY <1>1
    <2> HIDE DEF q
    <2>2. at[q] = IF q <= p THEN q ELSE IF q <= p + h THEN p ELSE q - h
      BY <2>1
    <2> HIDE DEF at
    <2>3. at[q] = i - 1
      BY <2>1, <2>2
    <2> QED
      BY <2>3 DEF q
  <1> HIDE DEF at
  <1>13. StandAt(Nat, Kept(t), seqs, at)
    BY <1>5, <1>8, <1>9, FlattenedAt, Zenon
  <1>14. Kept(t) \in Seq(Nat) /\ Len(Kept(t)) = n
         /\ \A q \in 1 .. l : \A i \in 1 .. Len(seqs[q]) :
              Kept(t)[at[q - 1] + i] = seqs[q][i]
    BY <1>8, <1>10, <1>13, Zenon DEF StandAt
  <1>15. ASSUME NEW i \in 1 .. n PROVE Kept(t)[i] = s[i]
    <2>1. ASSUME NEW q \in 1 .. l, ~(q \in p + 1 .. p + h),
                 at[q - 1] = i - 1
          PROVE  Kept(t)[i] = t[q]
      <3>1. Len(seqs[q]) = 1 /\ seqs[q][1] = t[q] /\ 1 \in 1 .. 1
        BY <1>7, <1>8, <2>1
      <3>2. Kept(t)[at[q - 1] + 1] = seqs[q][1]
        BY <1>14, <3>1
      <3>3. at[q - 1] + 1 = i
        BY <2>1
      <3> QED
        BY <3>1, <3>2, <3>3
    <2>2. CASE i <= p
      <3>1. i \in 1 .. l /\ ~(i \in p + 1 .. p + h) /\ i \in 1 .. p
        BY <1>1, <2>2
      <3> QED
        BY <1>2, <1>11, <2>1, <3>1
    <2>3. CASE i > p
      <3>1. i + h \in 1 .. l /\ ~(i + h \in p + 1 .. p + h)
            /\ i \in p + 1 .. n
        BY <1>1, <2>3
      <3> QED
        BY <1>4, <1>12, <2>1, <3>1
    <2> QED
      BY <1>1, <2>2, <2>3
  <1> QED
    BY <1>1, <1>14, <1>15, SameSequence, Zenon DEF n

-----------------------------------------------------------------------------
(* The first loop of base64_decode: the text of an encoding is accepted.   *)

\* A text that base64_decode accepts: its last characters, of which there are
\* at most two, are '='.
Closed(s, d) ==
  /\ d \in 0 .. 2
  /\ \A i \in 1 .. Len(s) :
       Accepted(s[i]) /\ (IsPad(s[i]) <=> i > Len(s) - d)

Foreign(c) == c > 127 \/ DecMap[c] = 127

\* What base64_decode's first loop does not accept.
LEMMA InvalidIs ==
  ASSUME NEW t \in Seq(Nat), Invalid(t)
  PROVE  \E i \in 1 .. Len(t) :
           /\ ~IsBreak(t, i)
           /\ \/ Foreign(t[i])
              \/ \E k \in 1 .. i - 1 : IsPad(t[k]) /\ ~IsPad(t[i])
              \/ \E k, l \in 1 .. i - 1 : IsPad(t[k]) /\ IsPad(t[l]) /\ k # l
  <1>1. DOMAIN t = 1 .. Len(t)
    OBVIOUS
  <1>2. PICK i \in 1 .. Len(t) :
          /\ ~IsBreak(t, i)
          /\ \/ Foreign(t[i])
             \/ LET pads == {k \in 1 .. i - 1 : IsPad(t[k])}
                IN  pads # {} /\ (~IsPad(t[i]) \/ (\E k, l \in pads : k # l))
    BY <1>1 DEF Invalid, Foreign, IsPad
  <1> QED
    BY <1>2, Zenon

\* From one place only,
LEMMA FromOne ==
  ASSUME NEW s, NEW t, NEW p, NEW h, NEW r, NEW k, NEW l,
         IsFrom(s, t, p, h, k, r), IsFrom(s, t, p, h, l, r)
  PROVE  k = l
  BY DEF IsFrom

\* and in the same order.
LEMMA FromOrder ==
  ASSUME NEW s, NEW t, NEW p \in Nat, NEW h \in Nat, NEW r \in Nat,
         NEW q \in Nat, NEW i \in Nat, NEW k \in Nat, k < i,
         IsFrom(s, t, p, h, i, r), IsFrom(s, t, p, h, k, q)
  PROVE  q < r
  BY DEF IsFrom

\* Before the last of two '=' there is no other than the first.
LEMMA OneBetween ==
  ASSUME NEW n \in Nat, NEW d \in 0 .. 2, NEW r \in 1 .. n,
         NEW q \in 1 .. n, q > n - d, q < r,
         NEW u \in 1 .. n, u > n - d, u < r
  PROVE  q = u
  OBVIOUS

\* The first loop of base64_decode accepts it, wherever its line is broken.
LEMMA BrokenIsValid ==
  ASSUME NEW s, NEW t, NEW p, NEW h, Broken(s, t, p, h), NEW d, Closed(s, d)
  PROVE  ~Invalid(t)
  <1> DEFINE n == Len(s)
  <1>1. /\ s \in Seq(Nat) /\ t \in Seq(Nat) /\ n \in Nat /\ Len(t) = n + h
        /\ p \in 1 .. n /\ h \in Nat /\ d \in 0 .. 2
    BY DEF Broken, Closed
  <1>2. \A i \in 1 .. n : Accepted(s[i]) /\ (IsPad(s[i]) <=> i > n - d)
    BY DEF Closed
  <1> HIDE DEF n
  <1> DEFINE From(i, r) == IsFrom(s, t, p, h, i, r)
  <1>3. ASSUME NEW i \in 1 .. Len(t), ~IsBreak(t, i)
        PROVE  \E r \in 1 .. n : From(i, r)
    BY <1>3, Origin, Zenon DEF n
  <1>4. ASSUME NEW k \in 1 .. Len(t), IsPad(t[k])
        PROVE  \E r \in 1 .. n : From(k, r) /\ r > n - d
    <2>1. ~IsBreak(t, k)
      BY <1>4 DEF IsBreak, IsPad
    <2>2. PICK r \in 1 .. n : From(k, r)
      BY <1>3, <2>1
    <2>3. IsPad(s[r])
      BY <1>4, <2>2 DEF IsPad, IsFrom
    <2> QED
      BY <1>2, <2>2, <2>3
  <1>5. ASSUME NEW i \in 1 .. Len(t), ~IsBreak(t, i)
        PROVE  /\ ~Foreign(t[i])
               /\ \A k \in 1 .. i - 1 : IsPad(t[k]) => IsPad(t[i])
               /\ ~\E k, l \in 1 .. i - 1 :
                     IsPad(t[k]) /\ IsPad(t[l]) /\ k # l
    <2>1. PICK r \in 1 .. n : From(i, r)
      BY <1>3, <1>5
    <2>2. ~Foreign(t[i])
      BY <1>2, <2>1 DEF Accepted, IsCharacter, IsFrom, Foreign
    <2>3. ASSUME NEW k \in 1 .. i - 1, IsPad(t[k])
          PROVE  \E q \in 1 .. n : From(k, q) /\ q > n - d /\ q < r
      <3>1. k \in 1 .. Len(t) /\ k < i
        BY <1>1
      <3>2. PICK q \in 1 .. n : From(k, q) /\ q > n - d
        BY <1>4, <2>3, <3>1
      <3>3. q < r
        <4>1. /\ p \in Nat /\ r \in Nat /\ q \in Nat /\ i \in Nat
              /\ k \in Nat
          BY <1>1
        <4> QED
          BY <1>1, <2>1, <3>1, <3>2, <4>1, FromOrder, Zenon
      <3> QED
        BY <3>2, <3>3
    <2>4. ASSUME NEW k \in 1 .. i - 1, IsPad(t[k]) PROVE IsPad(t[i])
      <3>1. PICK q \in 1 .. n : From(k, q) /\ q > n - d /\ q < r
        BY <2>3, <2>4
      <3>2. r > n - d
        BY <1>1, <3>1
      <3>3. IsPad(s[r])
        BY <1>2, <3>2
      <3> QED
        BY <2>1, <3>3 DEF IsPad, IsFrom
    <2>5. ASSUME NEW k \in 1 .. i - 1, NEW l \in 1 .. i - 1,
                 IsPad(t[k]), IsPad(t[l]), k # l
          PROVE  FALSE
      <3>1. PICK q \in 1 .. n : From(k, q) /\ q > n - d /\ q < r
        BY <2>3, <2>5
      <3>2. PICK u \in 1 .. n : From(l, u) /\ u > n - d /\ u < r
        BY <2>3, <2>5
      <3>3. q # u
        BY <2>5, <3>1, <3>2, FromOne, Zenon
      <3>4. q = u
        BY <1>1, <3>1, <3>2, OneBetween, Zenon
      <3> QED
        BY <3>3, <3>4
    <2> QED
      BY <2>2, <2>4, <2>5, Zenon
  <1> QED
    BY <1>1, <1>5, InvalidIs, Zenon

\* Nor does it count no character at all.
LEMMA BrokenIsCounted ==
  ASSUME NEW s, NEW t, NEW p, NEW h, Broken(s, t, p, h), NoEnd(s[1])
  PROVE  /\ Cardinality({i \in DOMAIN t : ~IsBreak(t, i)}) \in Nat
         /\ Cardinality({i \in DOMAIN t : ~IsBreak(t, i)}) # 0
  <1> DEFINE C == {i \in DOMAIN t : ~IsBreak(t, i)}
  <1>1. t \in Seq(Nat) /\ DOMAIN t = 1 .. Len(t) /\ Len(t) \in Nat
    BY DEF Broken
  <1>2. p \in 1 .. Len(s) /\ Len(s) \in Nat /\ h \in Nat /\ Len(t) = Len(s) + h
    BY DEF Broken
  <1>3. 1 \in 1 .. p /\ 1 \in 1 .. Len(t)
    BY <1>2
  <1>4. t[1] = s[1]
    BY <1>3 DEF Broken
  <1>5. ~IsBreak(t, 1)
    BY <1>4 DEF IsBreak, NoEnd
  <1>6. 1 \in C
    BY <1>1, <1>3, <1>5
  <1>7. IsFiniteSet(C)
    <2>1. IsFiniteSet(1 .. Len(t))
      BY <1>1, FS_Interval
    <2>2. C \subseteq 1 .. Len(t)
      BY <1>1
    <2> QED
      BY <2>1, <2>2, FS_Subset, Zenon
  <1> HIDE DEF C
  <1>8. Cardinality(C) \in Nat
    BY <1>7, FS_CardinalityType
  <1>9. Cardinality(C) # 0
    BY <1>6, <1>7, FS_EmptySet
  <1> QED
    BY <1>8, <1>9, Zenon DEF C

-----------------------------------------------------------------------------
(* The second loop of base64_decode: each quartet gives its bytes back.    *)

\* The value of a character as base64_decode looks it up.
LEMMA CharacterValue ==
  ASSUME NEW src, IsData(src), NEW k \in Nat \ {0}, NEW i \in Places
  PROVE  Value(Character(src, k, i)) =
           IF HasSix(src, k, i) THEN SixAt(src, k, i) ELSE 0
  <1>1. SixAt(src, k, i) \in Six
    BY SixesAt, Zenon
  <1> QED
    BY <1>1, Values DEF Character

\* How many bytes are missing in the last quartet.
Missing(n) == (3 * Quartets(n)) - n

\* How many bytes a quartet stands for.
BytesIn(n, k) == IF k < Quartets(n) THEN 3 ELSE 3 - Missing(n)

\* The '=' up to the end of the quartet behind k characters.
Pads(s, k) == Cardinality({i \in 1 .. k + 4 : s[i] = 61})

\* They are all in the last quartet.
LEMMA PadsUpTo ==
  ASSUME NEW s, NEW m \in Nat, Len(s) = 4 * m, NEW d, Closed(s, d),
         NEW k \in 1 .. m
  PROVE  Pads(s, (4 * k) - 4) = IF k < m THEN 0 ELSE d
  <1> DEFINE C == {i \in 1 .. ((4 * k) - 4) + 4 : s[i] = 61}
  <1>1. d \in 0 .. 2 /\ k \in Nat /\ ((4 * k) - 4) + 4 = 4 * k
    BY DEF Closed
  <1>2. \A i \in 1 .. 4 * m : s[i] = 61 <=> i > (4 * m) - d
    BY DEF Closed, IsPad
  <1>3. \A i \in 1 .. 4 * k : i \in 1 .. 4 * m
    BY <1>1
  <1>6. Pads(s, (4 * k) - 4) = Cardinality(C)
    BY Zenon DEF Pads
  <1>4. CASE k < m
    <2>1. \A i \in 1 .. 4 * k : ~(i > (4 * m) - d)
      BY <1>1, <1>4
    <2>2. C = {}
      BY <1>1, <1>2, <1>3, <2>1
    <2> HIDE DEF C
    <2> QED
      BY <1>4, <1>6, <2>2, FS_EmptySet
  <1>5. CASE ~(k < m)
    <2>1. k = m
      BY <1>1, <1>5
    <2>2. C = ((4 * m) - d) + 1 .. 4 * m
      BY <1>1, <1>2, <2>1
    <2> DEFINE a == ((4 * m) - d) + 1
               b == 4 * m
    <2>3. a \in Int /\ b \in Int /\ (IF a > b THEN 0 ELSE b - a + 1) = d
      BY <1>1
    <2> HIDE DEF a, b, C
    <2>4. Cardinality(a .. b) = IF a > b THEN 0 ELSE b - a + 1
      BY <2>3, FS_Interval
    <2>5. C = a .. b
      BY <2>2, Zenon DEF a, b
    <2> QED
      BY <1>5, <1>6, <2>3, <2>4, <2>5
  <1> QED
    BY <1>4, <1>5

\* Up to three bytes.
LEMMA UpToThree ==
  ASSUME NEW a \in Nat, NEW b \in Nat, NEW c \in Nat, NEW j \in 1 .. 3
  PROVE  /\ SubSeq(<<a, b, c>>, 1, j) \in Seq(Nat)
         /\ Len(SubSeq(<<a, b, c>>, 1, j)) = j
         /\ \A i \in 1 .. j : SubSeq(<<a, b, c>>, 1, j)[i] =
              IF i = 1 THEN a ELSE IF i = 2 THEN b ELSE c
  <1> DEFINE t == <<a, b, c>>
  <1>1. t \in Seq(Nat) /\ Len(t) = 3 /\ t[1] = a /\ t[2] = b /\ t[3] = c
    OBVIOUS
  <1> HIDE DEF t
  <1>2. /\ SubSeq(t, 1, j) \in Seq(Nat) /\ Len(SubSeq(t, 1, j)) = j
        /\ \A i \in 1 .. j : SubSeq(t, 1, j)[i] = t[i]
    BY <1>1
  <1>3. \A i \in 1 .. j : t[i] = IF i = 1 THEN a ELSE IF i = 2 THEN b ELSE c
    BY <1>1
  <1> QED
    BY <1>2, <1>3 DEF t

\* What a quartet's values make are numbers.
LEMMA SixesTogether ==
  ASSUME NEW p \in Six, NEW q \in Six
  PROVE  /\ (p * 4) + (q \div 16) \in Nat
         /\ ((p % 16) * 16) + (q \div 4) \in Nat
         /\ ((p % 4) * 64) + q \in Nat
  BY DEF Six

\* Where the bytes of a quartet are.
LEMMA QuartetBytes ==
  ASSUME NEW n \in Nat, NEW m \in Nat, NEW d \in 0 .. 2, d = (3 * m) - n,
         NEW k \in Nat, k <= m, NEW j, j = IF k < m THEN 3 ELSE 3 - d
  PROVE  /\ j \in 1 .. 3 /\ j \in Nat
         /\ j > 1 => (3 * k) + 3 - 4 <= n
         /\ j > 2 => (3 * k) + 4 - 4 <= n
         /\ ((3 * k) - 3) + j <= n
  <1>1. CASE k < m
    BY <1>1
  <1>2. CASE ~(k < m)
    BY <1>2
  <1> QED
    BY <1>1, <1>2

\* The bytes that a quartet's characters give back.
LEMMA TripleAt ==
  ASSUME NEW src, IsData(src), NEW m, m = Quartets(Len(src)),
         NEW k \in 1 .. m, NEW s, s = Encoded(src),
         Closed(s, Missing(Len(src)))
  PROVE  /\ Triple(s, (4 * k) - 4) \in Seq(Nat)
         /\ Len(Triple(s, (4 * k) - 4)) = BytesIn(Len(src), k)
         /\ \A i \in 1 .. BytesIn(Len(src), k) :
              Triple(s, (4 * k) - 4)[i] = src[((3 * k) - 3) + i]
  <1> DEFINE n == Len(src)
             d == Missing(n)
             j == IF k < m THEN 3 ELSE 3 - d
             a == ByteAt(src, (3 * k) - 2)
             b == ByteAt(src, (3 * k) - 1)
             c == ByteAt(src, 3 * k)
             x(i) == Value(s[((4 * k) - 4) + i])
             u == (x(1) * 4) + (x(2) \div 16)
             v == ((x(2) % 16) * 16) + (x(3) \div 4)
             w == ((x(3) % 4) * 64) + x(4)
  <1>0. n \in Nat
    BY DEF IsData
  <1>1. n \in Nat /\ m \in Nat /\ n <= 3 * m /\ 3 * m <= n + 2 /\ d \in 0 .. 2
        /\ d = (3 * m) - n /\ k \in Nat \ {0} /\ k <= m
    <2>1. d = (3 * m) - n
      BY Zenon DEF Missing
    <2>2. m \in Nat /\ n <= 3 * m /\ 3 * m <= n + 2
      BY <1>0, QuartetCount, Zenon
    <2> HIDE DEF d, n
    <2> QED
      BY <1>0, <2>1, <2>2
  <1>2. \A i \in Places : s[(4 * (k - 1)) + i] = Character(src, k, i)
    BY EncodedParts, Zenon
  <1>13. Len(s) = 4 * m
    BY EncodedParts, Zenon
  <1>3. j = 3 - Pads(s, (4 * k) - 4)
    <2>1. Closed(s, d)
      OBVIOUS
    <2> HIDE DEF d
    <2>2. Pads(s, (4 * k) - 4) = IF k < m THEN 0 ELSE d
      BY <1>1, <1>13, <2>1, PadsUpTo, SMTT(20)
    <2> QED
      BY <1>1, <2>2
  <1>4. \A i \in Places : x(i) = IF HasSix(src, k, i) THEN SixAt(src, k, i)
                                                      ELSE 0
    <2>1. \A i \in Places : (4 * (k - 1)) + i = ((4 * k) - 4) + i
      BY <1>1 DEF Places
    <2> QED
      BY <1>1, <1>2, <2>1, CharacterValue, Zenon
  <1>5. Triple(s, (4 * k) - 4) = SubSeq(<<u, v, w>>, 1, j)
    BY <1>3, Zenon DEF Triple, Value, Pads
  <1>6. /\ a \in Nat /\ IsByte(a) /\ b \in Nat /\ IsByte(b)
        /\ c \in Nat /\ IsByte(c)
    <2>1. (3 * k) - 2 \in Nat \ {0} /\ (3 * k) - 1 \in Nat \ {0}
          /\ 3 * k \in Nat \ {0}
      BY <1>1
    <2> QED
      BY <2>1, BytesAt
  <1>7. /\ HasSix(src, k, 1) /\ HasSix(src, k, 2)
        /\ j > 1 => HasSix(src, k, 3)
        /\ j > 2 => HasSix(src, k, 4)
        /\ j \in 1 .. 3 /\ j \in Nat
        /\ \A i \in 1 .. j : ((3 * k) - 3) + i <= n
    <2> HIDE DEF d, n
    <2>1. \A i : HasSix(src, k, i) <=> i <= 2 \/ (3 * k) + i - 4 <= n
      BY Zenon DEF HasSix, n
    <2>2. /\ j \in 1 .. 3 /\ j \in Nat
          /\ j > 1 => (3 * k) + 3 - 4 <= n
          /\ j > 2 => (3 * k) + 4 - 4 <= n
          /\ ((3 * k) - 3) + j <= n
      <3>1. j = IF k < m THEN 3 ELSE 3 - d
        OBVIOUS
      <3> HIDE DEF j
      <3> QED
        BY <1>1, <3>1, QuartetBytes, SMTT(20)
    <2> HIDE DEF j
    <2> QED
      BY <1>1, <2>1, <2>2
  <1>8. /\ SixAt(src, k, 1) = a \div 4
        /\ SixAt(src, k, 2) = ((a % 4) * 16) + (b \div 16)
        /\ SixAt(src, k, 3) = ((b % 16) * 4) + (c \div 64)
        /\ SixAt(src, k, 4) = c % 64
    BY DEF SixAt
  <1> HIDE DEF x, j, a, b, c
  <1>9. /\ x(1) = SixAt(src, k, 1) /\ x(2) = SixAt(src, k, 2)
        /\ j > 1 => x(3) = SixAt(src, k, 3)
        /\ j > 2 => x(4) = SixAt(src, k, 4)
        /\ x(3) \in Six /\ x(4) \in Six
    <2>1. \A i \in Places : SixAt(src, k, i) \in Six
      BY <1>1, SixesAt
    <2>2. 1 \in Places /\ 2 \in Places /\ 3 \in Places /\ 4 \in Places
      BY DEF Places
    <2>3. 0 \in Six
      BY DEF Six
    <2> QED
      BY <1>4, <1>7, <2>1, <2>2, <2>3
  <1>10. /\ u = a
         /\ j > 1 => v = b
         /\ j > 2 => w = c
         /\ u \in Nat /\ v \in Nat /\ w \in Nat
    <2>1. /\ ((a \div 4) * 4) + ((((a % 4) * 16) + (b \div 16)) \div 16) = a
          /\ (((((a % 4) * 16) + (b \div 16)) % 16) * 16)
               + ((((b % 16) * 4) + (c \div 64)) \div 4) = b
          /\ (((((b % 16) * 4) + (c \div 64)) % 4) * 64) + (c % 64) = c
          /\ a \div 4 \in Six /\ ((a % 4) * 16) + (b \div 16) \in Six
      BY <1>6, ThreeBytes
    <2>2. x(1) = a \div 4 /\ x(2) = ((a % 4) * 16) + (b \div 16)
          /\ (j > 1 => x(3) = ((b % 16) * 4) + (c \div 64))
          /\ (j > 2 => x(4) = c % 64)
      BY <1>8, <1>9, Zenon
    <2>3. u = a /\ (j > 1 => v = b)
      BY <2>1, <2>2, Zenon
    <2>4. j > 2 => j > 1
      BY <1>7
    <2>5. j > 2 => w = c
      <3> DEFINE y == ((b % 16) * 4) + (c \div 64)
                 z == c % 64
      <3>1. ((y % 4) * 64) + z = c
        BY <2>1, Zenon
      <3>2. j > 2 => x(3) = y /\ x(4) = z
        BY <2>2, <2>4, Zenon
      <3> HIDE DEF y, z
      <3> QED
        BY <3>1, <3>2
    <2>6. x(1) \in Six /\ x(2) \in Six /\ x(3) \in Six /\ x(4) \in Six
      BY <1>9, <2>1, <2>2, Zenon
    <2>7. u \in Nat /\ v \in Nat /\ w \in Nat
      BY <2>6, SixesTogether, Zenon
    <2> QED
      BY <2>3, <2>5, <2>7, Zenon
  <1> HIDE DEF u, v, w
  <1>11. /\ Triple(s, (4 * k) - 4) \in Seq(Nat)
         /\ Len(Triple(s, (4 * k) - 4)) = j
         /\ \A i \in 1 .. j : Triple(s, (4 * k) - 4)[i] =
              IF i = 1 THEN u ELSE IF i = 2 THEN v ELSE w
    BY <1>5, <1>7, <1>10, UpToThree
  <1>12. ASSUME NEW i \in 1 .. j
         PROVE  Triple(s, (4 * k) - 4)[i] = src[((3 * k) - 3) + i]
    <2>1. ((3 * k) - 3) + i <= n
      BY <1>7
    <2>2. i = 1 \/ (i = 2 /\ j > 1) \/ (i = 3 /\ j > 2)
      BY <1>7
    <2>3. ByteAt(src, ((3 * k) - 3) + i) = src[((3 * k) - 3) + i]
      <3> DEFINE l == ((3 * k) - 3) + i
      <3>1. l <= n
        BY <2>1
      <3> HIDE DEF l
      <3>2. ByteAt(src, l) = src[l]
        BY <3>1 DEF ByteAt
      <3> QED
        BY <3>2, Zenon DEF l
    <2>4. /\ i = 1 => ((3 * k) - 3) + i = (3 * k) - 2
          /\ i = 2 => ((3 * k) - 3) + i = (3 * k) - 1
          /\ i = 3 => ((3 * k) - 3) + i = 3 * k
      BY <1>1
    <2>5. /\ i = 1 => a = src[((3 * k) - 3) + i]
          /\ i = 2 => b = src[((3 * k) - 3) + i]
          /\ i = 3 => c = src[((3 * k) - 3) + i]
      BY <2>3, <2>4 DEF a, b, c
    <2>6. Triple(s, (4 * k) - 4)[i] =
            IF i = 1 THEN u ELSE IF i = 2 THEN v ELSE w
      BY <1>11
    <2> QED
      BY <1>10, <2>2, <2>5, <2>6
  <1>14. j = BytesIn(n, k)
    BY Zenon DEF BytesIn, j, d
  <1> QED
    BY <1>11, <1>12, <1>14, Zenon DEF n

\* What base64_encode makes of bytes is such a text.
LEMMA EncodedIsPadded ==
  ASSUME NEW src, IsData(src)
  PROVE  /\ Closed(Encoded(src), Missing(Len(src)))
         /\ \A i \in 1 .. Len(Encoded(src)) : NoEnd(Encoded(src)[i])
  <1> DEFINE n == Len(src)
             m == Quartets(n)
             s == Encoded(src)
  <1>1. n \in Nat
    BY DEF IsData
  <1>2. Len(s) = 4 * m
    BY EncodedParts, Zenon
  <1>3. \A i \in 1 .. 4 * m :
          Accepted(s[i]) /\ (IsPad(s[i]) <=> i > (4 * m) - ((3 * m) - n))
    BY EncodedCharacters, Zenon
  <1>4. m \in Nat /\ n <= 3 * m /\ 3 * m <= n + 2
    BY <1>1, QuartetCount, Zenon
  <1> HIDE DEF s
  <1>5. Missing(n) = (3 * m) - n
    BY Zenon DEF Missing
  <1> HIDE DEF m, n
  <1>6. (3 * m) - n \in 0 .. 2
    BY <1>1, <1>4
  <1>7. \A i \in 1 .. Len(s) : NoEnd(s[i])
    BY <1>2, <1>3 DEF Accepted, IsCharacter, NoEnd
  <1>8. Closed(s, Missing(n))
    BY <1>2, <1>3, <1>5, <1>6, Zenon DEF Closed
  <1> QED
    BY <1>7, <1>8, Zenon DEF s, n

\* base64_decode's quartets give back what base64_encode's are made of.
LEMMA DecodedBack ==
  ASSUME NEW src, IsData(src)
  PROVE  Decoded(Encoded(src)) = src
  <1> DEFINE n == Len(src)
             m == Quartets(n)
             s == Encoded(src)
             d == Missing(n)
             j(k) == BytesIn(n, k)
             T(k) == Triple(s, (4 * k) - 4)
             seqs == [k \in 1 .. m |-> T(k)]
             at == [k \in 0 .. m |-> IF k < m THEN 3 * k ELSE n]
  <1>1. n \in Nat /\ src \in Seq(Nat)
    BY DEF IsData
  <1>2. m \in Nat /\ n <= 3 * m /\ 3 * m <= n + 2
    BY <1>1, QuartetCount, Zenon
  <1>3. d = (3 * m) - n
    BY Zenon DEF Missing
  <1>4. Len(s) = 4 * m
    BY EncodedParts, Zenon
  <1>5. Decoded(s) = FlattenSeq(seqs)
    <2> HIDE DEF s, m
    <2>1. Len(s) \div 4 = m
      BY <1>2, <1>4
    <2> QED
      BY <2>1, Zenon DEF Decoded
  <1>6. ASSUME NEW k \in 1 .. m
        PROVE  /\ T(k) \in Seq(Nat) /\ Len(T(k)) = j(k)
               /\ \A i \in 1 .. j(k) : T(k)[i] = src[((3 * k) - 3) + i]
    <2>1. Closed(s, d)
      BY EncodedIsPadded, Zenon
    <2> QED
      BY <2>1, TripleAt
  <1>13. \A k \in 1 .. m : j(k) = IF k < m THEN 3 ELSE 3 - d
    BY Zenon DEF BytesIn
  <1> HIDE DEF T, s, m, n, d, j
  <1>7. seqs \in Seq(Seq(Nat)) /\ Len(seqs) = m
        /\ \A k \in 1 .. m : seqs[k] = T(k)
    <2>1. \A k \in 1 .. m : T(k) \in Seq(Nat)
      BY <1>6
    <2> QED
      BY <1>2, <2>1
  <1> HIDE DEF seqs
  <1>8. /\ \A k \in 0 .. m : at[k] \in Nat
        /\ at[0] = 0 /\ at[m] = n
        /\ \A k \in 1 .. m : at[k - 1] = (3 * k) - 3
        /\ \A k \in 1 .. m : at[k] = at[k - 1] + j(k)
    <2>1. m = 0 => n = 0
      BY <1>1, <1>2
    <2>2. at[0] = 0
      BY <1>1, <1>2, <2>1
    <2>3. \A k \in 0 .. m : at[k] \in Nat
      BY <1>1, <1>2
    <2>4. at[m] = n
      BY <1>1, <1>2
    <2>5. \A k \in 1 .. m : at[k - 1] = (3 * k) - 3
      BY <1>1, <1>2
    <2>6. \A k \in 1 .. m : at[k] = IF k < m THEN 3 * k ELSE n
      BY <1>1, <1>2
    <2> HIDE DEF at
    <2>7. \A k \in 1 .. m : at[k] = at[k - 1] + j(k)
      BY <1>1, <1>2, <1>3, <1>13, <2>5, <2>6
    <2> QED
      BY <2>2, <2>3, <2>4, <2>5, <2>7
  <1> HIDE DEF at
  <1>9. Offsets(seqs, at)
    BY <1>6, <1>7, <1>8, Zenon DEF Offsets
  <1>10. StandAt(Nat, Decoded(s), seqs, at)
    BY <1>5, <1>7, <1>9, FlattenedAt, Zenon
  <1>11. Decoded(s) \in Seq(Nat) /\ Len(Decoded(s)) = n
         /\ \A k \in 1 .. m : \A i \in 1 .. j(k) :
              Decoded(s)[at[k - 1] + i] = src[((3 * k) - 3) + i]
    <2>1. /\ Decoded(s) \in Seq(Nat) /\ Len(Decoded(s)) = at[Len(seqs)]
          /\ \A k \in 1 .. Len(seqs) : \A i \in 1 .. Len(seqs[k]) :
               Decoded(s)[at[k - 1] + i] = seqs[k][i]
      BY <1>10, Zenon DEF StandAt
    <2>2. \A k \in 1 .. m : seqs[k] = T(k) /\ Len(seqs[k]) = j(k)
      BY <1>6, <1>7, Zenon
    <2>3. ASSUME NEW k \in 1 .. m, NEW i \in 1 .. j(k)
          PROVE  Decoded(s)[at[k - 1] + i] = src[((3 * k) - 3) + i]
      <3>1. Decoded(s)[at[k - 1] + i] = seqs[k][i]
        BY <1>7, <2>1, <2>2, Zenon
      <3>2. T(k)[i] = src[((3 * k) - 3) + i]
        BY <1>6, Zenon
      <3> QED
        BY <2>2, <3>1, <3>2, Zenon
    <2> QED
      BY <1>7, <1>8, <2>1, <2>3, Zenon
  <1>12. ASSUME NEW i \in 1 .. n PROVE Decoded(s)[i] = src[i]
    <2> DEFINE k == ((i - 1) \div 3) + 1
               r == ((i - 1) % 3) + 1
    <2>1. /\ k \in 1 .. m /\ r \in 1 .. 3
          /\ ((3 * k) - 3) + r = i
      BY <1>1, <1>2
    <2> HIDE DEF k, r
    <2>2. r \in 1 .. j(k)
      BY <1>1, <1>2, <1>3, <1>13, <2>1
    <2>3. at[k - 1] + r = i
      BY <1>8, <2>1
    <2> QED
      BY <1>11, <2>1, <2>2, <2>3, Zenon
  <1> QED
    BY <1>1, <1>11, <1>12, SameSequence, Zenon DEF s, n

\* A part from the start of three.
LEMMA AtMostThree ==
  ASSUME NEW Elem, NEW a \in Elem, NEW b \in Elem, NEW c \in Elem,
         NEW j \in Int, j <= 3
  PROVE  /\ SubSeq(<<a, b, c>>, 1, j) \in Seq(Elem)
         /\ Len(SubSeq(<<a, b, c>>, 1, j)) <= 3
  <1> DEFINE t == <<a, b, c>>
  <1>1. t \in Seq(Elem) /\ Len(t) = 3
    OBVIOUS
  <1> HIDE DEF t
  <1>2. CASE j < 1
    <2>1. SubSeq(t, 1, j) = <<>>
      BY <1>1, <1>2
    <2> QED
      BY <2>1 DEF t
  <1>3. CASE j >= 1
    <2>1. SubSeq(t, 1, j) \in Seq(Elem) /\ Len(SubSeq(t, 1, j)) = j
      BY <1>1, <1>3, SMTT(20)
    <2> QED
      BY <2>1 DEF t
  <1> QED
    BY <1>2, <1>3

\* base64_decode writes three bytes for four characters at most.
LEMMA DecodedLength ==
  ASSUME NEW kept, Len(kept) \in Nat
  PROVE  /\ Len(Decoded(kept)) \in Nat
         /\ Len(Decoded(kept)) <= 3 * (Len(kept) \div 4)
  <1> DEFINE m == Len(kept) \div 4
             x(q, i) == DecMap[kept[((4 * q) - 4) + i]] % 64
             j(q) == 3 - Cardinality({i \in 1 .. ((4 * q) - 4) + 4 :
                                        kept[i] = 61})
             a(q) == (x(q, 1) * 4) + (x(q, 2) \div 16)
             b(q) == ((x(q, 2) % 16) * 16) + (x(q, 3) \div 4)
             c(q) == ((x(q, 3) % 4) * 64) + x(q, 4)
             T(q) == Triple(kept, (4 * q) - 4)
             Elem == {a(q) : q \in 1 .. m} \cup {b(q) : q \in 1 .. m}
                    \cup {c(q) : q \in 1 .. m}
             seqs == [q \in 1 .. m |-> T(q)]
  <1>1. m \in Nat
    OBVIOUS
  <1>2. Decoded(kept) = FlattenSeq(seqs)
    BY Zenon DEF Decoded
  <1>3. \A q \in 1 .. m : T(q) = SubSeq(<<a(q), b(q), c(q)>>, 1, j(q))
    BY Zenon DEF Triple
  <1>4. \A q \in 1 .. m : j(q) \in Int /\ j(q) <= 3
    <2> TAKE q \in 1 .. m
    <2> DEFINE C == {i \in 1 .. ((4 * q) - 4) + 4 : kept[i] = 61}
    <2>1. ((4 * q) - 4) + 4 \in Nat
      BY <1>1
    <2>2. IsFiniteSet(C)
      <3>1. IsFiniteSet(1 .. ((4 * q) - 4) + 4)
        BY <2>1, FS_Interval
      <3>2. C \subseteq 1 .. ((4 * q) - 4) + 4
        OBVIOUS
      <3> QED
        BY <3>1, <3>2, FS_Subset, Zenon
    <2>3. Cardinality(C) \in Nat
      BY <2>2, FS_CardinalityType
    <2> HIDE DEF C
    <2>4. 3 - Cardinality(C) \in Int /\ 3 - Cardinality(C) <= 3
      BY <2>3
    <2> QED
      BY <2>4, Zenon DEF C
  <1>5. \A q \in 1 .. m : a(q) \in Elem /\ b(q) \in Elem /\ c(q) \in Elem
    OBVIOUS
  <1> HIDE DEF a, b, c, j, Elem, T, m
  <1>6. ASSUME NEW q \in 1 .. m PROVE T(q) \in Seq(Elem) /\ Len(T(q)) <= 3
    BY <1>3, <1>4, <1>5, AtMostThree, Zenon
  <1>7. seqs \in Seq(Seq(Elem)) /\ Len(seqs) = m
        /\ \A q \in 1 .. m : seqs[q] = T(q)
    BY <1>1, <1>6
  <1> HIDE DEF seqs
  <1>8. \A q \in 1 .. Len(seqs) : Len(seqs[q]) <= 3
    BY <1>6, <1>7
  <1>9. FlattenSeq(seqs) \in Seq(Elem) /\ Len(FlattenSeq(seqs)) <= 3 * m
    BY <1>7, <1>8, FlattenedByThree
  <1> QED
    BY <1>2, <1>9 DEF m

\* The characters that it keeps, counted.
LEMMA KeptLength ==
  ASSUME NEW t \in Seq(Nat)
  PROVE  /\ Len(Kept(t)) \in Nat
         /\ Cardinality({i \in DOMAIN t : ~IsBreak(t, i)}) \in Nat
         /\ Len(Kept(t)) <= Cardinality({i \in DOMAIN t : ~IsBreak(t, i)})
  <1> DEFINE l == Len(t)
             One(i) == IF t[i] \in {10, 13} THEN <<>> ELSE <<t[i]>>
             seqs == [i \in 1 .. l |-> One(i)]
             K(q) == {i \in 1 .. q : t[i] \notin {10, 13}}
             at == [q \in 0 .. l |-> Cardinality(K(q))]
             C == {i \in DOMAIN t : ~IsBreak(t, i)}
  <1>1. l \in Nat /\ DOMAIN t = 1 .. l
    OBVIOUS
  <1>2. Kept(t) = FlattenSeq(seqs)
    BY <1>1, Zenon DEF Kept
  <1>3. \A i \in 1 .. l : /\ One(i) \in Seq(Nat)
                          /\ t[i] \in {10, 13} => Len(One(i)) = 0
                          /\ t[i] \notin {10, 13} => Len(One(i)) = 1
    BY <1>1
  <1>4. ASSUME NEW q \in Nat PROVE IsFiniteSet(K(q))
    <2>1. IsFiniteSet(1 .. q)
      BY FS_Interval
    <2>2. K(q) \subseteq 1 .. q
      OBVIOUS
    <2> QED
      BY <2>1, <2>2, FS_Subset, Zenon
  <1>5. ASSUME NEW q \in 1 .. l
        PROVE  Cardinality(K(q)) = Cardinality(K(q - 1)) + Len(One(q))
    <2>1. q - 1 \in Nat /\ q \in Nat
      BY <1>1
    <2>2. Cardinality(K(q - 1)) \in Nat
      BY <1>4, <2>1, FS_CardinalityType
    <2>3. CASE t[q] \in {10, 13}
      <3>1. K(q) = K(q - 1)
        BY <2>1, <2>3
      <3>2. Len(One(q)) = 0
        BY <1>3, <2>3
      <3> HIDE DEF K, One
      <3> QED
        BY <2>2, <3>1, <3>2
    <2>4. CASE t[q] \notin {10, 13}
      <3>1. K(q) = K(q - 1) \cup {q} /\ q \notin K(q - 1)
        BY <2>1, <2>4
      <3>2. Len(One(q)) = 1
        BY <1>3, <2>4
      <3>3. IsFiniteSet(K(q - 1))
        BY <1>4, <2>1
      <3> HIDE DEF K, One
      <3>4. Cardinality(K(q)) = Cardinality(K(q - 1)) + 1
        BY <3>1, <3>3, FS_AddElement
      <3> QED
        BY <3>2, <3>4
    <2> QED
      BY <2>3, <2>4
  <1>6. Cardinality(K(0)) = 0
    <2>1. K(0) = {}
      OBVIOUS
    <2> QED
      BY <2>1, FS_EmptySet
  <1>7. K(l) \subseteq C
    BY <1>1 DEF IsBreak
  <1>8. IsFiniteSet(C)
    <2>1. IsFiniteSet(1 .. l) /\ C \subseteq 1 .. l
      BY <1>1, FS_Interval
    <2> QED
      BY <2>1, FS_Subset, Zenon
  <1>9. Cardinality(C) \in Nat /\ Cardinality(K(l)) <= Cardinality(C)
    <2> HIDE DEF K, C
    <2> QED
      BY <1>7, <1>8, FS_Subset, FS_CardinalityType
  <1>10. \A q \in 0 .. l : Cardinality(K(q)) \in Nat
    <2> TAKE q \in 0 .. l
    <2>1. q \in Nat
      BY <1>1
    <2> QED
      BY <1>4, <2>1, FS_CardinalityType
  <1> HIDE DEF One, K, C
  <1>11. seqs \in Seq(Seq(Nat)) /\ Len(seqs) = l
         /\ \A i \in 1 .. l : seqs[i] = One(i)
    BY <1>1, <1>3
  <1> HIDE DEF seqs
  <1>12. /\ \A q \in 0 .. l : at[q] = Cardinality(K(q))
         /\ \A q \in 1 .. l : at[q - 1] = Cardinality(K(q - 1))
         /\ 0 \in 0 .. l /\ l \in 0 .. l
         /\ \A q \in 1 .. l : q \in 0 .. l
    BY <1>1
  <1> HIDE DEF at
  <1>13. Offsets(seqs, at)
    BY <1>5, <1>6, <1>10, <1>11, <1>12, Zenon DEF Offsets
  <1>14. StandAt(Nat, Kept(t), seqs, at)
    BY <1>2, <1>11, <1>13, FlattenedAt, Zenon
  <1>15. Len(Kept(t)) = Cardinality(K(l))
    BY <1>11, <1>12, <1>14, Zenon DEF StandAt
  <1>16. Cardinality(K(l)) \in Nat
    BY <1>10, <1>12
  <1> QED
    BY <1>9, <1>15, <1>16, Zenon DEF C

-----------------------------------------------------------------------------
(* The calls.                                                              *)

\* What a caller of base64_encode or base64_decode may rely on: nothing is
\* written behind its buffer, and the size that it is told is enough.
Fits(result, room) ==
  result.dlen \in Nat /\ Len(result.written) \in Nat
    /\ Len(result.written) <= room

\* The characters of a result of base64_encode, without its 0.
Text(result) == SubSeq(result.written, 1, Len(result.written) - 1)

\* What a result of base64_encode is for its caller.
Encodes(src, room, result) ==
  /\ Fits(result, room)
  /\ result.rc = "too_small" => Encode(src, result.dlen).rc = "ok"
  /\ Text(result) = <<>> \/ (src # <<>> /\ Text(result) = Encoded(src))

\* base64_encode keeps that, whatever it is given.
LEMMA EncodeCalled ==
  ASSUME NEW src, IsData(src), NEW room \in Nat
  PROVE  Encodes(src, room, Encode(src, room))
  <1> USE DEF Encodes
  <1> DEFINE n == Len(src)
             out == Encoded(src)
             size == EncodedSize(n)
             result == Encode(src, room)
  <1>1. n \in Nat /\ (n = 0 <=> src = <<>>)
    BY DEF IsData
  <1>2. size \in Nat /\ out \in Seq(Nat) /\ Len(out) = size
    <2> DEFINE m == Quartets(n)
    <2>1. m \in Nat /\ size = 4 * m
      BY <1>1, QuartetCount, Zenon
    <2>2. out \in Seq(Nat) /\ Len(out) = 4 * m
      BY EncodedParts, Zenon
    <2> HIDE DEF m, out, size
    <2> QED
      BY <2>1, <2>2
  <1>3. \A dlen : Encode(src, dlen) =
          IF n = 0 THEN [rc |-> "ok", dlen |-> dlen, written |-> <<>>]
          ELSE IF dlen < size + 1
                 THEN [rc |-> "too_small", dlen |-> size + 1,
                       written |-> <<>>]
                 ELSE [rc |-> "ok", dlen |-> Len(out),
                       written |-> out \o <<0>>]
    BY Zenon DEF Encode
  <1> HIDE DEF n, out, size
  <1>4. SubSeq(<<>>, 1, Len(<<>>) - 1) = <<>>
    OBVIOUS
  <1>5. CASE n = 0
    <2>1. result = [rc |-> "ok", dlen |-> room, written |-> <<>>]
      BY <1>3, <1>5
    <2> QED
      BY <1>4, <2>1 DEF Fits, Text
  <1>6. CASE n # 0 /\ room < size + 1
    <2>1. result = [rc |-> "too_small", dlen |-> size + 1, written |-> <<>>]
      BY <1>3, <1>6
    <2>2. Encode(src, size + 1).rc = "ok"
      <3>1. ~(size + 1 < size + 1)
        BY <1>2
      <3>2. Encode(src, size + 1) = [rc |-> "ok", dlen |-> Len(out),
                                     written |-> out \o <<0>>]
        BY <1>3, <1>6, <3>1
      <3> QED
        BY <3>2
    <2>3. result.dlen = size + 1 /\ result.written = <<>>
      BY <2>1
    <2> HIDE DEF result
    <2>4. Fits(result, room) /\ Text(result) = <<>>
      BY <1>2, <1>4, <2>3 DEF Fits, Text
    <2>5. Encode(src, result.dlen).rc = "ok"
      BY <2>2, <2>3
    <2> QED
      BY <2>4, <2>5, Zenon DEF result
  <1>7. CASE n # 0 /\ ~(room < size + 1)
    <2>1. result = [rc |-> "ok", dlen |-> Len(out), written |-> out \o <<0>>]
      BY <1>3, <1>7
    <2> DEFINE w == out \o <<0>>
    <2>2. w \in Seq(Nat) /\ Len(w) = size + 1
          /\ \A i \in 1 .. size : w[i] = out[i]
      BY <1>2
    <2> HIDE DEF w
    <2>3. SubSeq(w, 1, size) = out
      <3>1. SubSeq(w, 1, size) \in Seq(Nat) /\ Len(SubSeq(w, 1, size)) = size
            /\ \A i \in 1 .. size : SubSeq(w, 1, size)[i] = w[i]
        BY <1>2, <2>2
      <3> DEFINE v == SubSeq(w, 1, size)
      <3>2. v \in Seq(Nat) /\ Len(v) = Len(out) /\ out \in Seq(Nat)
            /\ \A i \in 1 .. Len(v) : v[i] = out[i]
        BY <1>2, <2>2, <3>1
      <3> HIDE DEF v
      <3>3. v = out
        BY <3>2, SameSequence, Zenon
      <3> QED
        BY <3>3, Zenon DEF v
    <2>4. (size + 1) - 1 = size /\ size + 1 <= room /\ size + 1 \in Nat
      BY <1>2, <1>7
    <2>5. result.rc = "ok" /\ result.dlen = size /\ result.written = w
      BY <1>2, <2>1 DEF w
    <2> HIDE DEF result
    <2>6. Fits(result, room)
      BY <1>2, <2>2, <2>4, <2>5, Zenon DEF Fits
    <2>7. Text(result) = out /\ src # <<>>
      BY <1>1, <1>7, <2>2, <2>3, <2>4, <2>5, Zenon DEF Text
    <2>8. result.rc # "too_small"
      BY <2>5
    <2> QED
      BY <2>6, <2>7, <2>8, Zenon DEF result, out
  <1> QED
    BY <1>5, <1>6, <1>7

\* What a result of base64_decode is for its caller.
Decodes(t, room, result) ==
  /\ Fits(result, room)
  /\ result.rc = "too_small" => Decode(t, result.dlen).rc = "ok"

\* base64_decode keeps that, whatever it is given.
LEMMA DecodeCalled ==
  ASSUME NEW t \in Seq(Nat), NEW room \in Nat
  PROVE  Decodes(t, room, Decode(t, room))
  <1> USE DEF Decodes
  <1> DEFINE n == Cardinality({i \in DOMAIN t : ~IsBreak(t, i)})
             out == Decoded(Kept(t))
             size == DecodedSize(n)
             result == Decode(t, room)
  <1>1. n \in Nat /\ Len(Kept(t)) \in Nat /\ Len(Kept(t)) <= n
    BY KeptLength, Zenon
  <1>2. Len(out) \in Nat /\ Len(out) <= 3 * (Len(Kept(t)) \div 4)
    BY <1>1, DecodedLength, Zenon
  <1>3. \A dlen : Decode(t, dlen) =
          CASE Invalid(t) ->
                 [rc |-> "invalid", dlen |-> dlen, written |-> <<>>]
            [] ~Invalid(t) /\ n = 0 ->
                 [rc |-> "ok", dlen |-> dlen, written |-> <<>>]
            [] ~Invalid(t) /\ n > 0 /\ dlen < size ->
                 [rc |-> "too_small", dlen |-> size, written |-> <<>>]
            [] OTHER -> [rc |-> "ok", dlen |-> Len(out), written |-> out]
    BY Zenon DEF Decode
  <1>4. size = ((n * 6) + 7) \div 8
    BY Zenon DEF DecodedSize
  <1> DEFINE l == Len(Kept(t))
  <1> HIDE DEF n, out, size, l
  <1>5. size \in Nat /\ Len(out) <= size
    <2>1. l \in Nat /\ l <= n /\ Len(out) <= 3 * (l \div 4)
      BY <1>1, <1>2, Zenon DEF l
    <2> DEFINE q == l \div 4
    <2>2. q \in Nat /\ 4 * q <= l /\ Len(out) <= 3 * q
      BY <2>1
    <2> HIDE DEF q
    <2>3. size \in Nat /\ 6 * n <= 8 * size
      BY <1>1, <1>4
    <2> QED
      BY <1>1, <1>2, <2>1, <2>2, <2>3
  <1>6. CASE Invalid(t)
    <2>1. result = [rc |-> "invalid", dlen |-> room, written |-> <<>>]
      BY <1>3, <1>6
    <2> QED
      BY <2>1 DEF Fits
  <1>7. CASE ~Invalid(t) /\ n = 0
    <2>1. result = [rc |-> "ok", dlen |-> room, written |-> <<>>]
      BY <1>3, <1>7
    <2> QED
      BY <2>1 DEF Fits
  <1>8. CASE ~Invalid(t) /\ n # 0 /\ room < size
    <2>1. result = [rc |-> "too_small", dlen |-> size, written |-> <<>>]
      BY <1>1, <1>3, <1>8
    <2>2. Decode(t, size) = [rc |-> "ok", dlen |-> Len(out), written |-> out]
      BY <1>1, <1>3, <1>5, <1>8
    <2>3. Decode(t, size).rc = "ok"
      BY <2>2
    <2>4. result.dlen = size /\ result.written = <<>>
      BY <2>1
    <2> HIDE DEF result
    <2>5. Fits(result, room)
      BY <1>5, <2>4 DEF Fits
    <2>6. Decode(t, result.dlen).rc = "ok"
      BY <2>3, <2>4
    <2> QED
      BY <2>5, <2>6, Zenon DEF result
  <1>9. CASE ~Invalid(t) /\ n # 0 /\ ~(room < size)
    <2>1. result = [rc |-> "ok", dlen |-> Len(out), written |-> out]
      BY <1>1, <1>3, <1>9
    <2>2. Len(out) <= room
      BY <1>2, <1>5, <1>9
    <2> QED
      BY <1>2, <2>1, <2>2 DEF Fits
  <1> QED
    BY <1>6, <1>7, <1>8, <1>9

\* base64_decode of what base64_encode made: for data of any length, one line's
\* end anywhere in the text and a buffer of any size the data comes back, or
\* the buffer is too small.
THEOREM ComesBack ==
  ASSUME NEW src, IsData(src), NEW t, NEW p, NEW h,
         Broken(Encoded(src), t, p, h), NEW room \in Nat
  PROVE  \/ Decode(t, room).rc = "too_small"
         \/ Decode(t, room).rc = "ok" /\ Decode(t, room).written = src
  <1> DEFINE n == Cardinality({i \in DOMAIN t : ~IsBreak(t, i)})
             s == Encoded(src)
             size == DecodedSize(n)
  <1>1. Closed(s, Missing(Len(src))) /\ \A i \in 1 .. Len(s) : NoEnd(s[i])
    BY EncodedIsPadded, Zenon
  <1>2. Kept(t) = s
    BY <1>1, KeptWhole, Zenon
  <1>3. Decoded(Kept(t)) = src
    BY <1>2, DecodedBack, Zenon
  <1>4. ~Invalid(t)
    BY <1>1, BrokenIsValid, Zenon
  <1>5. NoEnd(s[1])
    <2>1. p \in 1 .. Len(s) /\ Len(s) \in Nat
      BY DEF Broken
    <2> HIDE DEF s
    <2>2. 1 \in 1 .. Len(s)
      BY <2>1
    <2> QED
      BY <1>1, <2>2
  <1>6. n \in Nat /\ n # 0
    BY <1>5, BrokenIsCounted, Zenon
  <1>7. Decode(t, room) =
          CASE Invalid(t) ->
                 [rc |-> "invalid", dlen |-> room, written |-> <<>>]
            [] ~Invalid(t) /\ n = 0 ->
                 [rc |-> "ok", dlen |-> room, written |-> <<>>]
            [] ~Invalid(t) /\ n > 0 /\ room < size ->
                 [rc |-> "too_small", dlen |-> size, written |-> <<>>]
            [] OTHER -> [rc |-> "ok", dlen |-> Len(Decoded(Kept(t))),
                         written |-> Decoded(Kept(t))]
    BY Zenon DEF Decode
  <1> HIDE DEF n, size, s
  <1>8. CASE room < size
    <2>1. Decode(t, room)
            = [rc |-> "too_small", dlen |-> size, written |-> <<>>]
      BY <1>4, <1>6, <1>7, <1>8
    <2> QED
      BY <2>1
  <1>9. CASE ~(room < size)
    <2>1. Decode(t, room) = [rc |-> "ok", dlen |-> Len(src), written |-> src]
      BY <1>3, <1>4, <1>6, <1>7, <1>9
    <2> QED
      BY <2>1
  <1> QED
    BY <1>8, <1>9

-----------------------------------------------------------------------------
(* Words: the operators &, |, ^ and ~ are those of bits, at every place.   *)

\* Numbers of four, eight and sixteen bits, and a word.
Four == 0 .. 15
Eight == 0 .. 255
Top == 65536
Half == {x \in Nat : x < Top}
Word == Half \X Half

\* ~ of four bits.
Not4(a) == 15 - a

\* The operators of one bit.
And1(x, y) == x * y
Or1(x, y) == (x + y) - (x * y)
Xor1(x, y) == (x + y) % 2

\* A number below 16 by its bits.
FourBits(a, x) ==
  /\ x \in [1 .. 4 -> {0, 1}]
  /\ a = x[1] + (2 * x[2]) + (4 * x[3]) + (8 * x[4])

\* Every number below 16 has them.
LEMMA BitsOfFour ==
  ASSUME NEW a \in Four
  PROVE  \E x : FourBits(a, x)
  <1> DEFINE x == <<a % 2, (a \div 2) % 2, (a \div 4) % 2, a \div 8>>
  <1>1. x \in [1 .. 4 -> {0, 1}]
    BY DEF Four
  <1>2. a = (a % 2) + (2 * ((a \div 2) % 2)) + (4 * ((a \div 4) % 2))
            + (8 * (a \div 8))
    BY DEF Four
  <1>3. x[1] = a % 2 /\ x[2] = (a \div 2) % 2 /\ x[3] = (a \div 4) % 2
        /\ x[4] = a \div 8
    BY DEF Four
  <1> HIDE DEF x
  <1>4. FourBits(a, x)
    BY <1>1, <1>2, <1>3 DEF FourBits
  <1> QED
    BY <1>4

\* Arithmetic: the bits of a number are found by dividing.
LEMMA FourDigits ==
  ASSUME NEW p \in {0, 1}, NEW q \in {0, 1}, NEW r \in {0, 1},
         NEW t \in {0, 1},
         NEW a, a = p + (2 * q) + (4 * r) + (8 * t)
  PROVE  /\ a \in Four
         /\ a % 2 = p /\ (a \div 2) % 2 = q
         /\ (a \div 4) % 2 = r /\ a \div 8 = t
  <1>1. CASE p = 0 /\ q = 0
    BY <1>1 DEF Four
  <1>2. CASE p = 0 /\ q = 1
    BY <1>2 DEF Four
  <1>3. CASE p = 1 /\ q = 0
    BY <1>3 DEF Four
  <1>4. CASE p = 1 /\ q = 1
    BY <1>4 DEF Four
  <1> QED
    BY <1>1, <1>2, <1>3, <1>4

\* And they are found by dividing.
LEMMA BitsFound ==
  ASSUME NEW a, NEW x, FourBits(a, x)
  PROVE  /\ a \in Four
         /\ a % 2 = x[1] /\ (a \div 2) % 2 = x[2]
         /\ (a \div 4) % 2 = x[3] /\ a \div 8 = x[4]
  <1>1. /\ x[1] \in {0, 1} /\ x[2] \in {0, 1}
        /\ x[3] \in {0, 1} /\ x[4] \in {0, 1}
        /\ a = x[1] + (2 * x[2]) + (4 * x[3]) + (8 * x[4])
    BY DEF FourBits
  <1> DEFINE p == x[1]  q == x[2]  r == x[3]  t == x[4]
  <1>2. /\ p \in {0, 1} /\ q \in {0, 1} /\ r \in {0, 1} /\ t \in {0, 1}
        /\ a = p + (2 * q) + (4 * r) + (8 * t)
    BY <1>1
  <1> HIDE DEF p, q, r, t
  <1>3. /\ a \in Four
        /\ a % 2 = p /\ (a \div 2) % 2 = q
        /\ (a \div 4) % 2 = r /\ a \div 8 = t
    BY <1>2, FourDigits
  <1> QED
    BY <1>3 DEF p, q, r, t

\* What the tables hold.
LEMMA TablesByBits ==
  ASSUME NEW a, NEW x, FourBits(a, x), NEW b, NEW y, FourBits(b, y)
  PROVE  /\ FourBits(And4[a][b], [i \in 1 .. 4 |-> And1(x[i], y[i])])
         /\ FourBits(Or4[a][b], [i \in 1 .. 4 |-> Or1(x[i], y[i])])
         /\ FourBits(Xor4[a][b], [i \in 1 .. 4 |-> Xor1(x[i], y[i])])
         /\ FourBits(Not4(a), [i \in 1 .. 4 |-> 1 - x[i]])
  <1>1. /\ \A i \in 1 .. 4 : x[i] \in {0, 1} /\ y[i] \in {0, 1}
        /\ a = x[1] + (2 * x[2]) + (4 * x[3]) + (8 * x[4])
    BY DEF FourBits
  <1>2. /\ a \in Four /\ b \in Four
        /\ a % 2 = x[1] /\ (a \div 2) % 2 = x[2]
        /\ (a \div 4) % 2 = x[3] /\ a \div 8 = x[4]
        /\ b % 2 = y[1] /\ (b \div 2) % 2 = y[2]
        /\ (b \div 4) % 2 = y[3] /\ b \div 8 = y[4]
    BY BitsFound
  <1>3. \A u, v \in {0, 1} : /\ And1(u, v) \in {0, 1}
                             /\ Or1(u, v) \in {0, 1}
                             /\ Xor1(u, v) \in {0, 1}
                             /\ 1 - u \in {0, 1}
    BY DEF And1, Or1, Xor1
  <1>4. And4[a][b]
          = And1(x[1], y[1]) + (2 * And1(x[2], y[2]))
            + (4 * And1(x[3], y[3])) + (8 * And1(x[4], y[4]))
    <2>1. And4[a][b]
            = And1(a % 2, b % 2)
              + (2 * And1((a \div 2) % 2, (b \div 2) % 2))
              + (4 * And1((a \div 4) % 2, (b \div 4) % 2))
              + (8 * And1(a \div 8, b \div 8))
      BY <1>2, Zenon DEF And4, BitByBit, And1, Four
    <2> QED
      BY <1>2, <2>1
  <1>5. Or4[a][b]
          = Or1(x[1], y[1]) + (2 * Or1(x[2], y[2]))
            + (4 * Or1(x[3], y[3])) + (8 * Or1(x[4], y[4]))
    <2>1. Or4[a][b]
            = Or1(a % 2, b % 2)
              + (2 * Or1((a \div 2) % 2, (b \div 2) % 2))
              + (4 * Or1((a \div 4) % 2, (b \div 4) % 2))
              + (8 * Or1(a \div 8, b \div 8))
      BY <1>2, Zenon DEF Or4, BitByBit, Or1, Four
    <2> QED
      BY <1>2, <2>1
  <1>6. Xor4[a][b]
          = Xor1(x[1], y[1]) + (2 * Xor1(x[2], y[2]))
            + (4 * Xor1(x[3], y[3])) + (8 * Xor1(x[4], y[4]))
    <2>1. Xor4[a][b]
            = Xor1(a % 2, b % 2)
              + (2 * Xor1((a \div 2) % 2, (b \div 2) % 2))
              + (4 * Xor1((a \div 4) % 2, (b \div 4) % 2))
              + (8 * Xor1(a \div 8, b \div 8))
      BY <1>2, Zenon DEF Xor4, BitByBit, Xor1, Four
    <2> QED
      BY <1>2, <2>1
  <1>7. Not4(a) = (1 - x[1]) + (2 * (1 - x[2])) + (4 * (1 - x[3]))
                 + (8 * (1 - x[4]))
    BY <1>1 DEF Not4
  <1> QED
    BY <1>1, <1>3, <1>4, <1>5, <1>6, <1>7 DEF FourBits

\* The same bits make the same number.
LEMMA SameBits ==
  ASSUME NEW a, NEW b, NEW x, NEW y, FourBits(a, x), FourBits(b, y),
         \A i \in 1 .. 4 : x[i] = y[i]
  PROVE  a = b
  BY DEF FourBits

\* F of SHA-1 and MD5 as the code has it and as the standards do, for a bit.
LEMMA BitIdentities ==
  ASSUME NEW x \in {0, 1}, NEW y \in {0, 1}, NEW z \in {0, 1}
  PROVE  /\ Xor1(z, And1(x, Xor1(y, z)))
              = Or1(And1(x, y), And1(1 - x, z))
         /\ Or1(And1(x, y), And1(z, Or1(x, y)))
              = Xor1(And1(x, y), Xor1(And1(x, z), And1(y, z)))
         /\ Xor1(y, And1(z, Xor1(x, y)))
              = Or1(And1(x, z), And1(y, 1 - z))
         /\ Xor1(x, y) = Xor1(y, x)
  BY DEF And1, Or1, Xor1

\* And for four of them.
LEMMA FourIdentities ==
  ASSUME NEW a \in Four, NEW b \in Four, NEW c \in Four
  PROVE  /\ Xor4[c][And4[a][Xor4[b][c]]] = Or4[And4[a][b]][And4[Not4(a)][c]]
         /\ Or4[And4[a][b]][And4[c][Or4[a][b]]]
              = Xor4[And4[a][b]][Xor4[And4[a][c]][And4[b][c]]]
         /\ Xor4[b][And4[c][Xor4[a][b]]] = Or4[And4[a][c]][And4[b][Not4(c)]]
         /\ Xor4[a][b] = Xor4[b][a]
         /\ And4[a][b] \in Four /\ Or4[a][b] \in Four
         /\ Xor4[a][b] \in Four /\ Not4(a) \in Four
  <1>1. PICK x : FourBits(a, x)
    BY BitsOfFour
  <1>2. PICK y : FourBits(b, y)
    BY BitsOfFour
  <1>3. PICK z : FourBits(c, z)
    BY BitsOfFour
  <1> DEFINE AndB(u, v) == [i \in 1 .. 4 |-> And1(u[i], v[i])]
             OrB(u, v) == [i \in 1 .. 4 |-> Or1(u[i], v[i])]
             XorB(u, v) == [i \in 1 .. 4 |-> Xor1(u[i], v[i])]
             NotB(u) == [i \in 1 .. 4 |-> 1 - u[i]]
  <1>4. \A m, n, u, v : FourBits(m, u) /\ FourBits(n, v) =>
          /\ FourBits(And4[m][n], AndB(u, v))
          /\ FourBits(Or4[m][n], OrB(u, v))
          /\ FourBits(Xor4[m][n], XorB(u, v))
          /\ FourBits(Not4(m), NotB(u))
    BY TablesByBits, Zenon
  <1>5. \A u, v : \A i \in 1 .. 4 : /\ AndB(u, v)[i] = And1(u[i], v[i])
                                    /\ OrB(u, v)[i] = Or1(u[i], v[i])
                                    /\ XorB(u, v)[i] = Xor1(u[i], v[i])
                                    /\ NotB(u)[i] = 1 - u[i]
    BY Zenon
  <1>6. \A i \in 1 .. 4 : x[i] \in {0, 1} /\ y[i] \in {0, 1} /\ z[i] \in {0, 1}
    BY <1>1, <1>2, <1>3 DEF FourBits
  <1> HIDE DEF AndB, OrB, XorB, NotB
  <1>7. Xor4[c][And4[a][Xor4[b][c]]] = Or4[And4[a][b]][And4[Not4(a)][c]]
    <2>1. FourBits(Xor4[c][And4[a][Xor4[b][c]]], XorB(z, AndB(x, XorB(y, z))))
      <3>1. FourBits(Xor4[b][c], XorB(y, z))
        BY <1>2, <1>3, <1>4, Zenon
      <3>2. FourBits(And4[a][Xor4[b][c]], AndB(x, XorB(y, z)))
        BY <1>1, <1>4, <3>1, Zenon
      <3> QED
        BY <1>3, <1>4, <3>2, Zenon
    <2>2. FourBits(Or4[And4[a][b]][And4[Not4(a)][c]],
                   OrB(AndB(x, y), AndB(NotB(x), z)))
      <3>1. FourBits(And4[a][b], AndB(x, y)) /\ FourBits(Not4(a), NotB(x))
        BY <1>1, <1>2, <1>4, Zenon
      <3>2. FourBits(And4[Not4(a)][c], AndB(NotB(x), z))
        BY <1>3, <1>4, <3>1, Zenon
      <3> QED
        BY <1>4, <3>1, <3>2
    <2>3. \A i \in 1 .. 4 : XorB(z, AndB(x, XorB(y, z)))[i]
                              = OrB(AndB(x, y), AndB(NotB(x), z))[i]
      <3> TAKE i \in 1 .. 4
      <3>1. Xor1(z[i], And1(x[i], Xor1(y[i], z[i])))
              = Or1(And1(x[i], y[i]), And1(1 - x[i], z[i]))
        BY <1>6, BitIdentities
      <3> QED
        BY <1>5, <3>1
    <2> QED
      BY <2>1, <2>2, <2>3, SameBits
  <1>8. Or4[And4[a][b]][And4[c][Or4[a][b]]]
          = Xor4[And4[a][b]][Xor4[And4[a][c]][And4[b][c]]]
    <2>1. FourBits(Or4[And4[a][b]][And4[c][Or4[a][b]]],
                   OrB(AndB(x, y), AndB(z, OrB(x, y))))
      <3>1. FourBits(And4[a][b], AndB(x, y)) /\ FourBits(Or4[a][b], OrB(x, y))
        BY <1>1, <1>2, <1>4, Zenon
      <3>2. FourBits(And4[c][Or4[a][b]], AndB(z, OrB(x, y)))
        BY <1>3, <1>4, <3>1, Zenon
      <3> QED
        BY <1>4, <3>1, <3>2
    <2>2. FourBits(Xor4[And4[a][b]][Xor4[And4[a][c]][And4[b][c]]],
                   XorB(AndB(x, y), XorB(AndB(x, z), AndB(y, z))))
      <3>1. /\ FourBits(And4[a][b], AndB(x, y))
            /\ FourBits(And4[a][c], AndB(x, z))
            /\ FourBits(And4[b][c], AndB(y, z))
        BY <1>1, <1>2, <1>3, <1>4, Zenon
      <3>2. FourBits(Xor4[And4[a][c]][And4[b][c]],
                     XorB(AndB(x, z), AndB(y, z)))
        BY <1>4, <3>1, Zenon
      <3> QED
        BY <1>4, <3>1, <3>2
    <2>3. \A i \in 1 .. 4 :
            OrB(AndB(x, y), AndB(z, OrB(x, y)))[i]
              = XorB(AndB(x, y), XorB(AndB(x, z), AndB(y, z)))[i]
      <3> TAKE i \in 1 .. 4
      <3>1. Or1(And1(x[i], y[i]), And1(z[i], Or1(x[i], y[i])))
              = Xor1(And1(x[i], y[i]),
                     Xor1(And1(x[i], z[i]), And1(y[i], z[i])))
        BY <1>6, BitIdentities
      <3> QED
        BY <1>5, <3>1
    <2> DEFINE u == OrB(AndB(x, y), AndB(z, OrB(x, y)))
               v == XorB(AndB(x, y), XorB(AndB(x, z), AndB(y, z)))
               m == Or4[And4[a][b]][And4[c][Or4[a][b]]]
               n == Xor4[And4[a][b]][Xor4[And4[a][c]][And4[b][c]]]
    <2>4. FourBits(m, u) /\ FourBits(n, v) /\ \A i \in 1 .. 4 : u[i] = v[i]
      BY <2>1, <2>2, <2>3, Zenon
    <2> HIDE DEF u, v, m, n
    <2>5. m = n
      BY <2>4, SameBits
    <2> QED
      BY <2>5 DEF m, n
  <1>9. Xor4[b][And4[c][Xor4[a][b]]] = Or4[And4[a][c]][And4[b][Not4(c)]]
    <2>1. FourBits(Xor4[b][And4[c][Xor4[a][b]]],
                   XorB(y, AndB(z, XorB(x, y))))
      <3>1. FourBits(Xor4[a][b], XorB(x, y))
        BY <1>1, <1>2, <1>4, Zenon
      <3>2. FourBits(And4[c][Xor4[a][b]], AndB(z, XorB(x, y)))
        BY <1>3, <1>4, <3>1, Zenon
      <3> QED
        BY <1>2, <1>4, <3>2, Zenon
    <2>2. FourBits(Or4[And4[a][c]][And4[b][Not4(c)]],
                   OrB(AndB(x, z), AndB(y, NotB(z))))
      <3>1. FourBits(And4[a][c], AndB(x, z)) /\ FourBits(Not4(c), NotB(z))
        BY <1>1, <1>3, <1>4, Zenon
      <3>2. FourBits(And4[b][Not4(c)], AndB(y, NotB(z)))
        BY <1>2, <1>4, <3>1, Zenon
      <3> QED
        BY <1>4, <3>1, <3>2
    <2>3. \A i \in 1 .. 4 : XorB(y, AndB(z, XorB(x, y)))[i]
                              = OrB(AndB(x, z), AndB(y, NotB(z)))[i]
      <3> TAKE i \in 1 .. 4
      <3>1. Xor1(y[i], And1(z[i], Xor1(x[i], y[i])))
              = Or1(And1(x[i], z[i]), And1(y[i], 1 - z[i]))
        BY <1>6, BitIdentities
      <3> QED
        BY <1>5, <3>1
    <2> QED
      BY <2>1, <2>2, <2>3, SameBits
  <1>10. Xor4[a][b] = Xor4[b][a]
    <2>1. FourBits(Xor4[a][b], XorB(x, y)) /\ FourBits(Xor4[b][a], XorB(y, x))
      BY <1>1, <1>2, <1>4, Zenon
    <2>2. \A i \in 1 .. 4 : XorB(x, y)[i] = XorB(y, x)[i]
      <3> TAKE i \in 1 .. 4
      <3>1. Xor1(x[i], y[i]) = Xor1(y[i], x[i])
        BY <1>6, BitIdentities
      <3> QED
        BY <1>5, <3>1
    <2> QED
      BY <2>1, <2>2, SameBits, Zenon
  <1>11. /\ And4[a][b] \in Four /\ Or4[a][b] \in Four
         /\ Xor4[a][b] \in Four
    <2>1. /\ FourBits(And4[a][b], AndB(x, y)) /\ FourBits(Or4[a][b], OrB(x, y))
          /\ FourBits(Xor4[a][b], XorB(x, y))
      BY <1>1, <1>2, <1>4, Zenon
    <2> QED
      BY <2>1, BitsFound, Zenon
  <1>12. Not4(a) \in Four
    BY DEF Four, Not4
  <1> QED
    BY <1>7, <1>8, <1>9, <1>10, <1>11, <1>12, Zenon

\* A number of eight or sixteen bits and its two parts.
Join4(d, e) == (16 * d) + e
Join8(p, q) == (256 * p) + q
High4(p) == p \div 16
Low4(p) == p % 16
High8(a) == a \div 256
Low8(a) == a % 256

\* Half of a word by its four digits of four bits.
Digits(a) == <<High4(High8(a)), Low4(High8(a)), High4(Low8(a)), Low4(Low8(a))>>

IsDigits(a, d) ==
  /\ d \in [1 .. 4 -> Four]
  /\ a = Join8(Join4(d[1], d[2]), Join4(d[3], d[4]))

\* A byte is made of its two digits.
LEMMA ByteDigits ==
  ASSUME NEW p \in Eight
  PROVE  /\ High4(p) \in Four /\ Low4(p) \in Four
         /\ p = Join4(High4(p), Low4(p))
  <1>1. p \in Nat /\ p < 256
    BY DEF Eight
  <1> DEFINE h == p \div 16  l == p % 16
  <1>2. /\ h \in Int /\ 0 <= h /\ h <= 15
        /\ l \in Int /\ 0 <= l /\ l <= 15 /\ p = (16 * h) + l
    BY <1>1, SMT
  <1>3. High4(p) = h /\ Low4(p) = l
    BY DEF High4, Low4
  <1> HIDE DEF h, l
  <1> QED
    BY <1>2, <1>3, SMT DEF Join4, Four

\* Two digits make a byte with them as its digits.
LEMMA DigitsMakeByte ==
  ASSUME NEW d \in Four, NEW e \in Four
  PROVE  /\ Join4(d, e) \in Eight
         /\ High4(Join4(d, e)) = d /\ Low4(Join4(d, e)) = e
  BY SMT DEF Four, Eight, Join4, High4, Low4

\* Half a word is made of its two bytes.
LEMMA HalfBytes ==
  ASSUME NEW a \in Half
  PROVE  /\ High8(a) \in Eight /\ Low8(a) \in Eight
         /\ a = Join8(High8(a), Low8(a))
  <1>1. a \in Nat /\ a < 65536
    BY SMT DEF Half, Top
  <1> DEFINE h == a \div 256  l == a % 256
  <1>2. /\ h \in Int /\ 0 <= h /\ h <= 255
        /\ l \in Int /\ 0 <= l /\ l <= 255 /\ a = (256 * h) + l
    BY <1>1, SMT
  <1>3. High8(a) = h /\ Low8(a) = l
    BY SMT DEF High8, Low8
  <1> HIDE DEF h, l
  <1> QED
    BY <1>2, <1>3, SMT DEF Join8, Eight

\* Two bytes make half a word with them as its bytes.
LEMMA BytesMakeHalf ==
  ASSUME NEW p \in Eight, NEW q \in Eight
  PROVE  /\ Join8(p, q) \in Half
         /\ High8(Join8(p, q)) = p /\ Low8(Join8(p, q)) = q
  <1>1. p \in Nat /\ p < 256 /\ q \in Nat /\ q < 256
    BY SMT DEF Eight
  <1> DEFINE a == (256 * p) + q
  <1>2. a \div 256 = p
    BY <1>1, SMT
  <1>3. a % 256 = q
    BY <1>1, SMT
  <1>4. a \in Nat /\ a < 65536
    BY <1>1, SMT
  <1>5. Join8(p, q) = a
    BY SMT DEF Join8
  <1> HIDE DEF a
  <1> QED
    BY <1>2, <1>3, <1>4, <1>5, SMT DEF Half, Top, High8, Low8

\* Its digits make it.
LEMMA DigitsOf ==
  ASSUME NEW a \in Half
  PROVE  IsDigits(a, Digits(a))
  <1>1. /\ High8(a) \in Eight /\ Low8(a) \in Eight
        /\ a = Join8(High8(a), Low8(a))
    BY HalfBytes, Zenon
  <1>2. /\ High4(High8(a)) \in Four /\ Low4(High8(a)) \in Four
        /\ High8(a) = Join4(High4(High8(a)), Low4(High8(a)))
        /\ High4(Low8(a)) \in Four /\ Low4(Low8(a)) \in Four
        /\ Low8(a) = Join4(High4(Low8(a)), Low4(Low8(a)))
    BY <1>1, ByteDigits, Zenon
  <1>3. /\ Digits(a) \in [1 .. 4 -> Four]
        /\ Digits(a)[1] = High4(High8(a)) /\ Digits(a)[2] = Low4(High8(a))
        /\ Digits(a)[3] = High4(Low8(a)) /\ Digits(a)[4] = Low4(Low8(a))
    BY <1>2 DEF Digits
  <1> QED
    BY <1>1, <1>2, <1>3, Zenon DEF IsDigits

\* And no others do.
LEMMA DigitsFound ==
  ASSUME NEW a, NEW d, IsDigits(a, d)
  PROVE  /\ a \in Half
         /\ \A i \in 1 .. 4 : Digits(a)[i] = d[i]
  <1>1. /\ d[1] \in Four /\ d[2] \in Four /\ d[3] \in Four /\ d[4] \in Four
        /\ a = Join8(Join4(d[1], d[2]), Join4(d[3], d[4]))
    BY DEF IsDigits
  <1> DEFINE p == Join4(d[1], d[2])  q == Join4(d[3], d[4])
  <1>2. /\ p \in Eight /\ High4(p) = d[1] /\ Low4(p) = d[2]
        /\ q \in Eight /\ High4(q) = d[3] /\ Low4(q) = d[4]
    BY <1>1, DigitsMakeByte, Zenon
  <1> HIDE DEF p, q
  <1>3. a \in Half /\ High8(a) = p /\ Low8(a) = q
    BY <1>1, <1>2, BytesMakeHalf, Zenon DEF p, q
  <1>4. /\ Digits(a)[1] = High4(p) /\ Digits(a)[2] = Low4(p)
        /\ Digits(a)[3] = High4(q) /\ Digits(a)[4] = Low4(q)
    BY <1>3 DEF Digits
  <1> QED
    BY <1>2, <1>3, <1>4

\* ~ of sixteen bits.
Not16(a) == 65535 - a

\* A table works digit by digit.
LEMMA DigitByDigit ==
  ASSUME NEW t, \A i, j \in Four : t[i][j] \in Four,
         NEW a \in Half, NEW b \in Half
  PROVE  IsDigits(On16(t, a, b),
                  [i \in 1 .. 4 |-> t[Digits(a)[i]][Digits(b)[i]]])
  <1> DEFINE d == Digits(a)  e == Digits(b)
             v == [i \in 1 .. 4 |-> t[d[i]][e[i]]]
  <1>1. IsDigits(a, d) /\ IsDigits(b, e)
    BY DigitsOf, Zenon
  <1>2. \A i \in 1 .. 4 : d[i] \in Four /\ e[i] \in Four
    BY <1>1, Zenon DEF IsDigits
  <1>3. /\ d[1] = High4(High8(a)) /\ d[2] = Low4(High8(a))
        /\ d[3] = High4(Low8(a)) /\ d[4] = Low4(Low8(a))
        /\ e[1] = High4(High8(b)) /\ e[2] = Low4(High8(b))
        /\ e[3] = High4(Low8(b)) /\ e[4] = Low4(Low8(b))
    BY DEF Digits
  <1> HIDE DEF d, e
  <1>4. v[1] = t[d[1]][e[1]] /\ v[2] = t[d[2]][e[2]]
        /\ v[3] = t[d[3]][e[3]] /\ v[4] = t[d[4]][e[4]]
    OBVIOUS
  <1>5. v \in [1 .. 4 -> Four]
    BY <1>2, Zenon
  <1>6. On16(t, a, b) = Join8(On8(t, High8(a), High8(b)),
                              On8(t, Low8(a), Low8(b)))
    BY SMT DEF On16, Join8, High8, Low8
  <1>7. \A x, y : On8(t, x, y) = Join4(t[High4(x)][High4(y)],
                                       t[Low4(x)][Low4(y)])
    BY SMT DEF On8, Join4, High4, Low4
  <1> HIDE DEF v
  <1>8. On16(t, a, b) = Join8(Join4(v[1], v[2]), Join4(v[3], v[4]))
    BY <1>3, <1>4, <1>6, <1>7, Zenon
  <1>9. IsDigits(On16(t, a, b), v)
    BY <1>5, <1>8, Zenon DEF IsDigits
  <1> QED
    BY <1>9, Zenon DEF v, d, e

\* Arithmetic: nothing is borrowed.
LEMMA NotOfJoined ==
  ASSUME NEW x \in Four, NEW y \in Four, NEW z \in Four, NEW u \in Four
  PROVE  Not16(Join8(Join4(x, y), Join4(z, u)))
           = Join8(Join4(Not4(x), Not4(y)), Join4(Not4(z), Not4(u)))
  BY SMT DEF Not16, Join8, Join4, Not4, Four

\* And so does ~.
LEMMA NotByDigit ==
  ASSUME NEW a \in Half
  PROVE  IsDigits(Not16(a), [i \in 1 .. 4 |-> Not4(Digits(a)[i])])
  <1> DEFINE d == Digits(a)
             w == [i \in 1 .. 4 |-> Not4(d[i])]
  <1>1. IsDigits(a, d)
    BY DigitsOf, Zenon
  <1>2. \A i \in 1 .. 4 : d[i] \in Four
    BY <1>1, Zenon DEF IsDigits
  <1>3. a = Join8(Join4(d[1], d[2]), Join4(d[3], d[4]))
    BY <1>1, Zenon DEF IsDigits
  <1> HIDE DEF d
  <1>4. w[1] = Not4(d[1]) /\ w[2] = Not4(d[2])
        /\ w[3] = Not4(d[3]) /\ w[4] = Not4(d[4])
    OBVIOUS
  <1>5. \A x \in Four : Not4(x) \in Four
    BY DEF Four, Not4
  <1>6. w \in [1 .. 4 -> Four]
    BY <1>2, <1>5, Zenon
  <1> HIDE DEF w
  <1>8. Not16(a) = Join8(Join4(w[1], w[2]), Join4(w[3], w[4]))
    <2> DEFINE x == d[1]  y == d[2]  z == d[3]  u == d[4]
    <2>1. x \in Four /\ y \in Four /\ z \in Four /\ u \in Four
      BY <1>2
    <2> HIDE DEF x, y, z, u
    <2>2. Not16(Join8(Join4(x, y), Join4(z, u)))
            = Join8(Join4(Not4(x), Not4(y)), Join4(Not4(z), Not4(u)))
      BY <2>1, NotOfJoined, SMT
    <2>3. Not16(Join8(Join4(d[1], d[2]), Join4(d[3], d[4])))
            = Join8(Join4(Not4(d[1]), Not4(d[2])),
                    Join4(Not4(d[3]), Not4(d[4])))
      BY <2>2 DEF x, y, z, u
    <2>4. Not16(a) = Not16(Join8(Join4(d[1], d[2]), Join4(d[3], d[4])))
      BY <1>3
    <2> QED
      BY <1>4, <2>3, <2>4
  <1>9. IsDigits(Not16(a), w)
    BY <1>6, <1>8, Zenon DEF IsDigits
  <1> QED
    BY <1>9, Zenon DEF w, d

\* The three tables hold numbers below 16.
LEMMA TablesInRange ==
  ASSUME NEW i \in Four, NEW j \in Four
  PROVE  And4[i][j] \in Four /\ Or4[i][j] \in Four /\ Xor4[i][j] \in Four
  BY FourIdentities, Zenon

\* The operators at work on each digit of four bits.
AndT(p, q) == And4[p][q]
OrT(p, q) == Or4[p][q]
XorT(p, q) == Xor4[p][q]
AndD(u, v) == [i \in 1 .. 4 |-> AndT(u[i], v[i])]
OrD(u, v) == [i \in 1 .. 4 |-> OrT(u[i], v[i])]
XorD(u, v) == [i \in 1 .. 4 |-> XorT(u[i], v[i])]
NotD(u) == [i \in 1 .. 4 |-> Not4(u[i])]

\* The operators of sixteen bits by the digits of their operands.
LEMMA OpsByDigit ==
  ASSUME NEW a, NEW b, NEW d, NEW e, IsDigits(a, d), IsDigits(b, e)
  PROVE  /\ IsDigits(And16(a, b), AndD(d, e))
         /\ IsDigits(Or16(a, b), OrD(d, e))
         /\ IsDigits(Xor16(a, b), XorD(d, e))
         /\ IsDigits(Not16(a), NotD(d))
  <1>1. /\ a \in Half /\ \A i \in 1 .. 4 : Digits(a)[i] = d[i]
        /\ b \in Half /\ \A i \in 1 .. 4 : Digits(b)[i] = e[i]
    BY DigitsFound, Zenon
  <1>2. \A t : [i \in 1 .. 4 |-> t[Digits(a)[i]][Digits(b)[i]]]
                = [i \in 1 .. 4 |-> t[d[i]][e[i]]]
    BY <1>1
  <1>3. [i \in 1 .. 4 |-> Not4(Digits(a)[i])] = [i \in 1 .. 4 |-> Not4(d[i])]
    BY <1>1
  <1>4. \A i, j \in Four : And4[i][j] \in Four
    BY TablesInRange, Zenon
  <1>5. \A i, j \in Four : Or4[i][j] \in Four
    BY TablesInRange, Zenon
  <1>6. \A i, j \in Four : Xor4[i][j] \in Four
    BY TablesInRange, Zenon
  <1>7. IsDigits(And16(a, b),
                 [i \in 1 .. 4 |-> And4[Digits(a)[i]][Digits(b)[i]]])
    BY <1>1, <1>4, DigitByDigit, Zenon DEF And16
  <1>8. IsDigits(Or16(a, b),
                 [i \in 1 .. 4 |-> Or4[Digits(a)[i]][Digits(b)[i]]])
    BY <1>1, <1>5, DigitByDigit, Zenon DEF Or16
  <1>9. IsDigits(Xor16(a, b),
                 [i \in 1 .. 4 |-> Xor4[Digits(a)[i]][Digits(b)[i]]])
    BY <1>1, <1>6, DigitByDigit, Zenon DEF Xor16
  <1>10. IsDigits(Not16(a), [i \in 1 .. 4 |-> Not4(Digits(a)[i])])
    BY <1>1, NotByDigit, Zenon
  <1> QED
    BY <1>2, <1>3, <1>7, <1>8, <1>9, <1>10
       DEF AndD, OrD, XorD, NotD, AndT, OrT, XorT

\* The same digits are those of the same number.
LEMMA SameDigits ==
  ASSUME NEW a, NEW b, NEW d, NEW e, IsDigits(a, d), IsDigits(b, e),
         \A i \in 1 .. 4 : d[i] = e[i]
  PROVE  a = b
  <1>1. d[1] = e[1] /\ d[2] = e[2] /\ d[3] = e[3] /\ d[4] = e[4]
    OBVIOUS
  <1> QED
    BY <1>1, Zenon DEF IsDigits

\* F of SHA-1 and MD5 for a digit.
FourIds(p, q, r) ==
  /\ XorT(r, AndT(p, XorT(q, r))) = OrT(AndT(p, q), AndT(Not4(p), r))
  /\ OrT(AndT(p, q), AndT(r, OrT(p, q)))
       = XorT(AndT(p, q), XorT(AndT(p, r), AndT(q, r)))
  /\ XorT(q, AndT(r, XorT(p, q))) = OrT(AndT(p, r), AndT(q, Not4(r)))
  /\ XorT(p, q) = XorT(q, p)

\* Each of the sixteen cases of each digit.
LEMMA FourIdsHold ==
  ASSUME NEW p \in Four, NEW q \in Four, NEW r \in Four
  PROVE  FourIds(p, q, r)
  <1>1. /\ Xor4[r][And4[p][Xor4[q][r]]] = Or4[And4[p][q]][And4[Not4(p)][r]]
        /\ Or4[And4[p][q]][And4[r][Or4[p][q]]]
             = Xor4[And4[p][q]][Xor4[And4[p][r]][And4[q][r]]]
        /\ Xor4[q][And4[r][Xor4[p][q]]] = Or4[And4[p][r]][And4[q][Not4(r)]]
        /\ Xor4[p][q] = Xor4[q][p]
    BY FourIdentities, SMT
  <1> QED
    BY <1>1, ZenonT(30) DEF FourIds, AndT, OrT, XorT

\* F of SHA-1 and MD5 as the code has it and as the standards do, and what
\* keeps to sixteen bits.
HalfIds(a, b, c) ==
  /\ Xor16(c, And16(a, Xor16(b, c))) = Or16(And16(a, b), And16(Not16(a), c))
  /\ Or16(And16(a, b), And16(c, Or16(a, b)))
       = Xor16(And16(a, b), Xor16(And16(a, c), And16(b, c)))
  /\ Xor16(b, And16(c, Xor16(a, b))) = Or16(And16(a, c), And16(b, Not16(c)))
  /\ Xor16(a, b) = Xor16(b, a)

HalfOps(a, b) ==
  /\ And16(a, b) \in Half /\ Or16(a, b) \in Half
  /\ Xor16(a, b) \in Half /\ Not16(a) \in Half

\* What holds of four bits holds of sixteen.
LEMMA HalfIdentities ==
  ASSUME NEW a \in Half, NEW b \in Half, NEW c \in Half
  PROVE  HalfIds(a, b, c) /\ HalfOps(a, b)
  <1> DEFINE x == Digits(a)  y == Digits(b)  z == Digits(c)
  <1>1. IsDigits(a, x)
    BY DigitsOf, Zenon
  <1>2. IsDigits(b, y)
    BY DigitsOf, Zenon
  <1>3. IsDigits(c, z)
    BY DigitsOf, Zenon
  <1> HIDE DEF x, y, z
  <1>4. \A m, n, u, v : IsDigits(m, u) /\ IsDigits(n, v) =>
          /\ IsDigits(And16(m, n), AndD(u, v))
          /\ IsDigits(Or16(m, n), OrD(u, v))
          /\ IsDigits(Xor16(m, n), XorD(u, v))
          /\ IsDigits(Not16(m), NotD(u))
    BY OpsByDigit, Zenon
  <1>5. \A u, v : \A i \in 1 .. 4 : /\ AndD(u, v)[i] = AndT(u[i], v[i])
                                    /\ OrD(u, v)[i] = OrT(u[i], v[i])
                                    /\ XorD(u, v)[i] = XorT(u[i], v[i])
                                    /\ NotD(u)[i] = Not4(u[i])
    BY Zenon DEF AndD, OrD, XorD, NotD
  <1>6. \A i \in 1 .. 4 : x[i] \in Four /\ y[i] \in Four /\ z[i] \in Four
    <2>1. \A m, u : IsDigits(m, u) => \A i \in 1 .. 4 : u[i] \in Four
      BY Zenon DEF IsDigits
    <2> QED
      BY <1>1, <1>2, <1>3, <2>1
  <1>12. \A i \in 1 .. 4 : FourIds(x[i], y[i], z[i])
    BY <1>6, FourIdsHold, Zenon
  <1>7. Xor16(c, And16(a, Xor16(b, c))) = Or16(And16(a, b), And16(Not16(a), c))
    <2>1. IsDigits(Xor16(c, And16(a, Xor16(b, c))),
                   XorD(z, AndD(x, XorD(y, z))))
      <3>1. IsDigits(Xor16(b, c), XorD(y, z))
        BY <1>2, <1>3, <1>4, Zenon
      <3>2. IsDigits(And16(a, Xor16(b, c)), AndD(x, XorD(y, z)))
        BY <1>1, <1>4, <3>1, Zenon
      <3> QED
        BY <1>3, <1>4, <3>2, Zenon
    <2>2. IsDigits(Or16(And16(a, b), And16(Not16(a), c)),
                   OrD(AndD(x, y), AndD(NotD(x), z)))
      <3>1. IsDigits(And16(a, b), AndD(x, y)) /\ IsDigits(Not16(a), NotD(x))
        BY <1>1, <1>2, <1>4, Zenon
      <3>2. IsDigits(And16(Not16(a), c), AndD(NotD(x), z))
        BY <1>3, <1>4, <3>1, Zenon
      <3> QED
        BY <1>4, <3>1, <3>2
    <2>3. \A i \in 1 .. 4 : XorD(z, AndD(x, XorD(y, z)))[i]
                              = OrD(AndD(x, y), AndD(NotD(x), z))[i]
      <3> TAKE i \in 1 .. 4
      <3>1. XorT(z[i], AndT(x[i], XorT(y[i], z[i])))
              = OrT(AndT(x[i], y[i]), AndT(Not4(x[i]), z[i]))
        BY <1>12, Zenon DEF FourIds
      <3> QED
        BY <1>5, <3>1
    <2> QED
      BY <2>1, <2>2, <2>3, SameDigits
  <1>8. Or16(And16(a, b), And16(c, Or16(a, b)))
          = Xor16(And16(a, b), Xor16(And16(a, c), And16(b, c)))
    <2>1. IsDigits(Or16(And16(a, b), And16(c, Or16(a, b))),
                   OrD(AndD(x, y), AndD(z, OrD(x, y))))
      <3>1. /\ IsDigits(And16(a, b), AndD(x, y))
            /\ IsDigits(Or16(a, b), OrD(x, y))
        BY <1>1, <1>2, <1>4, Zenon
      <3>2. IsDigits(And16(c, Or16(a, b)), AndD(z, OrD(x, y)))
        BY <1>3, <1>4, <3>1, Zenon
      <3> QED
        BY <1>4, <3>1, <3>2
    <2>2. IsDigits(Xor16(And16(a, b), Xor16(And16(a, c), And16(b, c))),
                   XorD(AndD(x, y), XorD(AndD(x, z), AndD(y, z))))
      <3>1. /\ IsDigits(And16(a, b), AndD(x, y))
            /\ IsDigits(And16(a, c), AndD(x, z))
            /\ IsDigits(And16(b, c), AndD(y, z))
        BY <1>1, <1>2, <1>3, <1>4, Zenon
      <3>2. IsDigits(Xor16(And16(a, c), And16(b, c)),
                     XorD(AndD(x, z), AndD(y, z)))
        BY <1>4, <3>1, Zenon
      <3> QED
        BY <1>4, <3>1, <3>2
    <2>3. \A i \in 1 .. 4 :
            OrD(AndD(x, y), AndD(z, OrD(x, y)))[i]
              = XorD(AndD(x, y), XorD(AndD(x, z), AndD(y, z)))[i]
      <3> TAKE i \in 1 .. 4
      <3>1. OrT(AndT(x[i], y[i]), AndT(z[i], OrT(x[i], y[i])))
              = XorT(AndT(x[i], y[i]),
                     XorT(AndT(x[i], z[i]), AndT(y[i], z[i])))
        BY <1>12, Zenon DEF FourIds
      <3> QED
        BY <1>5, <3>1
    <2> DEFINE u == OrD(AndD(x, y), AndD(z, OrD(x, y)))
               v == XorD(AndD(x, y), XorD(AndD(x, z), AndD(y, z)))
               m == Or16(And16(a, b), And16(c, Or16(a, b)))
               n == Xor16(And16(a, b), Xor16(And16(a, c), And16(b, c)))
    <2>4. IsDigits(m, u) /\ IsDigits(n, v) /\ \A i \in 1 .. 4 : u[i] = v[i]
      BY <2>1, <2>2, <2>3, Zenon
    <2> HIDE DEF u, v, m, n
    <2>5. m = n
      BY <2>4, SameDigits
    <2> QED
      BY <2>5 DEF m, n
  <1>9. Xor16(b, And16(c, Xor16(a, b))) = Or16(And16(a, c), And16(b, Not16(c)))
    <2>1. IsDigits(Xor16(b, And16(c, Xor16(a, b))),
                   XorD(y, AndD(z, XorD(x, y))))
      <3>1. IsDigits(Xor16(a, b), XorD(x, y))
        BY <1>1, <1>2, <1>4, Zenon
      <3>2. IsDigits(And16(c, Xor16(a, b)), AndD(z, XorD(x, y)))
        BY <1>3, <1>4, <3>1, Zenon
      <3> QED
        BY <1>2, <1>4, <3>2, Zenon
    <2>2. IsDigits(Or16(And16(a, c), And16(b, Not16(c))),
                   OrD(AndD(x, z), AndD(y, NotD(z))))
      <3>1. IsDigits(And16(a, c), AndD(x, z)) /\ IsDigits(Not16(c), NotD(z))
        BY <1>1, <1>3, <1>4, Zenon
      <3>2. IsDigits(And16(b, Not16(c)), AndD(y, NotD(z)))
        BY <1>2, <1>4, <3>1, Zenon
      <3> QED
        BY <1>4, <3>1, <3>2
    <2>3. \A i \in 1 .. 4 : XorD(y, AndD(z, XorD(x, y)))[i]
                              = OrD(AndD(x, z), AndD(y, NotD(z)))[i]
      <3> TAKE i \in 1 .. 4
      <3>1. XorT(y[i], AndT(z[i], XorT(x[i], y[i])))
              = OrT(AndT(x[i], z[i]), AndT(y[i], Not4(z[i])))
        BY <1>12, Zenon DEF FourIds
      <3> QED
        BY <1>5, <3>1
    <2> QED
      BY <2>1, <2>2, <2>3, SameDigits
  <1>10. Xor16(a, b) = Xor16(b, a)
    <2>1. /\ IsDigits(Xor16(a, b), XorD(x, y))
          /\ IsDigits(Xor16(b, a), XorD(y, x))
      BY <1>1, <1>2, <1>4, Zenon
    <2>2. \A i \in 1 .. 4 : XorD(x, y)[i] = XorD(y, x)[i]
      <3> TAKE i \in 1 .. 4
      <3>1. XorT(x[i], y[i]) = XorT(y[i], x[i])
        BY <1>12, Zenon DEF FourIds
      <3> QED
        BY <1>5, <3>1
    <2> QED
      BY <2>1, <2>2, SameDigits, Zenon
  <1>11. /\ And16(a, b) \in Half /\ Or16(a, b) \in Half
         /\ Xor16(a, b) \in Half /\ Not16(a) \in Half
    <2>1. /\ IsDigits(And16(a, b), AndD(x, y))
          /\ IsDigits(Or16(a, b), OrD(x, y))
          /\ IsDigits(Xor16(a, b), XorD(x, y)) /\ IsDigits(Not16(a), NotD(x))
      BY <1>1, <1>2, <1>4, Zenon
    <2> QED
      BY <2>1, DigitsFound, Zenon
  <1> QED
    BY <1>7, <1>8, <1>9, <1>10, <1>11, Zenon DEF HalfIds, HalfOps

\* A word is two halves.
LEMMA WordParts ==
  ASSUME NEW w \in Word
  PROVE  w[1] \in Half /\ w[2] \in Half /\ w = <<w[1], w[2]>>
  BY DEF Word

\* Two halves make a word.
LEMMA PartsMakeWord ==
  ASSUME NEW a \in Half, NEW b \in Half
  PROVE  <<a, b>> \in Word /\ <<a, b>>[1] = a /\ <<a, b>>[2] = b
  BY DEF Word

\* The operators on words.
LEMMA WordOps ==
  ASSUME NEW a \in Word, NEW b \in Word
  PROVE  /\ XorW(a, b) \in Word
         /\ XorW(a, b)[1] = Xor16(a[1], b[1])
         /\ XorW(a, b)[2] = Xor16(a[2], b[2])
         /\ AndW(a, b) \in Word
         /\ AndW(a, b)[1] = And16(a[1], b[1])
         /\ AndW(a, b)[2] = And16(a[2], b[2])
         /\ OrW(a, b) \in Word
         /\ OrW(a, b)[1] = Or16(a[1], b[1])
         /\ OrW(a, b)[2] = Or16(a[2], b[2])
         /\ NotW(a) \in Word
         /\ NotW(a)[1] = Not16(a[1])
         /\ NotW(a)[2] = Not16(a[2])
  <1>1. a[1] \in Half /\ a[2] \in Half /\ b[1] \in Half /\ b[2] \in Half
    BY WordParts, Zenon
  <1>2. /\ Xor16(a[1], b[1]) \in Half /\ Xor16(a[2], b[2]) \in Half
        /\ And16(a[1], b[1]) \in Half /\ And16(a[2], b[2]) \in Half
        /\ Or16(a[1], b[1]) \in Half /\ Or16(a[2], b[2]) \in Half
        /\ Not16(a[1]) \in Half /\ Not16(a[2]) \in Half
    <2>1. HalfOps(a[1], b[1]) /\ HalfOps(a[2], b[2])
      BY <1>1, HalfIdentities, Zenon
    <2> QED
      BY <2>1, Zenon DEF HalfOps
  <1>3. NotW(a) = <<Not16(a[1]), Not16(a[2])>>
    BY SMT DEF NotW, Not16
  <1>4. /\ XorW(a, b) = <<Xor16(a[1], b[1]), Xor16(a[2], b[2])>>
        /\ AndW(a, b) = <<And16(a[1], b[1]), And16(a[2], b[2])>>
        /\ OrW(a, b) = <<Or16(a[1], b[1]), Or16(a[2], b[2])>>
    BY Zenon DEF XorW, AndW, OrW
  <1>5. \A x, y \in Half :
          <<x, y>> \in Word /\ <<x, y>>[1] = x /\ <<x, y>>[2] = y
    BY PartsMakeWord, Zenon
  <1> QED
    BY <1>2, <1>3, <1>4, <1>5, SMT

\* Two words with the same halves are the same.
LEMMA EqualWords ==
  ASSUME NEW a \in Word, NEW b \in Word, a[1] = b[1], a[2] = b[2]
  PROVE  a = b
  BY WordParts, Zenon

\* F of SHA-1 and MD5 for words.
LEMMA WordIdentities ==
  ASSUME NEW a \in Word, NEW b \in Word, NEW c \in Word
  PROVE  /\ XorW(c, AndW(a, XorW(b, c)))
              = OrW(AndW(a, b), AndW(NotW(a), c))
         /\ OrW(AndW(a, b), AndW(c, OrW(a, b)))
              = XorW(AndW(a, b), XorW(AndW(a, c), AndW(b, c)))
         /\ XorW(b, AndW(c, XorW(a, b)))
              = OrW(AndW(a, c), AndW(b, NotW(c)))
  <1>1. /\ a[1] \in Half /\ a[2] \in Half /\ b[1] \in Half /\ b[2] \in Half
        /\ c[1] \in Half /\ c[2] \in Half
    BY WordParts, Zenon
  <1>2. \A x, y : /\ XorW(x, y) = <<Xor16(x[1], y[1]), Xor16(x[2], y[2])>>
                  /\ AndW(x, y) = <<And16(x[1], y[1]), And16(x[2], y[2])>>
                  /\ OrW(x, y) = <<Or16(x[1], y[1]), Or16(x[2], y[2])>>
                  /\ NotW(x) = <<Not16(x[1]), Not16(x[2])>>
    BY SMT DEF XorW, AndW, OrW, NotW, Not16
  <1>3. \A x, y : <<x, y>>[1] = x /\ <<x, y>>[2] = y
    OBVIOUS
  <1>4. /\ XorW(c, AndW(a, XorW(b, c)))
             = <<Xor16(c[1], And16(a[1], Xor16(b[1], c[1]))),
                 Xor16(c[2], And16(a[2], Xor16(b[2], c[2])))>>
        /\ OrW(AndW(a, b), AndW(NotW(a), c))
             = <<Or16(And16(a[1], b[1]), And16(Not16(a[1]), c[1])),
                 Or16(And16(a[2], b[2]), And16(Not16(a[2]), c[2]))>>
    BY <1>2, <1>3
  <1>5. /\ OrW(AndW(a, b), AndW(c, OrW(a, b)))
             = <<Or16(And16(a[1], b[1]), And16(c[1], Or16(a[1], b[1]))),
                 Or16(And16(a[2], b[2]), And16(c[2], Or16(a[2], b[2])))>>
        /\ XorW(AndW(a, b), XorW(AndW(a, c), AndW(b, c)))
             = <<Xor16(And16(a[1], b[1]),
                       Xor16(And16(a[1], c[1]), And16(b[1], c[1]))),
                 Xor16(And16(a[2], b[2]),
                       Xor16(And16(a[2], c[2]), And16(b[2], c[2])))>>
    BY <1>2, <1>3
  <1>6. /\ XorW(b, AndW(c, XorW(a, b)))
             = <<Xor16(b[1], And16(c[1], Xor16(a[1], b[1]))),
                 Xor16(b[2], And16(c[2], Xor16(a[2], b[2])))>>
        /\ OrW(AndW(a, c), AndW(b, NotW(c)))
             = <<Or16(And16(a[1], c[1]), And16(b[1], Not16(c[1]))),
                 Or16(And16(a[2], c[2]), And16(b[2], Not16(c[2])))>>
    BY <1>2, <1>3
  <1>7. HalfIds(a[1], b[1], c[1]) /\ HalfIds(a[2], b[2], c[2])
    BY <1>1, HalfIdentities, Zenon
  <1> QED
    BY <1>4, <1>5, <1>6, <1>7 DEF HalfIds

-----------------------------------------------------------------------------
(* Runs: what Steps does, one step after another.                          *)

\* Induction: what holds for 0 and goes on to the next holds up to n.
LEMMA StepByStep ==
  ASSUME NEW n \in Nat, NEW T, 0 \in T,
         \A i \in 1 .. n : i - 1 \in T => i \in T
  PROVE  \A i \in 0 .. n : i \in T
  <1> DEFINE Bad == {i \in 0 .. n : i \notin T}
  <1> SUFFICES ASSUME Bad # {} PROVE FALSE
    OBVIOUS
  <1>1. Bad \in SUBSET Nat
    OBVIOUS
  <1>2. PICK m \in Bad : \A k \in Bad : m <= k
    BY <1>1, Least
  <1>3. m \in 0 .. n /\ m \notin T /\ m # 0
    BY <1>2
  <1>4. m - 1 \in 0 .. n /\ m - 1 < m /\ m \in 1 .. n
    BY <1>3
  <1>5. m - 1 \in T
    BY <1>2, <1>4
  <1> QED
    BY <1>3, <1>4, <1>5

\* A run of n steps from s: the i-th is p[i].
IsRun(f, s, p, n) == f = [i \in 0 .. n |-> IF i = 0 THEN s ELSE p[i][f[i - 1]]]

\* There is one, when each step is defined on what the one before makes.
LEMMA RunExists ==
  ASSUME NEW n \in Nat, NEW Elem, NEW p, NEW s \in Elem[0],
         \A i \in 1 .. n : \A x \in Elem[i - 1] : p[i][x] \in Elem[i]
  PROVE  \E f : IsRun(f, s, p, n) /\ \A i \in 0 .. n : f[i] \in Elem[i]
  <1> DEFINE T == {m \in 0 .. n :
                     \E f : /\ IsRun(f, s, p, m)
                            /\ \A i \in 0 .. m : f[i] \in Elem[i]}
  <1>1. 0 \in T
    <2> DEFINE f == [i \in 0 .. 0 |-> s]
    <2>1. f = [i \in 0 .. 0 |-> IF i = 0 THEN s ELSE p[i][f[i - 1]]]
      OBVIOUS
    <2>2. \A i \in 0 .. 0 : f[i] \in Elem[i]
      OBVIOUS
    <2> HIDE DEF f
    <2> QED
      BY <2>1, <2>2 DEF IsRun
  <1>2. \A m \in 1 .. n : m - 1 \in T => m \in T
    <2> SUFFICES ASSUME NEW m \in 1 .. n, m - 1 \in T
                 PROVE  m \in T
      OBVIOUS
    <2>1. PICK f : /\ IsRun(f, s, p, m - 1)
                   /\ \A i \in 0 .. m - 1 : f[i] \in Elem[i]
      OBVIOUS
    <2> HIDE DEF T
    <2>2. f = [i \in 0 .. m - 1 |-> IF i = 0 THEN s ELSE p[i][f[i - 1]]]
      BY <2>1, Zenon DEF IsRun
    <2> DEFINE last == p[m][f[m - 1]]
    <2>3. last \in Elem[m]
      BY <2>1
    <2> HIDE DEF last
    <2> DEFINE g == [i \in 0 .. m |-> IF i < m THEN f[i] ELSE last]
    <2>4. \A i \in 0 .. m - 1 :
            g[i] = f[i] /\ f[i] = IF i = 0 THEN s ELSE p[i][f[i - 1]]
      BY <2>2
    <2>5. g[m] = last /\ m # 0 /\ m - 1 \in 0 .. m - 1
      OBVIOUS
    <2>6. g = [i \in 0 .. m |-> g[i]]
      OBVIOUS
    <2> HIDE DEF g
    <2>7. \A i \in 0 .. m : g[i] = IF i = 0 THEN s ELSE p[i][g[i - 1]]
      <3> TAKE i \in 0 .. m
      <3>1. CASE i = m
        <4>1. g[m - 1] = f[m - 1]
          BY <2>4, <2>5
        <4> QED
          BY <2>5, <3>1, <4>1 DEF last
      <3>2. CASE i # m
        <4>1. i \in 0 .. m - 1 /\ (i # 0 => i - 1 \in 0 .. m - 1)
          BY <3>2
        <4>2. i # 0 => g[i - 1] = f[i - 1]
          BY <2>4, <4>1
        <4> QED
          BY <2>4, <4>1, <4>2
      <3> QED
        BY <3>1, <3>2
    <2>8. IsRun(g, s, p, m)
      <3>1. [i \in 0 .. m |-> g[i]]
              = [i \in 0 .. m |-> IF i = 0 THEN s ELSE p[i][g[i - 1]]]
        BY <2>7
      <3> QED
        BY <2>6, <3>1, Zenon DEF IsRun
    <2>9. \A i \in 0 .. m : g[i] \in Elem[i]
      BY <2>1, <2>3, <2>4, <2>5
    <2> QED
      BY <2>8, <2>9 DEF T
  <1>3. n \in T
    <2> HIDE DEF T
    <2> QED
      BY <1>1, <1>2, StepByStep
  <1> QED
    BY <1>3

\* The steps of sha1_process.
Sha1Run(s, first, n) == Steps(Sha1Next, s, first, n)
Sha1Keeps(Elem, first, n) ==
  \A i \in 1 .. n : \A x \in Elem[i - 1] :
    Sha1Next(x, (first + i) - 1) \in Elem[i]
IsSha1Run(f, Elem, s, first, n) ==
  /\ f[0] = s
  /\ \A i \in 0 .. n : f[i] \in Elem[i]
  /\ \A i \in 1 .. n :
       f[i] = Sha1Next(f[i - 1], (first + i) - 1)
  /\ Sha1Run(s, first, n) = f[n]

\* Rounds of sha1_process run, whatever keeps its elements.
LEMMA Sha1Steps ==
  ASSUME NEW first \in Nat, NEW n \in Nat, NEW Elem, NEW s \in Elem[0],
         Sha1Keeps(Elem, first, n)
  PROVE  \E f : IsSha1Run(f, Elem, s, first, n)
  <1> DEFINE p == [i \in 1 .. n |-> [x \in Elem[i - 1] |->
                     Sha1Next(x, (first + i) - 1)]]
             IsIt(f) ==
               f = [i \in 0 .. n |->
                      IF i = 0 THEN s
                      ELSE Apply(LAMBDA x : Sha1Next(x, (first + i) - 1),
                                 f[i - 1])]
             h == CHOOSE f : IsIt(f)
  <1>12. \A i \in 1 .. n : \A x \in Elem[i - 1] :
        Sha1Next(x, (first + i) - 1) \in Elem[i]
    BY Zenon DEF Sha1Keeps
  <1>1. \A i \in 1 .. n : \A x \in Elem[i - 1] : p[i][x] \in Elem[i]
    BY <1>12
  <1> HIDE DEF p
  <1>2. PICK f : IsRun(f, s, p, n) /\ \A i \in 0 .. n : f[i] \in Elem[i]
    BY <1>1, RunExists, Zenon
  <1>3. \A i, x : Apply(LAMBDA z : Sha1Next(z, i), x)
                  = Sha1Next(x, i)
    BY Zenon DEF Apply
  <1>4. \A i \in 1 .. n : i - 1 \in 0 .. n
    OBVIOUS
  <1>5. \A i \in 0 .. n : i # 0 => i \in 1 .. n
    OBVIOUS
  <1>6. IsIt(f)
    <2>1. \A i \in 1 .. n : f[i - 1] \in Elem[i - 1]
      BY <1>2, <1>4
    <2>2. \A i \in 1 .. n :
            p[i][f[i - 1]] = Sha1Next(f[i - 1], (first + i) - 1)
      BY <2>1, Zenon DEF p
    <2>3. [i \in 0 .. n |-> IF i = 0 THEN s ELSE p[i][f[i - 1]]]
            = [i \in 0 .. n |->
                 IF i = 0 THEN s
                 ELSE Apply(LAMBDA x : Sha1Next(x, (first + i) - 1),
                            f[i - 1])]
      BY <1>3, <1>5, <2>2, Zenon
    <2> QED
      BY <1>2, <2>3, Zenon DEF IsRun
  <1>7. IsIt(h)
    BY <1>6, Zenon
  <1>8. Sha1Run(s, first, n) = h[n]
    BY Zenon DEF Steps, Apply, Sha1Run
  <1> HIDE DEF h
  <1>9. h[0] = s
    BY <1>7
  <1>10. \A i \in 1 .. n :
           h[i] = Sha1Next(h[i - 1], (first + i) - 1)
    <2> TAKE i \in 1 .. n
    <2>1. i \in 0 .. n /\ i # 0
      OBVIOUS
    <2> QED
      BY <1>3, <1>7, <2>1, Zenon
  <1>11. \A i \in 0 .. n : h[i] \in Elem[i]
    <2> DEFINE Good == {i \in 0 .. n : h[i] \in Elem[i]}
    <2>1. 0 \in Good
      BY <1>9
    <2>2. \A i \in 1 .. n : i - 1 \in Good => i \in Good
      BY <1>10, <1>12
    <2> HIDE DEF Good
    <2>3. \A i \in 0 .. n : i \in Good
      BY <2>1, <2>2, StepByStep
    <2> QED
      BY <2>3 DEF Good
  <1> QED
    BY <1>8, <1>9, <1>10, <1>11, Zenon DEF IsSha1Run

\* The words of the schedule.
ScheduleRun(s, first, n) == Steps(Longer, s, first, n)
ScheduleKeeps(Elem, first, n) ==
  \A i \in 1 .. n : \A x \in Elem[i - 1] :
    Longer(x, (first + i) - 1) \in Elem[i]
IsScheduleRun(f, Elem, s, first, n) ==
  /\ f[0] = s
  /\ \A i \in 0 .. n : f[i] \in Elem[i]
  /\ \A i \in 1 .. n :
       f[i] = Longer(f[i - 1], (first + i) - 1)
  /\ ScheduleRun(s, first, n) = f[n]

\* So does the schedule of the standard,
LEMMA ScheduleSteps ==
  ASSUME NEW first \in Nat, NEW n \in Nat, NEW Elem, NEW s \in Elem[0],
         ScheduleKeeps(Elem, first, n)
  PROVE  \E f : IsScheduleRun(f, Elem, s, first, n)
  <1> DEFINE p == [i \in 1 .. n |-> [x \in Elem[i - 1] |->
                     Longer(x, (first + i) - 1)]]
             IsIt(f) ==
               f = [i \in 0 .. n |->
                      IF i = 0 THEN s
                      ELSE Apply(LAMBDA x : Longer(x, (first + i) - 1),
                                 f[i - 1])]
             h == CHOOSE f : IsIt(f)
  <1>12. \A i \in 1 .. n : \A x \in Elem[i - 1] :
        Longer(x, (first + i) - 1) \in Elem[i]
    BY Zenon DEF ScheduleKeeps
  <1>1. \A i \in 1 .. n : \A x \in Elem[i - 1] : p[i][x] \in Elem[i]
    BY <1>12
  <1> HIDE DEF p
  <1>2. PICK f : IsRun(f, s, p, n) /\ \A i \in 0 .. n : f[i] \in Elem[i]
    BY <1>1, RunExists, Zenon
  <1>3. \A i, x : Apply(LAMBDA z : Longer(z, i), x)
                  = Longer(x, i)
    BY Zenon DEF Apply
  <1>4. \A i \in 1 .. n : i - 1 \in 0 .. n
    OBVIOUS
  <1>5. \A i \in 0 .. n : i # 0 => i \in 1 .. n
    OBVIOUS
  <1>6. IsIt(f)
    <2>1. \A i \in 1 .. n : f[i - 1] \in Elem[i - 1]
      BY <1>2, <1>4
    <2>2. \A i \in 1 .. n :
            p[i][f[i - 1]] = Longer(f[i - 1], (first + i) - 1)
      BY <2>1, Zenon DEF p
    <2>3. [i \in 0 .. n |-> IF i = 0 THEN s ELSE p[i][f[i - 1]]]
            = [i \in 0 .. n |->
                 IF i = 0 THEN s
                 ELSE Apply(LAMBDA x : Longer(x, (first + i) - 1),
                            f[i - 1])]
      BY <1>3, <1>5, <2>2, Zenon
    <2> QED
      BY <1>2, <2>3, Zenon DEF IsRun
  <1>7. IsIt(h)
    BY <1>6, Zenon
  <1>8. ScheduleRun(s, first, n) = h[n]
    BY Zenon DEF Steps, Apply, ScheduleRun
  <1> HIDE DEF h
  <1>9. h[0] = s
    BY <1>7
  <1>10. \A i \in 1 .. n :
           h[i] = Longer(h[i - 1], (first + i) - 1)
    <2> TAKE i \in 1 .. n
    <2>1. i \in 0 .. n /\ i # 0
      OBVIOUS
    <2> QED
      BY <1>3, <1>7, <2>1, Zenon
  <1>11. \A i \in 0 .. n : h[i] \in Elem[i]
    <2> DEFINE Good == {i \in 0 .. n : h[i] \in Elem[i]}
    <2>1. 0 \in Good
      BY <1>9
    <2>2. \A i \in 1 .. n : i - 1 \in Good => i \in Good
      BY <1>10, <1>12
    <2> HIDE DEF Good
    <2>3. \A i \in 0 .. n : i \in Good
      BY <2>1, <2>2, StepByStep
    <2> QED
      BY <2>3 DEF Good
  <1> QED
    BY <1>8, <1>9, <1>10, <1>11, Zenon DEF IsScheduleRun

\* The steps of the standard.
Sha1StandardRun(W, s, first, n) ==
  Steps(LAMBDA w, t : Sha1Step(W, w, t), s, first, n)
Sha1StandardKeeps(W, Elem, first, n) ==
  \A i \in 1 .. n : \A x \in Elem[i - 1] :
    Sha1Step(W, x, (first + i) - 1) \in Elem[i]
IsSha1StandardRun(W, f, Elem, s, first, n) ==
  /\ f[0] = s
  /\ \A i \in 0 .. n : f[i] \in Elem[i]
  /\ \A i \in 1 .. n :
       f[i] = Sha1Step(W, f[i - 1], (first + i) - 1)
  /\ Sha1StandardRun(W, s, first, n) = f[n]

\* its 80 steps with that schedule,
LEMMA Sha1StandardSteps ==
  ASSUME NEW first \in Nat, NEW n \in Nat, NEW W, NEW Elem, NEW s \in Elem[0],
         Sha1StandardKeeps(W, Elem, first, n)
  PROVE  \E f : IsSha1StandardRun(W, f, Elem, s, first, n)
  <1> DEFINE p == [i \in 1 .. n |-> [x \in Elem[i - 1] |->
                     Sha1Step(W, x, (first + i) - 1)]]
             IsIt(f) ==
               f = [i \in 0 .. n |->
                      IF i = 0 THEN s
                      ELSE Apply(LAMBDA x : Sha1Step(W, x, (first + i) - 1),
                                 f[i - 1])]
             h == CHOOSE f : IsIt(f)
  <1>12. \A i \in 1 .. n : \A x \in Elem[i - 1] :
        Sha1Step(W, x, (first + i) - 1) \in Elem[i]
    BY Zenon DEF Sha1StandardKeeps
  <1>1. \A i \in 1 .. n : \A x \in Elem[i - 1] : p[i][x] \in Elem[i]
    BY <1>12
  <1> HIDE DEF p
  <1>2. PICK f : IsRun(f, s, p, n) /\ \A i \in 0 .. n : f[i] \in Elem[i]
    BY <1>1, RunExists, Zenon
  <1>3. \A i, x : Apply(LAMBDA z : Sha1Step(W, z, i), x)
                  = Sha1Step(W, x, i)
    BY Zenon DEF Apply
  <1>4. \A i \in 1 .. n : i - 1 \in 0 .. n
    OBVIOUS
  <1>5. \A i \in 0 .. n : i # 0 => i \in 1 .. n
    OBVIOUS
  <1>6. IsIt(f)
    <2>1. \A i \in 1 .. n : f[i - 1] \in Elem[i - 1]
      BY <1>2, <1>4
    <2>2. \A i \in 1 .. n :
            p[i][f[i - 1]] = Sha1Step(W, f[i - 1], (first + i) - 1)
      BY <2>1, Zenon DEF p
    <2>3. [i \in 0 .. n |-> IF i = 0 THEN s ELSE p[i][f[i - 1]]]
            = [i \in 0 .. n |->
                 IF i = 0 THEN s
                 ELSE Apply(LAMBDA x : Sha1Step(W, x, (first + i) - 1),
                            f[i - 1])]
      BY <1>3, <1>5, <2>2, Zenon
    <2> QED
      BY <1>2, <2>3, Zenon DEF IsRun
  <1>7. IsIt(h)
    BY <1>6, Zenon
  <1>8. Sha1StandardRun(W, s, first, n) = h[n]
    BY Zenon DEF Steps, Apply, Sha1StandardRun
  <1> HIDE DEF h
  <1>9. h[0] = s
    BY <1>7
  <1>10. \A i \in 1 .. n :
           h[i] = Sha1Step(W, h[i - 1], (first + i) - 1)
    <2> TAKE i \in 1 .. n
    <2>1. i \in 0 .. n /\ i # 0
      OBVIOUS
    <2> QED
      BY <1>3, <1>7, <2>1, Zenon
  <1>11. \A i \in 0 .. n : h[i] \in Elem[i]
    <2> DEFINE Good == {i \in 0 .. n : h[i] \in Elem[i]}
    <2>1. 0 \in Good
      BY <1>9
    <2>2. \A i \in 1 .. n : i - 1 \in Good => i \in Good
      BY <1>10, <1>12
    <2> HIDE DEF Good
    <2>3. \A i \in 0 .. n : i \in Good
      BY <2>1, <2>2, StepByStep
    <2> QED
      BY <2>3 DEF Good
  <1> QED
    BY <1>8, <1>9, <1>10, <1>11, Zenon DEF IsSha1StandardRun

\* The steps of md5_process.
Md5Run(data, s, first, n) ==
  Steps(LAMBDA r, t : Md5P(r, t, GetLE(data, 4 * Md5K[t + 1])), s, first, n)
Md5Keeps(data, Elem, first, n) ==
  \A i \in 1 .. n : \A x \in Elem[i - 1] :
    Md5P(x, (first + i) - 1, GetLE(data, 4 * Md5K[((first + i) - 1) + 1]))
            \in Elem[i]
IsMd5Run(data, f, Elem, s, first, n) ==
  /\ f[0] = s
  /\ \A i \in 0 .. n : f[i] \in Elem[i]
  /\ \A i \in 1 .. n :
       f[i] = Md5P(f[i - 1], (first + i) - 1,
                   GetLE(data, 4 * Md5K[((first + i) - 1) + 1]))
  /\ Md5Run(data, s, first, n) = f[n]

\* the steps of md5_process with the words of a block,
LEMMA Md5Steps ==
  ASSUME NEW first \in Nat, NEW n \in Nat, NEW data, NEW Elem,
         NEW s \in Elem[0],
         Md5Keeps(data, Elem, first, n)
  PROVE  \E f : IsMd5Run(data, f, Elem, s, first, n)
  <1> DEFINE p == [i \in 1 .. n |-> [x \in Elem[i - 1] |->
                     Md5P(x, (first + i) - 1,
                          GetLE(data, 4 * Md5K[((first + i) - 1) + 1]))]]
             IsIt(f) ==
               f = [i \in 0 .. n |->
                      IF i = 0 THEN s
                      ELSE Apply(
                           LAMBDA x :
                             Md5P(x, (first + i) - 1,
                                  GetLE(data,
                                        4 * Md5K[((first + i) - 1) + 1])),
                           f[i - 1])]
             h == CHOOSE f : IsIt(f)
  <1>12. \A i \in 1 .. n : \A x \in Elem[i - 1] :
        Md5P(x, (first + i) - 1, GetLE(data, 4 * Md5K[((first + i) - 1) + 1]))
                \in Elem[i]
    BY Zenon DEF Md5Keeps
  <1>1. \A i \in 1 .. n : \A x \in Elem[i - 1] : p[i][x] \in Elem[i]
    BY <1>12
  <1> HIDE DEF p
  <1>2. PICK f : IsRun(f, s, p, n) /\ \A i \in 0 .. n : f[i] \in Elem[i]
    BY <1>1, RunExists, Zenon
  <1>3. \A i, x : Apply(LAMBDA z : Md5P(z, i, GetLE(data, 4 * Md5K[i + 1])), x)
                  = Md5P(x, i, GetLE(data, 4 * Md5K[i + 1]))
    BY Zenon DEF Apply
  <1>4. \A i \in 1 .. n : i - 1 \in 0 .. n
    OBVIOUS
  <1>5. \A i \in 0 .. n : i # 0 => i \in 1 .. n
    OBVIOUS
  <1>6. IsIt(f)
    <2>1. \A i \in 1 .. n : f[i - 1] \in Elem[i - 1]
      BY <1>2, <1>4
    <2>2. \A i \in 1 .. n :
            p[i][f[i - 1]]
              = Md5P(f[i - 1], (first + i) - 1,
                     GetLE(data, 4 * Md5K[((first + i) - 1) + 1]))
      BY <2>1, Zenon DEF p
    <2>3. [i \in 0 .. n |-> IF i = 0 THEN s ELSE p[i][f[i - 1]]]
            = [i \in 0 .. n |->
                 IF i = 0 THEN s
                 ELSE Apply(
                      LAMBDA x :
                        Md5P(x, (first + i) - 1,
                             GetLE(data, 4 * Md5K[((first + i) - 1) + 1])),
                      f[i - 1])]
      BY <1>3, <1>5, <2>2, Zenon
    <2> QED
      BY <1>2, <2>3, Zenon DEF IsRun
  <1>7. IsIt(h)
    BY <1>6, Zenon
  <1>8. Md5Run(data, s, first, n) = h[n]
    BY Zenon DEF Steps, Apply, Md5Run
  <1> HIDE DEF h
  <1>9. h[0] = s
    BY <1>7
  <1>10. \A i \in 1 .. n :
           h[i] = Md5P(h[i - 1], (first + i) - 1,
                       GetLE(data, 4 * Md5K[((first + i) - 1) + 1]))
    <2> TAKE i \in 1 .. n
    <2>1. i \in 0 .. n /\ i # 0
      OBVIOUS
    <2> QED
      BY <1>3, <1>7, <2>1, Zenon
  <1>11. \A i \in 0 .. n : h[i] \in Elem[i]
    <2> DEFINE Good == {i \in 0 .. n : h[i] \in Elem[i]}
    <2>1. 0 \in Good
      BY <1>9
    <2>2. \A i \in 1 .. n : i - 1 \in Good => i \in Good
      BY <1>10, <1>12
    <2> HIDE DEF Good
    <2>3. \A i \in 0 .. n : i \in Good
      BY <2>1, <2>2, StepByStep
    <2> QED
      BY <2>3 DEF Good
  <1> QED
    BY <1>8, <1>9, <1>10, <1>11, Zenon DEF IsMd5Run

\* The steps of RFC 1321.
Md5StandardRun(block, s, first, n) ==
  Steps(LAMBDA w, t : Md5Step(block, w, t), s, first, n)
Md5StandardKeeps(block, Elem, first, n) ==
  \A i \in 1 .. n : \A x \in Elem[i - 1] :
    Md5Step(block, x, (first + i) - 1) \in Elem[i]
IsMd5StandardRun(block, f, Elem, s, first, n) ==
  /\ f[0] = s
  /\ \A i \in 0 .. n : f[i] \in Elem[i]
  /\ \A i \in 1 .. n :
       f[i] = Md5Step(block, f[i - 1], (first + i) - 1)
  /\ Md5StandardRun(block, s, first, n) = f[n]

\* those of the standard with the same,
LEMMA Md5StandardSteps ==
  ASSUME NEW first \in Nat, NEW n \in Nat, NEW block, NEW Elem,
         NEW s \in Elem[0],
         Md5StandardKeeps(block, Elem, first, n)
  PROVE  \E f : IsMd5StandardRun(block, f, Elem, s, first, n)
  <1> DEFINE p == [i \in 1 .. n |-> [x \in Elem[i - 1] |->
                     Md5Step(block, x, (first + i) - 1)]]
             IsIt(f) ==
               f = [i \in 0 .. n |->
                      IF i = 0 THEN s
                      ELSE Apply(LAMBDA x : Md5Step(block, x, (first + i) - 1),
                                 f[i - 1])]
             h == CHOOSE f : IsIt(f)
  <1>12. \A i \in 1 .. n : \A x \in Elem[i - 1] :
        Md5Step(block, x, (first + i) - 1) \in Elem[i]
    BY Zenon DEF Md5StandardKeeps
  <1>1. \A i \in 1 .. n : \A x \in Elem[i - 1] : p[i][x] \in Elem[i]
    BY <1>12
  <1> HIDE DEF p
  <1>2. PICK f : IsRun(f, s, p, n) /\ \A i \in 0 .. n : f[i] \in Elem[i]
    BY <1>1, RunExists, Zenon
  <1>3. \A i, x : Apply(LAMBDA z : Md5Step(block, z, i), x)
                  = Md5Step(block, x, i)
    BY Zenon DEF Apply
  <1>4. \A i \in 1 .. n : i - 1 \in 0 .. n
    OBVIOUS
  <1>5. \A i \in 0 .. n : i # 0 => i \in 1 .. n
    OBVIOUS
  <1>6. IsIt(f)
    <2>1. \A i \in 1 .. n : f[i - 1] \in Elem[i - 1]
      BY <1>2, <1>4
    <2>2. \A i \in 1 .. n :
            p[i][f[i - 1]] = Md5Step(block, f[i - 1], (first + i) - 1)
      BY <2>1, Zenon DEF p
    <2>3. [i \in 0 .. n |-> IF i = 0 THEN s ELSE p[i][f[i - 1]]]
            = [i \in 0 .. n |->
                 IF i = 0 THEN s
                 ELSE Apply(LAMBDA x : Md5Step(block, x, (first + i) - 1),
                            f[i - 1])]
      BY <1>3, <1>5, <2>2, Zenon
    <2> QED
      BY <1>2, <2>3, Zenon DEF IsRun
  <1>7. IsIt(h)
    BY <1>6, Zenon
  <1>8. Md5StandardRun(block, s, first, n) = h[n]
    BY Zenon DEF Steps, Apply, Md5StandardRun
  <1> HIDE DEF h
  <1>9. h[0] = s
    BY <1>7
  <1>10. \A i \in 1 .. n :
           h[i] = Md5Step(block, h[i - 1], (first + i) - 1)
    <2> TAKE i \in 1 .. n
    <2>1. i \in 0 .. n /\ i # 0
      OBVIOUS
    <2> QED
      BY <1>3, <1>7, <2>1, Zenon
  <1>11. \A i \in 0 .. n : h[i] \in Elem[i]
    <2> DEFINE Good == {i \in 0 .. n : h[i] \in Elem[i]}
    <2>1. 0 \in Good
      BY <1>9
    <2>2. \A i \in 1 .. n : i - 1 \in Good => i \in Good
      BY <1>10, <1>12
    <2> HIDE DEF Good
    <2>3. \A i \in 0 .. n : i \in Good
      BY <2>1, <2>2, StepByStep
    <2> QED
      BY <2>3 DEF Good
  <1> QED
    BY <1>8, <1>9, <1>10, <1>11, Zenon DEF IsMd5StandardRun

\* The block behind k others.
BlockAt(all, k) == SubSeq(all, (64 * k) + 1, (64 * k) + 64)

\* The blocks, one after another, as the code has them.
BlockRun(algorithm, blocks, s, first, n) ==
  Steps(LAMBDA x, k : Process(algorithm, x, BlockAt(blocks, k)),
        s, first, n)
BlockKeeps(algorithm, blocks, Elem, first, n) ==
  \A i \in 1 .. n : \A x \in Elem[i - 1] :
    Process(algorithm, x, BlockAt(blocks, (first + i) - 1)) \in Elem[i]
IsBlockRun(algorithm, blocks, f, Elem, s, first, n) ==
  /\ f[0] = s
  /\ \A i \in 0 .. n : f[i] \in Elem[i]
  /\ \A i \in 1 .. n :
       f[i] = Process(algorithm, f[i - 1], BlockAt(blocks, (first + i) - 1))
  /\ BlockRun(algorithm, blocks, s, first, n) = f[n]

\* the blocks that the code goes through
LEMMA BlockSteps ==
  ASSUME NEW first \in Nat, NEW n \in Nat, NEW algorithm, NEW blocks,
         NEW Elem, NEW s \in Elem[0],
         BlockKeeps(algorithm, blocks, Elem, first, n)
  PROVE  \E f : IsBlockRun(algorithm, blocks, f, Elem, s, first, n)
  <1> DEFINE p == [i \in 1 .. n |-> [x \in Elem[i - 1] |->
                     Process(algorithm, x, BlockAt(blocks, (first + i) - 1))]]
             IsIt(f) ==
               f = [i \in 0 .. n |->
                      IF i = 0 THEN s
                      ELSE Apply(
                           LAMBDA x :
                             Process(algorithm, x,
                                     BlockAt(blocks, (first + i) - 1)),
                           f[i - 1])]
             h == CHOOSE f : IsIt(f)
  <1>12. \A i \in 1 .. n : \A x \in Elem[i - 1] :
        Process(algorithm, x, BlockAt(blocks, (first + i) - 1)) \in Elem[i]
    BY Zenon DEF BlockKeeps
  <1>1. \A i \in 1 .. n : \A x \in Elem[i - 1] : p[i][x] \in Elem[i]
    BY <1>12
  <1> HIDE DEF p
  <1>2. PICK f : IsRun(f, s, p, n) /\ \A i \in 0 .. n : f[i] \in Elem[i]
    BY <1>1, RunExists, Zenon
  <1>3. \A i, x :
          Apply(LAMBDA z : Process(algorithm, z, BlockAt(blocks, i)), x)
                  = Process(algorithm, x, BlockAt(blocks, i))
    BY Zenon DEF Apply
  <1>4. \A i \in 1 .. n : i - 1 \in 0 .. n
    OBVIOUS
  <1>5. \A i \in 0 .. n : i # 0 => i \in 1 .. n
    OBVIOUS
  <1>6. IsIt(f)
    <2>1. \A i \in 1 .. n : f[i - 1] \in Elem[i - 1]
      BY <1>2, <1>4
    <2>2. \A i \in 1 .. n :
            p[i][f[i - 1]]
              = Process(algorithm, f[i - 1],
                        BlockAt(blocks, (first + i) - 1))
      BY <2>1, Zenon DEF p
    <2>3. [i \in 0 .. n |-> IF i = 0 THEN s ELSE p[i][f[i - 1]]]
            = [i \in 0 .. n |->
                 IF i = 0 THEN s
                 ELSE Apply(
                      LAMBDA x :
                        Process(algorithm, x,
                                BlockAt(blocks, (first + i) - 1)),
                      f[i - 1])]
      BY <1>3, <1>5, <2>2, Zenon
    <2> QED
      BY <1>2, <2>3, Zenon DEF IsRun
  <1>7. IsIt(h)
    BY <1>6, Zenon
  <1>8. BlockRun(algorithm, blocks, s, first, n) = h[n]
    BY Zenon DEF Steps, Apply, BlockRun
  <1> HIDE DEF h
  <1>9. h[0] = s
    BY <1>7
  <1>10. \A i \in 1 .. n :
           h[i] = Process(algorithm, h[i - 1],
                          BlockAt(blocks, (first + i) - 1))
    <2> TAKE i \in 1 .. n
    <2>1. i \in 0 .. n /\ i # 0
      OBVIOUS
    <2> QED
      BY <1>3, <1>7, <2>1, Zenon
  <1>11. \A i \in 0 .. n : h[i] \in Elem[i]
    <2> DEFINE Good == {i \in 0 .. n : h[i] \in Elem[i]}
    <2>1. 0 \in Good
      BY <1>9
    <2>2. \A i \in 1 .. n : i - 1 \in Good => i \in Good
      BY <1>10, <1>12
    <2> HIDE DEF Good
    <2>3. \A i \in 0 .. n : i \in Good
      BY <2>1, <2>2, StepByStep
    <2> QED
      BY <2>3 DEF Good
  <1> QED
    BY <1>8, <1>9, <1>10, <1>11, Zenon DEF IsBlockRun

\* The blocks, one after another, as the standard has them.
StandardBlockRun(algorithm, all, s, first, n) ==
  Steps(LAMBDA x, k : Block(algorithm, x, BlockAt(all, k)),
        s, first, n)
StandardBlockKeeps(algorithm, all, Elem, first, n) ==
  \A i \in 1 .. n : \A x \in Elem[i - 1] :
    Block(algorithm, x, BlockAt(all, (first + i) - 1)) \in Elem[i]
IsStandardBlockRun(algorithm, all, f, Elem, s, first, n) ==
  /\ f[0] = s
  /\ \A i \in 0 .. n : f[i] \in Elem[i]
  /\ \A i \in 1 .. n :
       f[i] = Block(algorithm, f[i - 1], BlockAt(all, (first + i) - 1))
  /\ StandardBlockRun(algorithm, all, s, first, n) = f[n]

\* and those that the standard does.
LEMMA StandardBlockSteps ==
  ASSUME NEW first \in Nat, NEW n \in Nat, NEW algorithm, NEW all, NEW Elem,
         NEW s \in Elem[0],
         StandardBlockKeeps(algorithm, all, Elem, first, n)
  PROVE  \E f : IsStandardBlockRun(algorithm, all, f, Elem, s, first, n)
  <1> DEFINE p == [i \in 1 .. n |-> [x \in Elem[i - 1] |->
                     Block(algorithm, x, BlockAt(all, (first + i) - 1))]]
             IsIt(f) ==
               f = [i \in 0 .. n |->
                      IF i = 0 THEN s
                      ELSE Apply(
                           LAMBDA x :
                             Block(algorithm, x,
                                   BlockAt(all, (first + i) - 1)),
                           f[i - 1])]
             h == CHOOSE f : IsIt(f)
  <1>12. \A i \in 1 .. n : \A x \in Elem[i - 1] :
        Block(algorithm, x, BlockAt(all, (first + i) - 1)) \in Elem[i]
    BY Zenon DEF StandardBlockKeeps
  <1>1. \A i \in 1 .. n : \A x \in Elem[i - 1] : p[i][x] \in Elem[i]
    BY <1>12
  <1> HIDE DEF p
  <1>2. PICK f : IsRun(f, s, p, n) /\ \A i \in 0 .. n : f[i] \in Elem[i]
    BY <1>1, RunExists, Zenon
  <1>3. \A i, x : Apply(LAMBDA z : Block(algorithm, z, BlockAt(all, i)), x)
                  = Block(algorithm, x, BlockAt(all, i))
    BY Zenon DEF Apply
  <1>4. \A i \in 1 .. n : i - 1 \in 0 .. n
    OBVIOUS
  <1>5. \A i \in 0 .. n : i # 0 => i \in 1 .. n
    OBVIOUS
  <1>6. IsIt(f)
    <2>1. \A i \in 1 .. n : f[i - 1] \in Elem[i - 1]
      BY <1>2, <1>4
    <2>2. \A i \in 1 .. n :
            p[i][f[i - 1]]
              = Block(algorithm, f[i - 1], BlockAt(all, (first + i) - 1))
      BY <2>1, Zenon DEF p
    <2>3. [i \in 0 .. n |-> IF i = 0 THEN s ELSE p[i][f[i - 1]]]
            = [i \in 0 .. n |->
                 IF i = 0 THEN s
                 ELSE Apply(
                      LAMBDA x :
                        Block(algorithm, x, BlockAt(all, (first + i) - 1)),
                      f[i - 1])]
      BY <1>3, <1>5, <2>2, Zenon
    <2> QED
      BY <1>2, <2>3, Zenon DEF IsRun
  <1>7. IsIt(h)
    BY <1>6, Zenon
  <1>8. StandardBlockRun(algorithm, all, s, first, n) = h[n]
    BY Zenon DEF Steps, Apply, StandardBlockRun
  <1> HIDE DEF h
  <1>9. h[0] = s
    BY <1>7
  <1>10. \A i \in 1 .. n :
           h[i] = Block(algorithm, h[i - 1], BlockAt(all, (first + i) - 1))
    <2> TAKE i \in 1 .. n
    <2>1. i \in 0 .. n /\ i # 0
      OBVIOUS
    <2> QED
      BY <1>3, <1>7, <2>1, Zenon
  <1>11. \A i \in 0 .. n : h[i] \in Elem[i]
    <2> DEFINE Good == {i \in 0 .. n : h[i] \in Elem[i]}
    <2>1. 0 \in Good
      BY <1>9
    <2>2. \A i \in 1 .. n : i - 1 \in Good => i \in Good
      BY <1>10, <1>12
    <2> HIDE DEF Good
    <2>3. \A i \in 0 .. n : i \in Good
      BY <2>1, <2>2, StepByStep
    <2> QED
      BY <2>3 DEF Good
  <1> QED
    BY <1>8, <1>9, <1>10, <1>11, Zenon DEF IsStandardBlockRun

-----------------------------------------------------------------------------
(* Words: what keeps to them.                                              *)

\* A half by its limits,
LEMMA HalfIs ==
  ASSUME NEW x \in Half
  PROVE  x \in Nat /\ x < Top
  BY Zenon DEF Half

\* and the other way round.
LEMMA IsHalf ==
  ASSUME NEW x \in Nat, x < Top
  PROVE  x \in Half
  BY Zenon DEF Half

WordClosed(a, b) ==
  /\ XorW(a, b) \in Word /\ AndW(a, b) \in Word /\ OrW(a, b) \in Word
  /\ NotW(a) \in Word /\ Add(a, b) \in Word

\* Sums are cut off at 32 bits.
LEMMA AddIsWord ==
  ASSUME NEW a \in Word, NEW b \in Word
  PROVE  Add(a, b) \in Word /\ Add(a, b) = Add(b, a)
  <1> DEFINE p == a[1]  q == a[2]  u == b[1]  v == b[2]
             low == q + v
             c == low \div Top
             high == (p + u) + c
  <1>1. p \in Half /\ q \in Half /\ u \in Half /\ v \in Half
    BY WordParts, Zenon
  <1>2. /\ Add(a, b) = <<((p + u) + ((q + v) \div Top)) % Top, (q + v) % Top>>
        /\ Add(b, a) = <<((u + p) + ((v + q) \div Top)) % Top, (v + q) % Top>>
    BY SMT DEF Add, Top
  <1> HIDE DEF p, q, u, v
  <1>3. p \in Nat /\ q \in Nat /\ u \in Nat /\ v \in Nat
    BY <1>1, HalfIs, Zenon
  <1>4. low \in Nat
    BY <1>3, SMT
  <1>5. p + u = u + p /\ q + v = v + q
    BY <1>3, SMT
  <1>6. Add(a, b) = Add(b, a)
    BY <1>2, <1>5, Zenon
  <1>7. Add(a, b) = <<high % Top, low % Top>>
    BY <1>2, Zenon
  <1> HIDE DEF low
  <1>8. c \in Nat
    BY <1>4, SMT DEF Top
  <1> HIDE DEF c
  <1>9. high \in Nat
    BY <1>3, <1>8, SMT
  <1> HIDE DEF high
  <1> DEFINE x == high % Top  y == low % Top
  <1>10. x \in Nat /\ x < Top /\ y \in Nat /\ y < Top
    BY <1>4, <1>9, SMT DEF Top
  <1>11. Add(a, b) = <<x, y>>
    BY <1>7, Zenon
  <1> HIDE DEF x, y
  <1>12. x \in Half /\ y \in Half
    BY <1>10, IsHalf, Zenon
  <1> QED
    BY <1>6, <1>11, <1>12, PartsMakeWord, Zenon

\* No operator leaves the words,
LEMMA WordsClosed ==
  ASSUME NEW a \in Word, NEW b \in Word
  PROVE  WordClosed(a, b)
  BY WordOps, AddIsWord, Zenon DEF WordClosed

\* Powers of two and what is left of sixteen.
LEMMA Powers ==
  ASSUME NEW k \in Nat, k <= 15
  PROVE  /\ Power[k + 1] \in Nat \ {0} /\ Power[17 - k] \in Nat \ {0}
         /\ Power[k + 1] * Power[17 - k] = Top
  <1>1. \/ k = 0 \/ k = 1 \/ k = 2 \/ k = 3 \/ k = 4 \/ k = 5 \/ k = 6 \/ k = 7
        \/ k = 8 \/ k = 9 \/ k = 10 \/ k = 11 \/ k = 12 \/ k = 13 \/ k = 14
        \/ k = 15
    BY SMT
  <1> QED
    BY <1>1, SMT DEF Power, Top

\* Arithmetic: the lower bits of one half, moved up, and the upper ones of the
\* other make one half.
LEMMA HalvesShifted ==
  ASSUME NEW up \in Nat \ {0}, NEW down \in Nat \ {0}, up * down = Top,
         NEW x \in Half, NEW y \in Half
  PROVE  ((x % down) * up) + (y \div down) \in Half
  <1> DEFINE l == x % down  h == y \div down  r == y % down
  <1>1. x \in Nat /\ y \in Nat /\ y < Top
    BY HalfIs, Zenon
  <1>2. l \in Nat /\ l <= down - 1
    BY <1>1, SMT
  <1>3. h \in Nat /\ r \in Nat /\ y = (h * down) + r
    BY <1>1, SMT
  <1> HIDE DEF l, h, r
  <1>4. h < up
    <2>1. h * down < up * down
      BY <1>1, <1>3, SMT
    <2> QED
      BY <1>3, <2>1, SMT
  <1>5. l * up <= (down - 1) * up
    BY <1>2, SMT
  <1>6. (down - 1) * up = Top - up
    BY SMT
  <1>7. l * up \in Nat
    BY <1>2, SMT
  <1> DEFINE m == l * up
  <1>8. m \in Nat /\ m <= Top - up
    BY <1>5, <1>6, <1>7, SMT
  <1> HIDE DEF m
  <1>10. m + h \in Nat /\ m + h < Top
    BY <1>3, <1>4, <1>8, SMT
  <1>9. m + h \in Half
    BY <1>10, IsHalf, Zenon
  <1> QED
    BY <1>9, Zenon DEF m, l, h

\* and neither does a rotation.
LEMMA SIsWord ==
  ASSUME NEW x \in Word, NEW n \in Nat
  PROVE  S(x, n) \in Word
  <1> DEFINE k == n % 16
             h == IF n < 16 THEN x ELSE <<x[2], x[1]>>
             up == Power[k + 1]
             down == Power[17 - k]
             a == h[1]  b == h[2]
  <1>1. k \in Nat /\ k <= 15
    BY SMT
  <1>2. up \in Nat \ {0} /\ down \in Nat \ {0} /\ up * down = Top
    <2> HIDE DEF k
    <2> QED
      BY <1>1, Powers, Zenon
  <1>3. h \in Word
    BY WordParts, PartsMakeWord, Zenon
  <1>4. a \in Half /\ b \in Half
    <2> HIDE DEF h
    <2> QED
      BY <1>3, WordParts, Zenon
  <1>5. S(x, n) = <<((a % down) * up) + (b \div down),
                    ((b % down) * up) + (a \div down)>>
    BY Zenon DEF S
  <1> HIDE DEF k, h, up, down, a, b
  <1>6. /\ ((a % down) * up) + (b \div down) \in Half
        /\ ((b % down) * up) + (a \div down) \in Half
    BY <1>2, <1>4, HalvesShifted, Zenon
  <1> QED
    BY <1>5, <1>6, PartsMakeWord, Zenon

\* The constants.
LEMMA Sha1KIsWord ==
  ASSUME NEW t \in 0 .. 79
  PROVE  Sha1K(t) \in Word
  <1> DEFINE k == t \div 20
  <1>1. k = 0 \/ k = 1 \/ k = 2 \/ k = 3
    BY SMT
  <1>2. /\ k = 0 => Sha1K(t) = <<23170, 31129>>
        /\ k = 1 => Sha1K(t) = <<28377, 60321>>
        /\ k = 2 => Sha1K(t) = <<36635, 48348>>
        /\ k = 3 => Sha1K(t) = <<51810, 49622>>
    BY SMT DEF Sha1K
  <1> HIDE DEF k
  <1>3. PICK a, b : Sha1K(t) = <<a, b>> /\ a \in Nat /\ a < Top
                    /\ b \in Nat /\ b < Top
    BY <1>1, <1>2, SMT DEF Top
  <1> QED
    BY <1>3, IsHalf, PartsMakeWord, SMT

\* The constants of MD5.
LEMMA Md5Constants ==
  ASSUME NEW t \in 0 .. 63
  PROVE  Md5T[t + 1] \in Word /\ Md5S(t) \in Nat
  <1>1. \A i \in 1 .. 64 : /\ Md5T[i] = <<Md5T[i][1], Md5T[i][2]>>
                           /\ Md5T[i][1] \in Nat /\ Md5T[i][1] < Top
                           /\ Md5T[i][2] \in Nat /\ Md5T[i][2] < Top
    BY SMT DEF Md5T, Top
  <1>2. Md5S(t) \in Nat
    BY SMT DEF Md5S
  <1>3. t + 1 \in 1 .. 64
    OBVIOUS
  <1> DEFINE w == Md5T[t + 1]  a == w[1]  b == w[2]
  <1>4. w = <<a, b>> /\ a \in Nat /\ a < Top /\ b \in Nat /\ b < Top
    BY <1>1, <1>3, Zenon
  <1> HIDE DEF a, b
  <1>5. w \in Word
    BY <1>4, IsHalf, PartsMakeWord, ZenonT(30)
  <1> QED
    BY <1>2, <1>5, Zenon

\* Bytes, and the words of four of them.
Byte == 0 .. 255
\* Four bytes make a word.
LEMMA FromBytes ==
  ASSUME NEW data, NEW i \in Nat, data[i + 1] \in Byte, data[i + 2] \in Byte,
         data[i + 3] \in Byte, data[i + 4] \in Byte
  PROVE  GetBE(data, i) \in Word /\ GetLE(data, i) \in Word
  <1> DEFINE p == data[i + 1]  q == data[i + 2]  r == data[i + 3]
             s == data[i + 4]
  <1>1. /\ GetBE(data, i) = <<(p * 256) + q, (r * 256) + s>>
        /\ GetLE(data, i) = <<(s * 256) + r, (q * 256) + p>>
    BY SMT DEF GetBE, GetLE
  <1>2. p \in Byte /\ q \in Byte /\ r \in Byte /\ s \in Byte
    OBVIOUS
  <1> HIDE DEF p, q, r, s
  <1>3. \A x, y \in Byte : (x * 256) + y \in Half
    <2> TAKE x, y \in Byte
    <2> DEFINE z == (x * 256) + y
    <2>1. z \in Nat /\ z < Top
      BY SMT DEF Byte, Top
    <2> HIDE DEF z
    <2>2. z \in Half
      BY <2>1, IsHalf, SMT
    <2> QED
      BY <2>2, Zenon DEF z
  <1>4. /\ (p * 256) + q \in Half /\ (r * 256) + s \in Half
        /\ (s * 256) + r \in Half /\ (q * 256) + p \in Half
    BY <1>2, <1>3, ZenonT(30)
  <1> QED
    BY <1>1, <1>4, PartsMakeWord, SMT

\* F as the standards have it.
Sha1FOf(t, x, y, z) ==
  CASE t < 20 -> OrW(AndW(x, y), AndW(NotW(x), z))
    [] t \in 40 .. 59 -> XorW(AndW(x, y),
                              XorW(AndW(x, z), AndW(y, z)))
    [] OTHER -> XorW(x, XorW(y, z))

\* F of sha1_process is the standard's, and a word.
LEMMA Sha1FIs ==
  ASSUME NEW t \in 0 .. 79, NEW x \in Word, NEW y \in Word, NEW z \in Word
  PROVE  /\ Sha1F(t, x, y, z) \in Word
         /\ Sha1F(t, x, y, z) = Sha1FOf(t, x, y, z)
  <1>1. /\ XorW(z, AndW(x, XorW(y, z))) = OrW(AndW(x, y), AndW(NotW(x), z))
        /\ OrW(AndW(x, y), AndW(z, OrW(x, y)))
             = XorW(AndW(x, y), XorW(AndW(x, z), AndW(y, z)))
    BY WordIdentities, ZenonT(30)
  <1>2. WordClosed(y, z) /\ WordClosed(x, y)
    BY WordsClosed, Zenon
  <1>3. XorW(y, z) \in Word /\ AndW(x, y) \in Word /\ OrW(x, y) \in Word
    BY <1>2, Zenon DEF WordClosed
  <1>4. WordClosed(x, XorW(y, z)) /\ WordClosed(z, OrW(x, y))
    BY <1>3, WordsClosed, Zenon
  <1>5. /\ AndW(x, XorW(y, z)) \in Word /\ XorW(x, XorW(y, z)) \in Word
        /\ AndW(z, OrW(x, y)) \in Word
    BY <1>4, Zenon DEF WordClosed
  <1>6. /\ WordClosed(z, AndW(x, XorW(y, z)))
        /\ WordClosed(AndW(x, y), AndW(z, OrW(x, y)))
    BY <1>3, <1>5, WordsClosed, Zenon
  <1>7. /\ XorW(z, AndW(x, XorW(y, z))) \in Word
        /\ OrW(AndW(x, y), AndW(z, OrW(x, y))) \in Word
    BY <1>6, Zenon DEF WordClosed
  <1>8. t < 20 => t \notin 40 .. 59
    OBVIOUS
  <1>9. CASE t < 20
    BY <1>1, <1>7, <1>8, <1>9, Zenon DEF Sha1F, Sha1FOf
  <1>10. CASE t \in 40 .. 59
    BY <1>1, <1>7, <1>8, <1>10, Zenon DEF Sha1F, Sha1FOf
  <1>11. CASE ~(t < 20) /\ t \notin 40 .. 59
    BY <1>5, <1>11, Zenon DEF Sha1F, Sha1FOf
  <1> QED
    BY <1>9, <1>10, <1>11, Zenon

Md5FOf(t, x, y, z) ==
  CASE t < 16 -> OrW(AndW(x, y), AndW(NotW(x), z))
    [] t \in 16 .. 31 -> OrW(AndW(x, z), AndW(y, NotW(z)))
    [] t \in 32 .. 47 -> XorW(x, XorW(y, z))
    [] OTHER -> XorW(y, OrW(x, NotW(z)))

\* So is that of md5_process.
LEMMA Md5FIs ==
  ASSUME NEW t \in 0 .. 63, NEW x \in Word, NEW y \in Word, NEW z \in Word
  PROVE  /\ Md5F(t, x, y, z) \in Word
         /\ Md5F(t, x, y, z) = Md5FOf(t, x, y, z)
  <1>1. /\ XorW(z, AndW(x, XorW(y, z))) = OrW(AndW(x, y), AndW(NotW(x), z))
        /\ XorW(y, AndW(z, XorW(x, y))) = OrW(AndW(x, z), AndW(y, NotW(z)))
    BY WordIdentities, ZenonT(30)
  <1>2. WordClosed(y, z) /\ WordClosed(x, y) /\ WordClosed(z, x)
    BY WordsClosed, Zenon
  <1>3. XorW(y, z) \in Word /\ XorW(x, y) \in Word /\ NotW(z) \in Word
    BY <1>2, Zenon DEF WordClosed
  <1>4. WordClosed(x, XorW(y, z)) /\ WordClosed(z, XorW(x, y))
        /\ WordClosed(x, NotW(z))
    BY <1>3, WordsClosed, Zenon
  <1>5. /\ AndW(x, XorW(y, z)) \in Word /\ XorW(x, XorW(y, z)) \in Word
        /\ AndW(z, XorW(x, y)) \in Word /\ OrW(x, NotW(z)) \in Word
    BY <1>4, Zenon DEF WordClosed
  <1>6. /\ WordClosed(z, AndW(x, XorW(y, z)))
        /\ WordClosed(y, AndW(z, XorW(x, y)))
        /\ WordClosed(y, OrW(x, NotW(z)))
    BY <1>5, WordsClosed, Zenon
  <1>7. /\ XorW(z, AndW(x, XorW(y, z))) \in Word
        /\ XorW(y, AndW(z, XorW(x, y))) \in Word
        /\ XorW(y, OrW(x, NotW(z))) \in Word
    BY <1>6, Zenon DEF WordClosed
  <1>8. /\ t < 16 => t \notin 16 .. 31 /\ t \notin 32 .. 47
        /\ t \in 16 .. 31 => t \notin 32 .. 47
    OBVIOUS
  <1>9. CASE t < 16
    BY <1>1, <1>7, <1>8, <1>9, Zenon DEF Md5F, Md5FOf
  <1>10. CASE t \in 16 .. 31
    BY <1>1, <1>7, <1>8, <1>10, Zenon DEF Md5F, Md5FOf
  <1>11. CASE t \in 32 .. 47
    BY <1>5, <1>8, <1>11, Zenon DEF Md5F, Md5FOf
  <1>12. CASE ~(t < 16) /\ t \notin 16 .. 31 /\ t \notin 32 .. 47
    BY <1>7, <1>12, Zenon DEF Md5F, Md5FOf
  <1> QED
    BY <1>9, <1>10, <1>11, <1>12, Zenon

-----------------------------------------------------------------------------
(* A block of SHA-1: the code uses sixteen words over and over and leaves  *)
(* its registers where they are; the standard has 80 words, and moves its  *)
(* registers.                                                              *)

\* An element of a sequence.
LEMMA ElementOf ==
  ASSUME NEW Elem, NEW s \in Seq(Elem), NEW i \in 1 .. Len(s)
  PROVE  s[i] \in Elem
  OBVIOUS

\* The schedule of the standard, as far as n words.
IsSchedule(W, n) ==
  /\ W \in Seq(Word) /\ Len(W) = n
  /\ \A i \in 17 .. n :
       W[i] = S(XorW(XorW(W[i - 3], W[i - 8]), XorW(W[i - 14], W[i - 16])), 1)

\* Which of the five registers is which at the step t.
Role5(i, t) == (i + (4 * t)) % 5

\* The state of sha1_process between two steps.
Sha1States == [W : [0 .. 15 -> Word], r : [0 .. 4 -> Word]]

\* The sixteen words before the step t.
WordsHeld(t, W, V) ==
  \A j \in 0 .. 79 : (j < t \/ j < 16) /\ j >= t - 16 => V[j % 16] = W[j + 1]

\* The code's state and the standard's words before the step t.
Sha1Same(t, W, s, w) ==
  /\ s \in Sha1States /\ w \in [1 .. 5 -> Word]
  /\ WordsHeld(t, W, s.W)
  /\ \A i \in 0 .. 4 : w[i + 1] = s.r[Role5(i, t)]

\* Arithmetic: registers move on by one.
LEMMA Roles5 ==
  ASSUME NEW t \in Nat
  PROVE  /\ \A i \in 0 .. 4 : Role5(i, t) \in 0 .. 4
         /\ \A i, j \in 0 .. 4 : Role5(i, t) = Role5(j, t) => i = j
         /\ Role5(0, t + 1) = Role5(4, t) /\ Role5(1, t + 1) = Role5(0, t)
         /\ Role5(2, t + 1) = Role5(1, t) /\ Role5(3, t + 1) = Role5(2, t)
         /\ Role5(4, t + 1) = Role5(3, t)
  BY SMT DEF Role5

\* What Sha1Words makes of the sixteen words.
LEMMA Sha1WordsKept ==
  ASSUME NEW t \in 0 .. 79, NEW V \in [0 .. 15 -> Word]
  PROVE  /\ Sha1Words(V, t) \in [0 .. 15 -> Word]
         /\ R(V, t) \in Word
  <1>1. (t - 3) % 16 \in 0 .. 15 /\ (t - 8) % 16 \in 0 .. 15
        /\ (t - 14) % 16 \in 0 .. 15 /\ t % 16 \in 0 .. 15
    BY SMT
  <1>2. V[(t - 3) % 16] \in Word /\ V[(t - 8) % 16] \in Word
        /\ V[(t - 14) % 16] \in Word /\ V[t % 16] \in Word
    BY <1>1, Zenon
  <1> DEFINE a == V[(t - 3) % 16]  b == V[(t - 8) % 16]
             c == V[(t - 14) % 16]  d == V[t % 16]
             x == XorW(a, b)  y == XorW(c, d)
  <1>3. R(V, t) = S(XorW(x, y), 1)
    BY Zenon DEF R
  <1> HIDE DEF a, b, c, d
  <1>4. a \in Word /\ b \in Word /\ c \in Word /\ d \in Word
    BY <1>2, Zenon DEF a, b, c, d
  <1>5. x \in Word /\ y \in Word
    BY <1>4, WordsClosed, Zenon DEF WordClosed
  <1> HIDE DEF x, y
  <1>6. XorW(x, y) \in Word
    BY <1>5, WordsClosed, Zenon DEF WordClosed
  <1>7. R(V, t) \in Word
    <2>1. 1 \in Nat
      OBVIOUS
    <2> QED
      BY <1>3, <1>6, <2>1, SIsWord, Zenon
  <1>8. Sha1Words(V, t) \in [0 .. 15 -> Word]
    BY <1>1, <1>7, Zenon DEF Sha1Words
  <1> QED
    BY <1>7, <1>8, Zenon

\* And what they hold then: the words up to the one of this step.
LEMMA Sha1WordsSame ==
  ASSUME NEW t \in 0 .. 79, NEW W, IsSchedule(W, 80),
         NEW V \in [0 .. 15 -> Word],
         WordsHeld(t, W, V)
  PROVE  /\ Sha1Words(V, t)[t % 16] = W[t + 1]
         /\ WordsHeld(t + 1, W, Sha1Words(V, t))
  <1> DEFINE U == Sha1Words(V, t)
  <1>3. \A j \in 0 .. 79 : (j < t \/ j < 16) /\ j >= t - 16 =>
          V[j % 16] = W[j + 1]
    BY Zenon DEF WordsHeld
  <1>1. CASE t < 16
    <2>1. U = V
      BY <1>1, Zenon DEF Sha1Words
    <2> HIDE DEF U
    <2>2. \A j \in 0 .. 79 : (j < t + 1 \/ j < 16) /\ j >= t - 15 =>
            (j < t \/ j < 16) /\ j >= t - 16
      BY <1>1
    <2>3. \A j \in 0 .. 79 : (j < t + 1 \/ j < 16) /\ j >= t - 15 =>
            U[j % 16] = W[j + 1]
      BY <1>3, <2>1, <2>2, Zenon
    <2>4. (t < t + 1 \/ t < 16) /\ t >= t - 15
      OBVIOUS
    <2>5. t - 15 = (t + 1) - 16
      OBVIOUS
    <2> QED
      BY <2>3, <2>4, <2>5, Zenon DEF U, WordsHeld
  <1>2. CASE ~(t < 16)
    <2>1. U = [V EXCEPT ![t % 16] = R(V, t)]
      BY <1>2, Zenon DEF Sha1Words
    <2>2. t % 16 \in 0 .. 15
      BY SMT
    <2>3. U[t % 16] = R(V, t)
      BY <2>1, <2>2, Zenon
    <2>4. R(V, t) = W[t + 1]
      <3>1. /\ t - 3 \in 0 .. 79 /\ t - 3 < t /\ t - 3 >= t - 16
            /\ t - 8 \in 0 .. 79 /\ t - 8 < t /\ t - 8 >= t - 16
            /\ t - 14 \in 0 .. 79 /\ t - 14 < t /\ t - 14 >= t - 16
            /\ t - 16 \in 0 .. 79 /\ t - 16 < t /\ t - 16 >= t - 16
        BY <1>2
      <3>2. /\ V[(t - 3) % 16] = W[(t - 3) + 1]
            /\ V[(t - 8) % 16] = W[(t - 8) + 1]
            /\ V[(t - 14) % 16] = W[(t - 14) + 1]
            /\ V[(t - 16) % 16] = W[(t - 16) + 1]
        BY <1>3, <3>1, Zenon
      <3>3. (t - 16) % 16 = t % 16
        BY SMT
      <3>4. /\ t + 1 \in 17 .. 80
            /\ (t - 3) + 1 = (t + 1) - 3 /\ (t - 8) + 1 = (t + 1) - 8
            /\ (t - 14) + 1 = (t + 1) - 14 /\ (t - 16) + 1 = (t + 1) - 16
        BY <1>2
      <3>5. W[t + 1] = S(XorW(XorW(W[(t + 1) - 3], W[(t + 1) - 8]),
                              XorW(W[(t + 1) - 14], W[(t + 1) - 16])), 1)
        BY <3>4, Zenon DEF IsSchedule
      <3> QED
        BY <3>2, <3>3, <3>4, <3>5, Zenon DEF R
    <2> HIDE DEF U
    <2>5. ASSUME NEW j \in 0 .. 79, (j < t + 1 \/ j < 16) /\ j >= t - 15
          PROVE  U[j % 16] = W[j + 1]
      <3>1. CASE j = t
        BY <2>3, <2>4, <3>1
      <3>2. CASE j # t
        <4>1. j % 16 # t % 16 /\ j % 16 \in 0 .. 15 /\ j < t /\ j >= t - 16
          BY <1>2, <2>5, <3>2, SMT
        <4>2. V[j % 16] = W[j + 1]
          BY <1>3, <4>1, Zenon
        <4>3. U[j % 16] = V[j % 16]
          BY <2>1, <4>1, Zenon
        <4> QED
          BY <4>2, <4>3, Zenon
      <3> QED
        BY <3>1, <3>2
    <2>6. t - 15 = (t + 1) - 16
      OBVIOUS
    <2> QED
      BY <2>3, <2>4, <2>5, <2>6, Zenon DEF U, WordsHeld
  <1> QED
    BY <1>1, <1>2

\* What P of sha1_process does to its registers.
LEMMA Sha1Registers ==
  ASSUME NEW t \in 0 .. 79, NEW r \in [0 .. 4 -> Word], NEW x \in Word
  PROVE  /\ Sha1P(r, t, x) \in [0 .. 4 -> Word]
         /\ Sha1P(r, t, x)[Role5(4, t)]
              = Add(Add(S(r[Role5(0, t)], 5),
                        Sha1F(t, r[Role5(1, t)], r[Role5(2, t)],
                              r[Role5(3, t)])),
                    Add(r[Role5(4, t)], Add(Sha1K(t), x)))
         /\ Sha1P(r, t, x)[Role5(1, t)] = S(r[Role5(1, t)], 30)
         /\ Sha1P(r, t, x)[Role5(0, t)] = r[Role5(0, t)]
         /\ Sha1P(r, t, x)[Role5(2, t)] = r[Role5(2, t)]
         /\ Sha1P(r, t, x)[Role5(3, t)] = r[Role5(3, t)]
  <1> DEFINE q0 == Role5(0, t)  q1 == Role5(1, t)  q2 == Role5(2, t)
             q3 == Role5(3, t)  q4 == Role5(4, t)
             f == Sha1F(t, r[q1], r[q2], r[q3])
             m == Add(r[q4], Add(Sha1K(t), x))
             n == Add(S(r[q0], 5), f)
             u == Add(m, n)
             v == S(r[q1], 30)
  <1>1. /\ q0 \in 0 .. 4 /\ q1 \in 0 .. 4 /\ q2 \in 0 .. 4 /\ q3 \in 0 .. 4
        /\ q4 \in 0 .. 4
        /\ q4 # q0 /\ q4 # q1 /\ q4 # q2 /\ q4 # q3
        /\ q1 # q0 /\ q1 # q2 /\ q1 # q3
    <2>1. t \in Nat
      OBVIOUS
    <2>2. /\ \A i \in 0 .. 4 : Role5(i, t) \in 0 .. 4
          /\ \A i, j \in 0 .. 4 : Role5(i, t) = Role5(j, t) => i = j
      BY <2>1, Roles5, Zenon
    <2> QED
      BY <2>2
  <1>2. Sha1P(r, t, x) = [r EXCEPT ![q4] = u, ![q1] = S(@, 30)]
    BY Zenon DEF Sha1P, Role5
  <1> HIDE DEF q0, q1, q2, q3, q4
  <1>3. /\ r[q0] \in Word /\ r[q1] \in Word /\ r[q2] \in Word
        /\ r[q3] \in Word /\ r[q4] \in Word
    BY <1>1
  <1>4. f \in Word
    BY <1>3, Sha1FIs, Zenon
  <1>5. Sha1K(t) \in Word
    BY Sha1KIsWord, Zenon
  <1>6. 5 \in Nat /\ 30 \in Nat
    OBVIOUS
  <1>7. S(r[q0], 5) \in Word /\ v \in Word
    BY <1>3, <1>6, SIsWord, Zenon
  <1> HIDE DEF f
  <1>8. Add(Sha1K(t), x) \in Word /\ n \in Word
    BY <1>4, <1>5, <1>7, AddIsWord, Zenon
  <1>9. m \in Word
    BY <1>3, <1>8, AddIsWord, Zenon
  <1> HIDE DEF m, n
  <1>10. u \in Word /\ u = Add(n, m)
    BY <1>8, <1>9, AddIsWord, Zenon
  <1> DEFINE p == Sha1P(r, t, x)
             k == [r EXCEPT ![q4] = u]
  <1>11. /\ k \in [0 .. 4 -> Word] /\ k[q4] = u
         /\ \A i \in 0 .. 4 : i # q4 => k[i] = r[i]
    <2> HIDE DEF u
    <2> QED
      BY <1>1, <1>10, Zenon
  <1>12. k[q1] = r[q1]
    BY <1>1, <1>11, Zenon
  <1>13. p = [k EXCEPT ![q1] = v]
    BY <1>2, <1>12, Zenon
  <1> HIDE DEF u, v, p, k
  <1>14. /\ p \in [0 .. 4 -> Word] /\ p[q1] = v
         /\ \A i \in 0 .. 4 : i # q1 => p[i] = k[i]
    BY <1>1, <1>7, <1>11, <1>13, Zenon
  <1>15. p[q4] = u /\ p[q0] = r[q0] /\ p[q2] = r[q2] /\ p[q3] = r[q3]
    BY <1>1, <1>11, <1>14, Zenon
  <1> QED
    BY <1>10, <1>14, <1>15, Zenon DEF p, v, q0, q1, q2, q3, q4, f, m, n

\* One step of the code is one of the standard.
LEMMA Sha1StepSame ==
  ASSUME NEW t \in 0 .. 79, NEW W, IsSchedule(W, 80), NEW s, NEW w,
         Sha1Same(t, W, s, w)
  PROVE  Sha1Same(t + 1, W, Sha1Next(s, t), Sha1Step(W, w, t))
  <1> DEFINE r == s.r
             V == Sha1Words(s.W, t)
             x == W[t + 1]
             p == Sha1P(r, t, x)
             a == r[Role5(0, t)]  b == r[Role5(1, t)]  c == r[Role5(2, t)]
             d == r[Role5(3, t)]  e == r[Role5(4, t)]
             f == Sha1F(t, b, c, d)
             g == Add(Add(S(a, 5), f), Add(e, Add(Sha1K(t), x)))
  <1>1. /\ s \in Sha1States /\ s.W \in [0 .. 15 -> Word]
        /\ r \in [0 .. 4 -> Word]
    BY DEF Sha1Same, Sha1States
  <1>2. /\ V \in [0 .. 15 -> Word]
    BY <1>1, Sha1WordsKept, Zenon
  <1>3. V[t % 16] = x /\ WordsHeld(t + 1, W, V)
    <2>1. WordsHeld(t, W, s.W)
      BY Zenon DEF Sha1Same
    <2> QED
      BY <1>1, <2>1, Sha1WordsSame, Zenon
  <1>4. x \in Word
    <2>1. W \in Seq(Word) /\ Len(W) = 80
      BY Zenon DEF IsSchedule
    <2>2. t + 1 \in 1 .. 80
      OBVIOUS
    <2> QED
      BY <2>1, <2>2, ElementOf, ZenonT(30)
  <1>5. Sha1Next(s, t) = [W |-> V, r |-> p]
    BY <1>3, Zenon DEF Sha1Next, Sha1Used
  <1>6. /\ p \in [0 .. 4 -> Word] /\ p[Role5(4, t)] = g
        /\ p[Role5(1, t)] = S(b, 30) /\ p[Role5(0, t)] = a
        /\ p[Role5(2, t)] = c /\ p[Role5(3, t)] = d
    BY <1>1, <1>4, Sha1Registers, Zenon
  <1>7. /\ w[1] = a /\ w[2] = b /\ w[3] = c /\ w[4] = d /\ w[5] = e
    <2>1. \A i \in 0 .. 4 : w[i + 1] = r[Role5(i, t)]
      BY Zenon DEF Sha1Same
    <2>2. /\ w[0 + 1] = a /\ w[1 + 1] = b /\ w[2 + 1] = c /\ w[3 + 1] = d
          /\ w[4 + 1] = e
      BY <2>1
    <2> QED
      BY <2>2
  <1>8. Sha1Step(W, w, t) = <<g, a, S(b, 30), c, d>>
    <2>1. t \in 0 .. 79 /\ b \in Word /\ c \in Word /\ d \in Word
      BY <1>1, Roles5
    <2>2. f = Sha1FOf(t, b, c, d)
      BY <2>1, Sha1FIs, Zenon
    <2> HIDE DEF a, b, c, d, e, f
    <2> QED
      BY <1>7, <2>2, Zenon DEF Sha1Step, Sha1FOf
  <1> DEFINE y == <<g, a, S(b, 30), c, d>>
  <1>9. \A i \in 0 .. 4 : y[i + 1] = p[Role5(i, t + 1)]
    <2>1. t \in Nat
      OBVIOUS
    <2>2. /\ Role5(0, t + 1) = Role5(4, t) /\ Role5(1, t + 1) = Role5(0, t)
          /\ Role5(2, t + 1) = Role5(1, t) /\ Role5(3, t + 1) = Role5(2, t)
          /\ Role5(4, t + 1) = Role5(3, t)
      BY <2>1, Roles5, Zenon
    <2> DEFINE h == S(b, 30)
    <2>3. /\ p[Role5(0, t + 1)] = g /\ p[Role5(1, t + 1)] = a
          /\ p[Role5(2, t + 1)] = h /\ p[Role5(3, t + 1)] = c
          /\ p[Role5(4, t + 1)] = d
      BY <1>6, <2>2, Zenon
    <2> HIDE DEF g, a, h, c, d, p
    <2>4. y[1] = g /\ y[2] = a /\ y[3] = h /\ y[4] = c /\ y[5] = d
      BY Zenon DEF h
    <2>5. \A i \in 0 .. 4 : i = 0 \/ i = 1 \/ i = 2 \/ i = 3 \/ i = 4
      OBVIOUS
    <2> HIDE DEF y
    <2> QED
      BY <2>3, <2>4, <2>5
  <1>10. y \in [1 .. 5 -> Word]
    <2> DEFINE h == S(b, 30)
    <2>1. g \in Word /\ a \in Word /\ h \in Word /\ c \in Word /\ d \in Word
      <3>1. t \in Nat /\ \A i \in 0 .. 4 : Role5(i, t) \in 0 .. 4
        BY Roles5
      <3>2. /\ Role5(0, t) \in 0 .. 4 /\ Role5(1, t) \in 0 .. 4
            /\ Role5(2, t) \in 0 .. 4 /\ Role5(3, t) \in 0 .. 4
            /\ Role5(4, t) \in 0 .. 4
        BY <3>1
      <3> QED
        BY <1>6, <3>2, Zenon
    <2> HIDE DEF g, a, h, c, d
    <2>2. <<g, a, h, c, d>> \in [1 .. 5 -> Word]
      BY <2>1
    <2> QED
      BY <2>2, Zenon DEF h
  <1> DEFINE z == [W |-> V, r |-> p]
  <1> HIDE DEF y, p, V, r, a, b, c, d, e, f, g, x
  <1>11. z \in Sha1States /\ z.W = V /\ z.r = p
    BY <1>2, <1>6 DEF Sha1States
  <1> HIDE DEF z
  <1>13. Sha1Same(t + 1, W, z, y)
    BY <1>3, <1>9, <1>10, <1>11, Zenon DEF Sha1Same
  <1> QED
    BY <1>5, <1>8, <1>13, Zenon DEF y, z

\* The states of the code and the words of the standard keep their types.
LEMMA Sha1NextKept ==
  ASSUME NEW t \in 0 .. 79, NEW s \in Sha1States
  PROVE  Sha1Next(s, t) \in Sha1States
  <1> DEFINE V == Sha1Words(s.W, t)
             x == V[t % 16]
             p == Sha1P(s.r, t, x)
  <1>1. s.W \in [0 .. 15 -> Word] /\ s.r \in [0 .. 4 -> Word]
    BY DEF Sha1States
  <1>2. V \in [0 .. 15 -> Word]
    BY <1>1, Sha1WordsKept, Zenon
  <1>3. x \in Word
    <2>1. t % 16 \in 0 .. 15
      BY SMT
    <2> HIDE DEF V
    <2> QED
      BY <1>2, <2>1, Zenon
  <1>4. Sha1Next(s, t) = [W |-> V, r |-> p]
    BY Zenon DEF Sha1Next, Sha1Used
  <1> HIDE DEF V, x
  <1>5. p \in [0 .. 4 -> Word]
    BY <1>1, <1>3, Sha1Registers, Zenon
  <1> HIDE DEF p
  <1> QED
    BY <1>2, <1>4, <1>5 DEF Sha1States

\* A step of the standard keeps to words.
LEMMA Sha1StepKept ==
  ASSUME NEW t \in 0 .. 79, NEW W, IsSchedule(W, 80),
         NEW w \in [1 .. 5 -> Word]
  PROVE  Sha1Step(W, w, t) \in [1 .. 5 -> Word]
  <1> DEFINE a == w[1]  b == w[2]  c == w[3]  d == w[4]  e == w[5]
             x == W[t + 1]
             f == Sha1F(t, b, c, d)
             m == Add(S(a, 5), f)
             n == Add(e, Add(Sha1K(t), x))
             g == Add(m, n)
             h == S(b, 30)
  <1>1. a \in Word /\ b \in Word /\ c \in Word /\ d \in Word /\ e \in Word
    OBVIOUS
  <1>2. x \in Word
    <2>1. W \in Seq(Word) /\ Len(W) = 80
      BY Zenon DEF IsSchedule
    <2>2. t + 1 \in 1 .. 80
      OBVIOUS
    <2> QED
      BY <2>1, <2>2, ElementOf, ZenonT(30)
  <1> HIDE DEF a, b, c, d, e, x
  <1>3. f \in Word
    BY <1>1, Sha1FIs, Zenon
  <1>11. f = Sha1FOf(t, b, c, d)
    BY <1>1, Sha1FIs, Zenon
  <1> HIDE DEF f
  <1>4. Sha1Step(W, w, t) = <<g, a, h, c, d>>
    BY <1>11, Zenon DEF Sha1Step, Sha1FOf, a, b, c, d, e, x
  <1>5. 5 \in Nat /\ 30 \in Nat
    OBVIOUS
  <1>6. S(a, 5) \in Word /\ h \in Word
    BY <1>1, <1>5, SIsWord, Zenon
  <1>7. Sha1K(t) \in Word
    BY Sha1KIsWord, Zenon
  <1>8. m \in Word /\ Add(Sha1K(t), x) \in Word
    BY <1>2, <1>3, <1>6, <1>7, AddIsWord, Zenon
  <1>9. n \in Word
    BY <1>1, <1>8, AddIsWord, Zenon
  <1> HIDE DEF m, n, h
  <1>10. g \in Word
    BY <1>8, <1>9, AddIsWord, Zenon
  <1> HIDE DEF g
  <1> QED
    BY <1>1, <1>4, <1>6, <1>10

\* n steps.
LEMMA Sha1StepsSame ==
  ASSUME NEW first \in Nat, NEW n \in Nat, first + n <= 80,
         NEW W, IsSchedule(W, 80), NEW s, NEW w, Sha1Same(first, W, s, w)
  PROVE  Sha1Same(first + n, W, Sha1Run(s, first, n),
                  Sha1StandardRun(W, w, first, n))
  <1> DEFINE A == [i \in 0 .. n |-> Sha1States]
             B == [i \in 0 .. n |-> [1 .. 5 -> Word]]
  <1>1. \A i \in 1 .. n : /\ (first + i) - 1 \in 0 .. 79
                          /\ i - 1 \in 0 .. n /\ i \in 0 .. n
                          /\ (first + i) - 1 = first + (i - 1)
                          /\ ((first + i) - 1) + 1 = first + i
    OBVIOUS
  <1>2. 0 \in 0 .. n /\ n \in 0 .. n /\ first + 0 = first
    OBVIOUS
  <1>3. s \in A[0] /\ w \in B[0]
    BY <1>2, Zenon DEF Sha1Same
  <1>4. Sha1Keeps(A, first, n)
    BY <1>1, Sha1NextKept, Zenon DEF Sha1Keeps
  <1>5. Sha1StandardKeeps(W, B, first, n)
    BY <1>1, Sha1StepKept, Zenon DEF Sha1StandardKeeps
  <1> HIDE DEF A, B
  <1>6. PICK f : IsSha1Run(f, A, s, first, n)
    BY <1>3, <1>4, Sha1Steps, Zenon
  <1>7. PICK g : IsSha1StandardRun(W, g, B, w, first, n)
    BY <1>3, <1>5, Sha1StandardSteps, Zenon
  <1> DEFINE T == {i \in 0 .. n : Sha1Same(first + i, W, f[i], g[i])}
  <1>8. 0 \in T
    BY <1>2, <1>6, <1>7, Zenon DEF IsSha1Run, IsSha1StandardRun
  <1>9. \A i \in 1 .. n : i - 1 \in T => i \in T
    <2> SUFFICES ASSUME NEW i \in 1 .. n, i - 1 \in T
                 PROVE  i \in T
      OBVIOUS
    <2> DEFINE t == (first + i) - 1
    <2>1. Sha1Same(t, W, f[i - 1], g[i - 1])
      BY <1>1, Zenon
    <2>2. t \in 0 .. 79
      BY <1>1, Zenon
    <2>3. f[i] = Sha1Next(f[i - 1], t) /\ g[i] = Sha1Step(W, g[i - 1], t)
      BY <1>6, <1>7, Zenon DEF IsSha1Run, IsSha1StandardRun
    <2>4. t + 1 = first + i /\ i \in 0 .. n
      BY <1>1, Zenon
    <2> HIDE DEF t
    <2>5. Sha1Same(t + 1, W, f[i], g[i])
      BY <2>1, <2>2, <2>3, Sha1StepSame, Zenon
    <2> QED
      BY <2>4, <2>5, Zenon
  <1> HIDE DEF T
  <1>10. n \in T
    BY <1>2, <1>8, <1>9, StepByStep, Zenon
  <1> QED
    BY <1>6, <1>7, <1>10, Zenon DEF T, IsSha1Run, IsSha1StandardRun

\* And four rounds of n.
Sha1StandardRounds(W, w, n) == Rounds(LAMBDA v, t : Sha1Step(W, v, t), w, n)

\* Four rounds: the registers and the words stay the same.
LEMMA Sha1RoundsSame ==
  ASSUME NEW n \in Nat, 4 * n <= 80,
         NEW W, IsSchedule(W, 80), NEW s, NEW w, Sha1Same(0, W, s, w)
  PROVE  Sha1Same(4 * n, W, Rounds(Sha1Next, s, n),
                  Sha1StandardRounds(W, w, n))
  <1> DEFINE s1 == Sha1Run(s, 0, n)
             s2 == Sha1Run(s1, n, n)
             s3 == Sha1Run(s2, 2 * n, n)
             s4 == Sha1Run(s3, 3 * n, n)
             w1 == Sha1StandardRun(W, w, 0, n)
             w2 == Sha1StandardRun(W, w1, n, n)
             w3 == Sha1StandardRun(W, w2, 2 * n, n)
             w4 == Sha1StandardRun(W, w3, 3 * n, n)
  <1>1. /\ 0 \in Nat /\ 0 + n <= 80 /\ n + n <= 80 /\ (2 * n) + n <= 80
        /\ (3 * n) + n <= 80 /\ 0 + n = n /\ n + n = 2 * n
        /\ (2 * n) + n = 3 * n /\ (3 * n) + n = 4 * n
        /\ 2 * n \in Nat /\ 3 * n \in Nat
    BY SMT
  <1>2. Rounds(Sha1Next, s, n) = s4
    BY Zenon DEF Rounds, Sha1Run
  <1>3. Sha1StandardRounds(W, w, n) = w4
    BY Zenon DEF Rounds, Sha1StandardRun, Sha1StandardRounds
  <1>4. Sha1Same(0 + n, W, s1, w1)
    BY <1>1, Sha1StepsSame, Zenon
  <1> HIDE DEF s1, w1
  <1>5. Sha1Same(n + n, W, s2, w2)
    BY <1>1, <1>4, Sha1StepsSame, Zenon
  <1> HIDE DEF s2, w2
  <1>6. Sha1Same((2 * n) + n, W, s3, w3)
    BY <1>1, <1>5, Sha1StepsSame, Zenon
  <1> HIDE DEF s3, w3
  <1>7. Sha1Same((3 * n) + n, W, s4, w4)
    BY <1>1, <1>6, Sha1StepsSame, Zenon
  <1> QED
    BY <1>1, <1>2, <1>3, <1>7, Zenon

\* The schedules of n words whose first sixteen are those of a block.
Schedules(first16, n) ==
  {W \in Seq(Word) : IsSchedule(W, n) /\ \A i \in 1 .. 16 : W[i] = first16[i]}

\* One word more.
LEMMA LongerSchedule ==
  ASSUME NEW t \in Nat, NEW B, NEW n, n = t + 16, NEW W \in Schedules(B, n)
  PROVE  Longer(W, t) \in Schedules(B, n + 1)
  <1> DEFINE a == W[t + 14]  b == W[t + 9]  c == W[t + 3]  d == W[t + 1]
             v == S(XorW(XorW(a, b), XorW(c, d)), 1)
             U == Append(W, v)
  <1>1. /\ W \in Seq(Word) /\ Len(W) = n
        /\ \A i \in 17 .. n : W[i] = S(XorW(XorW(W[i - 3], W[i - 8]),
                                            XorW(W[i - 14], W[i - 16])), 1)
        /\ \A i \in 1 .. 16 : W[i] = B[i]
    BY Zenon DEF Schedules, IsSchedule
  <1>2. /\ t + 14 \in 1 .. n /\ t + 9 \in 1 .. n /\ t + 3 \in 1 .. n
        /\ t + 1 \in 1 .. n /\ n \in Nat
        /\ t + 14 = (n + 1) - 3 /\ t + 9 = (n + 1) - 8
        /\ t + 3 = (n + 1) - 14 /\ t + 1 = (n + 1) - 16
    OBVIOUS
  <1>3. a \in Word /\ b \in Word /\ c \in Word /\ d \in Word
    BY <1>1, <1>2, ElementOf, Zenon
  <1>4. Longer(W, t) = U
    BY Zenon DEF Longer
  <1>5. v = S(XorW(XorW(W[(n + 1) - 3], W[(n + 1) - 8]),
                   XorW(W[(n + 1) - 14], W[(n + 1) - 16])), 1)
    BY <1>2, Zenon
  <1>6. v \in Word
    <2> HIDE DEF a, b, c, d
    <2> DEFINE x == XorW(a, b)  y == XorW(c, d)  z == XorW(x, y)
    <2>1. x \in Word /\ y \in Word
      BY <1>3, WordsClosed, Zenon DEF WordClosed
    <2> HIDE DEF x, y
    <2>2. z \in Word
      BY <2>1, WordsClosed, Zenon DEF WordClosed
    <2> HIDE DEF z
    <2>3. 1 \in Nat
      OBVIOUS
    <2>4. S(z, 1) \in Word
      BY <2>2, <2>3, SIsWord, Zenon
    <2> QED
      BY <2>4, Zenon DEF x, y, z
  <1> HIDE DEF v, a, b, c, d
  <1>7. /\ U \in Seq(Word) /\ Len(U) = n + 1 /\ U[n + 1] = v
        /\ \A i \in 1 .. n : U[i] = W[i]
    BY <1>1, <1>6
  <1> HIDE DEF U
  <1>8. \A i \in 17 .. n + 1 : U[i] = S(XorW(XorW(U[i - 3], U[i - 8]),
                                             XorW(U[i - 14], U[i - 16])), 1)
    <2> TAKE i \in 17 .. n + 1
    <2>1. /\ i - 3 \in 1 .. n /\ i - 8 \in 1 .. n /\ i - 14 \in 1 .. n
          /\ i - 16 \in 1 .. n
      BY <1>2
    <2>2. /\ U[i - 3] = W[i - 3] /\ U[i - 8] = W[i - 8]
          /\ U[i - 14] = W[i - 14] /\ U[i - 16] = W[i - 16]
      BY <1>7, <2>1, Zenon
    <2>3. CASE i = n + 1
      BY <1>5, <1>7, <2>2, <2>3, Zenon
    <2>4. CASE i # n + 1
      <3>1. i \in 17 .. n /\ i \in 1 .. n
        BY <1>2, <2>4
      <3> QED
        BY <1>1, <1>7, <2>2, <3>1, Zenon
    <2> QED
      BY <2>3, <2>4, Zenon
  <1>9. \A i \in 1 .. 16 : U[i] = B[i]
    <2>1. \A i \in 1 .. 16 : i \in 1 .. n
      BY <1>2
    <2> QED
      BY <1>1, <1>7, <2>1, Zenon
  <1> QED
    BY <1>4, <1>7, <1>8, <1>9, Zenon DEF Schedules, IsSchedule

\* n words more.
LEMMA LongerRun ==
  ASSUME NEW first \in Nat, NEW n \in Nat, NEW B,
         NEW W \in Schedules(B, first + 16)
  PROVE  ScheduleRun(W, first, n) \in Schedules(B, (first + n) + 16)
  <1> DEFINE A == [i \in 0 .. n |-> Schedules(B, (first + i) + 16)]
  <1>1. /\ 0 \in 0 .. n /\ n \in 0 .. n /\ (first + 0) + 16 = first + 16
        /\ \A i \in 1 .. n :
             /\ i \in 0 .. n /\ i - 1 \in 0 .. n /\ (first + i) - 1 \in Nat
             /\ (first + (i - 1)) + 16 = ((first + i) - 1) + 16
             /\ (((first + i) - 1) + 16) + 1 = (first + i) + 16
    OBVIOUS
  <1>2. W \in A[0]
    BY <1>1, Zenon
  <1>3. ScheduleKeeps(A, first, n)
    <2>1. \A i \in 1 .. n : /\ A[i] = Schedules(B, (first + i) + 16)
                            /\ A[i - 1] = Schedules(B, ((first + i) - 1) + 16)
      BY <1>1, Zenon
    <2> HIDE DEF A
    <2>2. ASSUME NEW i \in 1 .. n, NEW x \in A[i - 1]
          PROVE  Longer(x, (first + i) - 1) \in A[i]
      <3> DEFINE t == (first + i) - 1  m == t + 16
      <3>1. t \in Nat /\ m + 1 = (first + i) + 16
        BY <1>1, Zenon
      <3>2. x \in Schedules(B, m)
        BY <2>1, Zenon
      <3> HIDE DEF t
      <3>3. Longer(x, t) \in Schedules(B, m + 1)
        BY <3>1, <3>2, LongerSchedule, Zenon
      <3> QED
        BY <2>1, <3>1, <3>3, Zenon DEF t
    <2> QED
      BY <2>2, Zenon DEF ScheduleKeeps
  <1>4. A[n] = Schedules(B, (first + n) + 16)
    BY <1>1, Zenon
  <1> HIDE DEF A
  <1>5. PICK f : IsScheduleRun(f, A, W, first, n)
    BY <1>2, <1>3, ScheduleSteps, Zenon
  <1> QED
    BY <1>1, <1>4, <1>5, Zenon DEF IsScheduleRun

\* A block of bytes.
IsBlock(data) == \A i \in 1 .. 64 : data[i] \in Byte

\* The words of a block.
LEMMA BlockWords ==
  ASSUME NEW data, IsBlock(data), NEW j \in 0 .. 15
  PROVE  GetBE(data, 4 * j) \in Word /\ GetLE(data, 4 * j) \in Word
  <1> DEFINE i == 4 * j
  <1>1. /\ i \in Nat /\ i + 1 \in 1 .. 64 /\ i + 2 \in 1 .. 64
        /\ i + 3 \in 1 .. 64 /\ i + 4 \in 1 .. 64
    OBVIOUS
  <1> HIDE DEF i
  <1>2. /\ data[i + 1] \in Byte /\ data[i + 2] \in Byte
        /\ data[i + 3] \in Byte /\ data[i + 4] \in Byte
    BY <1>1, Zenon DEF IsBlock
  <1>3. GetBE(data, i) \in Word /\ GetLE(data, i) \in Word
    BY <1>1, <1>2, FromBytes, Zenon
  <1> QED
    BY <1>3, Zenon DEF i

\* The schedule of a block.
LEMMA ScheduleIs ==
  ASSUME NEW block, IsBlock(block)
  PROVE  /\ IsSchedule(Schedule(block), 80)
         /\ \A j \in 0 .. 15 : Schedule(block)[j + 1] = GetBE(block, 4 * j)
  <1> DEFINE B == [i \in 1 .. 16 |-> GetBE(block, 4 * (i - 1))]
             n == 16
             W1 == ScheduleRun(B, 0, n)
             W2 == ScheduleRun(W1, n, n)
             W3 == ScheduleRun(W2, 2 * n, n)
             W4 == ScheduleRun(W3, 3 * n, n)
  <1>1. Schedule(block) = W4
    BY Zenon DEF Schedule, Rounds, ScheduleRun
  <1>2. \A j \in 0 .. 15 : B[j + 1] = GetBE(block, 4 * j)
    <2>1. \A j \in 0 .. 15 : j + 1 \in 1 .. 16 /\ (j + 1) - 1 = j
      OBVIOUS
    <2> QED
      BY <2>1, Zenon
  <1>3. B \in Seq(Word) /\ Len(B) = 16
    <2>1. \A i \in 1 .. 16 : i - 1 \in 0 .. 15
      OBVIOUS
    <2>2. \A i \in 1 .. 16 : GetBE(block, 4 * (i - 1)) \in Word
      BY <2>1, BlockWords, Zenon
    <2> QED
      BY <2>2
  <1> HIDE DEF B
  <1>4. B \in Schedules(B, 16)
    <2>1. \A i \in 17 .. 16 : FALSE
      OBVIOUS
    <2> QED
      BY <1>3, <2>1, Zenon DEF Schedules, IsSchedule
  <1>5. /\ n \in Nat /\ 0 \in Nat /\ 2 * n \in Nat /\ 3 * n \in Nat
        /\ 0 + 16 = 16 /\ 0 + n = n /\ n + n = 2 * n /\ (2 * n) + n = 3 * n
        /\ (3 * n) + n = 64 /\ 64 + 16 = 80
    BY SMT
  <1> HIDE DEF n
  <1>6. W1 \in Schedules(B, (0 + n) + 16)
    BY <1>4, <1>5, LongerRun, Zenon
  <1> HIDE DEF W1
  <1>7. W2 \in Schedules(B, (n + n) + 16)
    BY <1>5, <1>6, LongerRun, Zenon
  <1> HIDE DEF W2
  <1>8. W3 \in Schedules(B, ((2 * n) + n) + 16)
    BY <1>5, <1>7, LongerRun, Zenon
  <1> HIDE DEF W3
  <1>9. W4 \in Schedules(B, ((3 * n) + n) + 16)
    BY <1>5, <1>8, LongerRun, Zenon
  <1> HIDE DEF W4
  <1>10. W4 \in Schedules(B, 80)
    BY <1>5, <1>9
  <1>11. IsSchedule(W4, 80) /\ \A i \in 1 .. 16 : W4[i] = B[i]
    BY <1>10, Zenon DEF Schedules
  <1>12. \A j \in 0 .. 15 : j + 1 \in 1 .. 16
    OBVIOUS
  <1> QED
    BY <1>1, <1>2, <1>11, <1>12, Zenon

\* sha1_process does what FIPS 180 says of a block.
THEOREM Sha1BlockIsStandard ==
  ASSUME NEW state \in [1 .. 5 -> Word], NEW block, IsBlock(block)
  PROVE  /\ Sha1Process(state, block) = Sha1Block(state, block)
         /\ Sha1Process(state, block) \in [1 .. 5 -> Word]
  <1> DEFINE W == Schedule(block)
             s == [W |-> [i \in 0 .. 15 |-> GetBE(block, 4 * i)],
                   r |-> [i \in 0 .. 4 |-> state[i + 1]]]
             n == 20
             u == Rounds(Sha1Next, s, n)
             v == Sha1StandardRounds(W, state, n)
  <1>1. /\ IsSchedule(W, 80)
        /\ \A j \in 0 .. 15 : W[j + 1] = GetBE(block, 4 * j)
    BY ScheduleIs, Zenon
  <1>2. /\ Sha1Process(state, block) = Added(state, u.r)
        /\ Sha1Block(state, block) = Sum(state, v)
    BY Zenon DEF Sha1Process, Sha1Block, Sha1Rounds, Sha1StandardRounds
  <1> HIDE DEF W
  <1>3. Sha1Same(0, W, s, state)
    <2>1. \A i \in 0 .. 15 : GetBE(block, 4 * i) \in Word
      BY BlockWords, Zenon
    <2>2. s \in Sha1States
      <3>1. s.W \in [0 .. 15 -> Word]
        BY <2>1, Zenon
      <3>2. s.r \in [0 .. 4 -> Word]
        OBVIOUS
      <3> QED
        BY <3>1, <3>2 DEF Sha1States
    <2>3. WordsHeld(0, W, s.W)
      <3>1. \A j \in 0 .. 79 : (j < 0 \/ j < 16) =>
              j \in 0 .. 15 /\ j % 16 = j
        BY SMT
      <3>2. \A j \in 0 .. 15 : s.W[j] = GetBE(block, 4 * j)
        BY Zenon
      <3> HIDE DEF s
      <3> QED
        BY <1>1, <3>1, <3>2, Zenon DEF WordsHeld
    <2>4. \A i \in 0 .. 4 : state[i + 1] = s.r[Role5(i, 0)]
      <3>1. \A i \in 0 .. 4 : Role5(i, 0) = i
        BY SMT DEF Role5
      <3>2. \A i \in 0 .. 4 : s.r[i] = state[i + 1]
        BY Zenon
      <3> HIDE DEF s
      <3> QED
        BY <3>1, <3>2, Zenon
    <2> HIDE DEF s
    <2> QED
      BY <2>2, <2>3, <2>4, Zenon DEF Sha1Same
  <1> HIDE DEF s
  <1>4. n \in Nat /\ 4 * n <= 80 /\ 4 * n = 80
    OBVIOUS
  <1> HIDE DEF n
  <1>5. Sha1Same(4 * n, W, u, v)
    BY <1>1, <1>3, <1>4, Sha1RoundsSame, Zenon
  <1> HIDE DEF u, v
  <1>6. u \in Sha1States /\ v \in [1 .. 5 -> Word]
        /\ \A i \in 0 .. 4 : v[i + 1] = u.r[Role5(i, 4 * n)]
    BY <1>5, Zenon DEF Sha1Same
  <1>7. \A i \in 0 .. 4 : Role5(i, 4 * n) = i
    BY <1>4, SMT DEF Role5
  <1>8. \A i \in 1 .. 5 : /\ u.r[i - 1] = v[i]
                          /\ state[i] \in Word /\ v[i] \in Word
    <2>1. \A i \in 1 .. 5 : i - 1 \in 0 .. 4 /\ (i - 1) + 1 = i
      OBVIOUS
    <2> QED
      BY <1>6, <1>7, <2>1
  <1>9. Added(state, u.r) = [i \in 1 .. 5 |-> Add(state[i], v[i])]
    <2>1. Added(state, u.r) = [i \in 1 .. 5 |-> Add(state[i], u.r[i - 1])]
      BY Zenon DEF Added
    <2> QED
      BY <1>8, <2>1, Zenon
  <1>10. Sum(state, v) = [i \in 1 .. 5 |-> Add(state[i], v[i])]
    BY Zenon DEF Sum
  <1>11. \A i \in 1 .. 5 : Add(state[i], v[i]) \in Word
    BY <1>8, AddIsWord, Zenon
  <1> QED
    BY <1>2, <1>9, <1>10, <1>11, Zenon

-----------------------------------------------------------------------------
(* A block of MD5, in the same way.                                        *)

Md5KOf(t) ==
  CASE t < 16 -> t
    [] t \in 16 .. 31 -> ((5 * t) + 1) % 16
    [] t \in 32 .. 47 -> ((3 * t) + 5) % 16
    [] OTHER -> (7 * t) % 16

\* The order of the words is the standard's.
LEMMA Md5KIs ==
  ASSUME NEW t \in 0 .. 63
  PROVE  Md5K[t + 1] = Md5KOf(t) /\ Md5K[t + 1] \in 0 .. 15
  <1>1. CASE t < 16
    <2>1. Md5K[t + 1] = t /\ Md5K[t + 1] \in 0 .. 15
      BY <1>1, SMT DEF Md5K
    <2>2. t \notin 16 .. 31 /\ t \notin 32 .. 47
      BY <1>1
    <2> QED
      BY <1>1, <2>1, <2>2, Zenon DEF Md5KOf
  <1>2. CASE t \in 16 .. 31
    <2>1. Md5K[t + 1] = ((5 * t) + 1) % 16 /\ Md5K[t + 1] \in 0 .. 15
      BY <1>2, SMT DEF Md5K
    <2>2. ~(t < 16) /\ t \notin 32 .. 47
      BY <1>2
    <2> QED
      BY <1>2, <2>1, <2>2, Zenon DEF Md5KOf
  <1>3. CASE t \in 32 .. 47
    <2>1. Md5K[t + 1] = ((3 * t) + 5) % 16 /\ Md5K[t + 1] \in 0 .. 15
      BY <1>3, SMT DEF Md5K
    <2>2. ~(t < 16) /\ t \notin 16 .. 31
      BY <1>3
    <2> QED
      BY <1>3, <2>1, <2>2, Zenon DEF Md5KOf
  <1>4. CASE t \in 48 .. 63
    <2>1. Md5K[t + 1] = (7 * t) % 16 /\ Md5K[t + 1] \in 0 .. 15
      BY <1>4, SMT DEF Md5K
    <2>2. ~(t < 16) /\ t \notin 16 .. 31 /\ t \notin 32 .. 47
      BY <1>4
    <2> QED
      BY <2>1, <2>2, Zenon DEF Md5KOf
  <1> QED
    BY <1>1, <1>2, <1>3, <1>4

\* Which of the four registers is which at the step t.
Role4(i, t) == (i + (3 * t)) % 4

Md5Same(t, r, w) ==
  /\ r \in [0 .. 3 -> Word] /\ w \in [1 .. 4 -> Word]
  /\ \A i \in 0 .. 3 : w[i + 1] = r[Role4(i, t)]

\* The registers of MD5 change their roles as the words move on.
LEMMA Roles4 ==
  ASSUME NEW t \in Nat
  PROVE  /\ \A i \in 0 .. 3 : Role4(i, t) \in 0 .. 3
         /\ \A i, j \in 0 .. 3 : Role4(i, t) = Role4(j, t) => i = j
         /\ Role4(0, t + 1) = Role4(3, t) /\ Role4(1, t + 1) = Role4(0, t)
         /\ Role4(2, t + 1) = Role4(1, t) /\ Role4(3, t + 1) = Role4(2, t)
  BY SMT DEF Role4

\* What P of md5_process does to its registers.
LEMMA Md5Registers ==
  ASSUME NEW t \in 0 .. 63, NEW r \in [0 .. 3 -> Word], NEW x \in Word
  PROVE  /\ Md5P(r, t, x) \in [0 .. 3 -> Word]
         /\ Md5P(r, t, x)[Role4(0, t)]
              = Add(r[Role4(1, t)],
                    S(Add(Add(r[Role4(0, t)],
                              Md5F(t, r[Role4(1, t)], r[Role4(2, t)],
                                   r[Role4(3, t)])),
                          Add(x, Md5T[t + 1])), Md5S(t)))
         /\ Md5P(r, t, x)[Role4(1, t)] = r[Role4(1, t)]
         /\ Md5P(r, t, x)[Role4(2, t)] = r[Role4(2, t)]
         /\ Md5P(r, t, x)[Role4(3, t)] = r[Role4(3, t)]
  <1> DEFINE q0 == Role4(0, t)  q1 == Role4(1, t)  q2 == Role4(2, t)
             q3 == Role4(3, t)
             f == Md5F(t, r[q1], r[q2], r[q3])
             l == Add(r[q0], f)
             k == Add(x, Md5T[t + 1])
             m == Add(l, k)
             n == S(m, Md5S(t))
             u == Add(n, r[q1])
  <1>1. /\ q0 \in 0 .. 3 /\ q1 \in 0 .. 3 /\ q2 \in 0 .. 3 /\ q3 \in 0 .. 3
        /\ q0 # q1 /\ q0 # q2 /\ q0 # q3
    <2>1. t \in Nat
      OBVIOUS
    <2>2. /\ \A i \in 0 .. 3 : Role4(i, t) \in 0 .. 3
          /\ \A i, j \in 0 .. 3 : Role4(i, t) = Role4(j, t) => i = j
      BY <2>1, Roles4, Zenon
    <2> QED
      BY <2>2
  <1>2. Md5P(r, t, x) = [r EXCEPT ![q0] = u]
    BY Zenon DEF Md5P, Role4
  <1> HIDE DEF q0, q1, q2, q3
  <1>3. r[q0] \in Word /\ r[q1] \in Word /\ r[q2] \in Word /\ r[q3] \in Word
    BY <1>1
  <1>4. f \in Word
    BY <1>3, Md5FIs, Zenon
  <1>5. Md5T[t + 1] \in Word /\ Md5S(t) \in Nat
    BY Md5Constants, Zenon
  <1> HIDE DEF f
  <1>6. l \in Word /\ k \in Word
    BY <1>3, <1>4, <1>5, AddIsWord, Zenon
  <1> HIDE DEF l, k
  <1>7. m \in Word
    BY <1>6, AddIsWord, Zenon
  <1> HIDE DEF m
  <1>8. n \in Word
    BY <1>5, <1>7, SIsWord, Zenon
  <1> HIDE DEF n
  <1>9. u \in Word /\ u = Add(r[q1], n)
    BY <1>3, <1>8, AddIsWord, Zenon
  <1> DEFINE p == Md5P(r, t, x)
  <1> HIDE DEF u
  <1>10. /\ p \in [0 .. 3 -> Word] /\ p[q0] = u
         /\ \A i \in 0 .. 3 : i # q0 => p[i] = r[i]
    BY <1>1, <1>2, <1>9, Zenon
  <1> HIDE DEF p
  <1>11. p[q1] = r[q1] /\ p[q2] = r[q2] /\ p[q3] = r[q3]
    BY <1>1, <1>10, Zenon
  <1> QED
    BY <1>9, <1>10, <1>11, Zenon DEF p, q0, q1, q2, q3, f, l, k, m, n

\* The words of the standard after a step.
LEMMA Md5StepIs ==
  ASSUME NEW t \in 0 .. 63, NEW block, NEW w \in [1 .. 4 -> Word]
  PROVE  Md5Step(block, w, t)
           = <<w[4],
               Add(w[2], S(Add(Add(w[1], Md5F(t, w[2], w[3], w[4])),
                               Add(GetLE(block, 4 * Md5K[t + 1]),
                                   Md5T[t + 1])),
                           Md5S(t))),
               w[2], w[3]>>
  <1> DEFINE a == w[1]  b == w[2]  c == w[3]  d == w[4]
             f == Md5F(t, b, c, d)
             k == Md5K[t + 1]
             x == GetLE(block, 4 * k)
  <1>1. a \in Word /\ b \in Word /\ c \in Word /\ d \in Word
    OBVIOUS
  <1> HIDE DEF a, b, c, d
  <1>2. f = Md5FOf(t, b, c, d)
    BY <1>1, Md5FIs, Zenon
  <1>3. k = Md5KOf(t)
    BY Md5KIs, Zenon
  <1> HIDE DEF f, k
  <1>4. Md5Step(block, w, t)
          = <<d,
              Add(b, S(Add(Add(a, f), Add(GetLE(block, 4 * k), Md5T[t + 1])),
                          Md5S(t))), b, c>>
    BY <1>2, <1>3, Zenon DEF Md5Step, Md5FOf, Md5KOf, a, b, c, d
  <1> QED
    BY <1>4, Zenon DEF a, b, c, d, f, k

\* Both keep their types.
LEMMA Md5StepKept ==
  ASSUME NEW t \in 0 .. 63, NEW block, IsBlock(block),
         NEW w \in [1 .. 4 -> Word]
  PROVE  Md5Step(block, w, t) \in [1 .. 4 -> Word]
  <1> DEFINE a == w[1]  b == w[2]  c == w[3]  d == w[4]
             f == Md5F(t, b, c, d)
             x == GetLE(block, 4 * Md5K[t + 1])
             l == Add(a, f)
             k == Add(x, Md5T[t + 1])
             m == Add(l, k)
             n == S(m, Md5S(t))
             u == Add(b, n)
  <1>1. a \in Word /\ b \in Word /\ c \in Word /\ d \in Word
    OBVIOUS
  <1>2. x \in Word
    BY Md5KIs, BlockWords, Zenon
  <1>3. Md5Step(block, w, t) = <<d, u, b, c>>
    BY Md5StepIs, Zenon
  <1> HIDE DEF a, b, c, d, x
  <1>4. f \in Word
    BY <1>1, Md5FIs, Zenon
  <1>5. Md5T[t + 1] \in Word /\ Md5S(t) \in Nat
    BY Md5Constants, Zenon
  <1> HIDE DEF f
  <1>6. l \in Word /\ k \in Word
    BY <1>1, <1>2, <1>4, <1>5, AddIsWord, Zenon
  <1> HIDE DEF l, k
  <1>7. m \in Word
    BY <1>6, AddIsWord, Zenon
  <1> HIDE DEF m
  <1>8. n \in Word
    BY <1>5, <1>7, SIsWord, Zenon
  <1> HIDE DEF n
  <1>9. u \in Word
    BY <1>1, <1>8, AddIsWord, Zenon
  <1> HIDE DEF u
  <1> QED
    BY <1>1, <1>3, <1>9

\* A step of MD5 keeps to words.
LEMMA Md5NextKept ==
  ASSUME NEW t \in 0 .. 63, NEW block, IsBlock(block),
         NEW r \in [0 .. 3 -> Word]
  PROVE  Md5P(r, t, GetLE(block, 4 * Md5K[t + 1])) \in [0 .. 3 -> Word]
  <1>1. GetLE(block, 4 * Md5K[t + 1]) \in Word
    BY Md5KIs, BlockWords, Zenon
  <1> QED
    BY <1>1, Md5Registers, Zenon

\* One step of the code is one of the standard.
LEMMA Md5StepSame ==
  ASSUME NEW t \in 0 .. 63, NEW block, IsBlock(block), NEW r, NEW w,
         Md5Same(t, r, w)
  PROVE  Md5Same(t + 1, Md5P(r, t, GetLE(block, 4 * Md5K[t + 1])),
                 Md5Step(block, w, t))
  <1> DEFINE x == GetLE(block, 4 * Md5K[t + 1])
             p == Md5P(r, t, x)
             a == r[Role4(0, t)]  b == r[Role4(1, t)]  c == r[Role4(2, t)]
             d == r[Role4(3, t)]
             g == Add(b, S(Add(Add(a, Md5F(t, b, c, d)), Add(x, Md5T[t + 1])),
                           Md5S(t)))
             y == <<d, g, b, c>>
  <1>1. r \in [0 .. 3 -> Word] /\ w \in [1 .. 4 -> Word]
    BY Zenon DEF Md5Same
  <1>2. x \in Word
    BY Md5KIs, BlockWords, Zenon
  <1>3. /\ p \in [0 .. 3 -> Word] /\ p[Role4(0, t)] = g
        /\ p[Role4(1, t)] = b /\ p[Role4(2, t)] = c /\ p[Role4(3, t)] = d
    <2> HIDE DEF x
    <2> QED
      BY <1>1, <1>2, Md5Registers, Zenon
  <1>4. w[1] = a /\ w[2] = b /\ w[3] = c /\ w[4] = d
    <2>1. \A i \in 0 .. 3 : w[i + 1] = r[Role4(i, t)]
      BY Zenon DEF Md5Same
    <2>2. w[0 + 1] = a /\ w[1 + 1] = b /\ w[2 + 1] = c /\ w[3 + 1] = d
      BY <2>1
    <2> QED
      BY <2>2
  <1>5. Md5Step(block, w, t) = y
    <2>1. Md5Step(block, w, t)
            = <<w[4],
                Add(w[2], S(Add(Add(w[1], Md5F(t, w[2], w[3], w[4])),
                                Add(x, Md5T[t + 1])), Md5S(t))),
                w[2], w[3]>>
      BY <1>1, Md5StepIs, Zenon
    <2> HIDE DEF a, b, c, d, x
    <2> QED
      BY <1>4, <2>1, Zenon
  <1>6. y \in [1 .. 4 -> Word]
    <2> HIDE DEF y
    <2> QED
      BY <1>1, <1>5, Md5StepKept, Zenon
  <1>7. \A i \in 0 .. 3 : y[i + 1] = p[Role4(i, t + 1)]
    <2>1. t \in Nat
      OBVIOUS
    <2>2. /\ Role4(0, t + 1) = Role4(3, t) /\ Role4(1, t + 1) = Role4(0, t)
          /\ Role4(2, t + 1) = Role4(1, t) /\ Role4(3, t + 1) = Role4(2, t)
      BY <2>1, Roles4, Zenon
    <2>3. /\ p[Role4(0, t + 1)] = d /\ p[Role4(1, t + 1)] = g
          /\ p[Role4(2, t + 1)] = b /\ p[Role4(3, t + 1)] = c
      BY <1>3, <2>2, Zenon
    <2> HIDE DEF g, a, b, c, d, p
    <2>4. y[1] = d /\ y[2] = g /\ y[3] = b /\ y[4] = c
      BY Zenon
    <2>5. \A i \in 0 .. 3 : i = 0 \/ i = 1 \/ i = 2 \/ i = 3
      OBVIOUS
    <2> HIDE DEF y
    <2> QED
      BY <2>3, <2>4, <2>5
  <1> HIDE DEF y, p
  <1>8. Md5Same(t + 1, p, y)
    BY <1>3, <1>6, <1>7, Zenon DEF Md5Same
  <1> QED
    BY <1>5, <1>8, Zenon DEF p, x

\* n steps.
LEMMA Md5StepsSame ==
  ASSUME NEW first \in Nat, NEW n \in Nat, first + n <= 64,
         NEW block, IsBlock(block), NEW r, NEW w, Md5Same(first, r, w)
  PROVE  Md5Same(first + n, Md5Run(block, r, first, n),
                 Md5StandardRun(block, w, first, n))
  <1> DEFINE A == [i \in 0 .. n |-> [0 .. 3 -> Word]]
             B == [i \in 0 .. n |-> [1 .. 4 -> Word]]
  <1>1. \A i \in 1 .. n : /\ (first + i) - 1 \in 0 .. 63
                          /\ i - 1 \in 0 .. n /\ i \in 0 .. n
                          /\ (first + i) - 1 = first + (i - 1)
                          /\ ((first + i) - 1) + 1 = first + i
    OBVIOUS
  <1>2. 0 \in 0 .. n /\ n \in 0 .. n /\ first + 0 = first
    OBVIOUS
  <1>3. r \in A[0] /\ w \in B[0]
    BY <1>2, Zenon DEF Md5Same
  <1>4. Md5Keeps(block, A, first, n)
    <2>1. \A i \in 1 .. n : /\ A[i] = [0 .. 3 -> Word]
                            /\ A[i - 1] = [0 .. 3 -> Word]
      BY <1>1, Zenon
    <2> HIDE DEF A
    <2>2. ASSUME NEW i \in 1 .. n, NEW x \in A[i - 1]
          PROVE  Md5P(x, (first + i) - 1,
                      GetLE(block, 4 * Md5K[((first + i) - 1) + 1])) \in A[i]
      <3> DEFINE t == (first + i) - 1
      <3>1. t \in 0 .. 63 /\ x \in [0 .. 3 -> Word]
        BY <1>1, <2>1, Zenon
      <3> HIDE DEF t
      <3>2. Md5P(x, t, GetLE(block, 4 * Md5K[t + 1])) \in [0 .. 3 -> Word]
        BY <3>1, Md5NextKept, Zenon
      <3> QED
        BY <2>1, <3>2, Zenon DEF t
    <2> QED
      BY <2>2, Zenon DEF Md5Keeps
  <1>5. Md5StandardKeeps(block, B, first, n)
    BY <1>1, Md5StepKept, Zenon DEF Md5StandardKeeps
  <1> HIDE DEF A, B
  <1>6. PICK f : IsMd5Run(block, f, A, r, first, n)
    BY <1>3, <1>4, Md5Steps, Zenon
  <1>7. PICK g : IsMd5StandardRun(block, g, B, w, first, n)
    BY <1>3, <1>5, Md5StandardSteps, Zenon
  <1> DEFINE T == {i \in 0 .. n : Md5Same(first + i, f[i], g[i])}
  <1>8. 0 \in T
    BY <1>2, <1>6, <1>7, Zenon DEF IsMd5Run, IsMd5StandardRun
  <1>9. \A i \in 1 .. n : i - 1 \in T => i \in T
    <2> SUFFICES ASSUME NEW i \in 1 .. n, i - 1 \in T
                 PROVE  i \in T
      OBVIOUS
    <2> DEFINE t == (first + i) - 1
    <2>1. Md5Same(t, f[i - 1], g[i - 1])
      BY <1>1, Zenon
    <2>2. t \in 0 .. 63
      BY <1>1, Zenon
    <2>3. /\ f[i] = Md5P(f[i - 1], t, GetLE(block, 4 * Md5K[t + 1]))
          /\ g[i] = Md5Step(block, g[i - 1], t)
      BY <1>6, <1>7, Zenon DEF IsMd5Run, IsMd5StandardRun
    <2>4. t + 1 = first + i /\ i \in 0 .. n
      BY <1>1, Zenon
    <2> HIDE DEF t
    <2>5. Md5Same(t + 1, f[i], g[i])
      BY <2>1, <2>2, <2>3, Md5StepSame, Zenon
    <2> QED
      BY <2>4, <2>5, Zenon
  <1> HIDE DEF T
  <1>10. n \in T
    BY <1>2, <1>8, <1>9, StepByStep, Zenon
  <1> QED
    BY <1>6, <1>7, <1>10, Zenon DEF T, IsMd5Run, IsMd5StandardRun

\* And four rounds of n.
Md5CodeRounds(block, r, n) ==
  Rounds(LAMBDA x, t : Md5P(x, t, GetLE(block, 4 * Md5K[t + 1])), r, n)
Md5StandardRounds(block, w, n) ==
  Rounds(LAMBDA v, t : Md5Step(block, v, t), w, n)

\* Four rounds: the registers and the words stay the same.
LEMMA Md5RoundsSame ==
  ASSUME NEW n \in Nat, 4 * n <= 64, NEW block, IsBlock(block),
         NEW r, NEW w, Md5Same(0, r, w)
  PROVE  Md5Same(4 * n, Md5CodeRounds(block, r, n),
                 Md5StandardRounds(block, w, n))
  <1> DEFINE r1 == Md5Run(block, r, 0, n)
             r2 == Md5Run(block, r1, n, n)
             r3 == Md5Run(block, r2, 2 * n, n)
             r4 == Md5Run(block, r3, 3 * n, n)
             w1 == Md5StandardRun(block, w, 0, n)
             w2 == Md5StandardRun(block, w1, n, n)
             w3 == Md5StandardRun(block, w2, 2 * n, n)
             w4 == Md5StandardRun(block, w3, 3 * n, n)
  <1>1. /\ 0 \in Nat /\ 0 + n <= 64 /\ n + n <= 64 /\ (2 * n) + n <= 64
        /\ (3 * n) + n <= 64 /\ 0 + n = n /\ n + n = 2 * n
        /\ (2 * n) + n = 3 * n /\ (3 * n) + n = 4 * n
        /\ 2 * n \in Nat /\ 3 * n \in Nat
    BY SMT
  <1>2. Md5CodeRounds(block, r, n) = r4
    BY Zenon DEF Rounds, Md5Run, Md5CodeRounds
  <1>3. Md5StandardRounds(block, w, n) = w4
    BY Zenon DEF Rounds, Md5StandardRun, Md5StandardRounds
  <1>4. Md5Same(0 + n, r1, w1)
    BY <1>1, Md5StepsSame, Zenon
  <1> HIDE DEF r1, w1
  <1>5. Md5Same(n + n, r2, w2)
    BY <1>1, <1>4, Md5StepsSame, Zenon
  <1> HIDE DEF r2, w2
  <1>6. Md5Same((2 * n) + n, r3, w3)
    BY <1>1, <1>5, Md5StepsSame, Zenon
  <1> HIDE DEF r3, w3
  <1>7. Md5Same((3 * n) + n, r4, w4)
    BY <1>1, <1>6, Md5StepsSame, Zenon
  <1> QED
    BY <1>1, <1>2, <1>3, <1>7, Zenon

\* md5_process does what RFC 1321 says of a block.
THEOREM Md5BlockIsStandard ==
  ASSUME NEW state \in [1 .. 4 -> Word], NEW block, IsBlock(block)
  PROVE  /\ Md5Process(state, block) = Md5Block(state, block)
         /\ Md5Process(state, block) \in [1 .. 4 -> Word]
  <1> DEFINE r == [i \in 0 .. 3 |-> state[i + 1]]
             n == 16
             u == Md5CodeRounds(block, r, n)
             v == Md5StandardRounds(block, state, n)
  <1>1. /\ Md5Process(state, block) = Added(state, u)
        /\ Md5Block(state, block) = Sum(state, v)
    BY Zenon DEF Md5Process, Md5Block, Md5CodeRounds, Md5StandardRounds
  <1>2. Md5Same(0, r, state)
    <2>1. r \in [0 .. 3 -> Word]
      OBVIOUS
    <2>2. \A i \in 0 .. 3 : Role4(i, 0) = i
      BY SMT DEF Role4
    <2>3. \A i \in 0 .. 3 : r[i] = state[i + 1]
      BY Zenon
    <2> HIDE DEF r
    <2> QED
      BY <2>1, <2>2, <2>3, Zenon DEF Md5Same
  <1> HIDE DEF r
  <1>3. n \in Nat /\ 4 * n <= 64 /\ 4 * n = 64
    OBVIOUS
  <1> HIDE DEF n
  <1>4. Md5Same(4 * n, u, v)
    BY <1>2, <1>3, Md5RoundsSame, Zenon
  <1> HIDE DEF u, v
  <1>5. u \in [0 .. 3 -> Word] /\ v \in [1 .. 4 -> Word]
        /\ \A i \in 0 .. 3 : v[i + 1] = u[Role4(i, 4 * n)]
    BY <1>4, Zenon DEF Md5Same
  <1>6. \A i \in 0 .. 3 : Role4(i, 4 * n) = i
    BY <1>3, SMT DEF Role4
  <1>7. \A i \in 1 .. 4 : u[i - 1] = v[i] /\ state[i] \in Word /\ v[i] \in Word
    <2>1. \A i \in 1 .. 4 : i - 1 \in 0 .. 3 /\ (i - 1) + 1 = i
      OBVIOUS
    <2> QED
      BY <1>5, <1>6, <2>1
  <1>8. Added(state, u) = [i \in 1 .. 4 |-> Add(state[i], v[i])]
    <2>1. Added(state, u) = [i \in 1 .. 4 |-> Add(state[i], u[i - 1])]
      BY Zenon DEF Added
    <2> QED
      BY <1>7, <2>1, Zenon
  <1>9. Sum(state, v) = [i \in 1 .. 4 |-> Add(state[i], v[i])]
    BY Zenon DEF Sum
  <1>10. \A i \in 1 .. 4 : Add(state[i], v[i]) \in Word
    BY <1>7, AddIsWord, Zenon
  <1> QED
    BY <1>1, <1>8, <1>9, <1>10, Zenon

-----------------------------------------------------------------------------
(* The blocks of a message.                                                *)

Algorithms == {"sha1", "md5"}
States(algorithm) ==
  IF algorithm = "sha1" THEN [1 .. 5 -> Word] ELSE [1 .. 4 -> Word]

\* The code's blocks are the standard's.
LEMMA ProcessIs ==
  ASSUME NEW algorithm, NEW state \in States(algorithm), NEW block,
         IsBlock(block)
  PROVE  /\ Process(algorithm, state, block) = Block(algorithm, state, block)
         /\ Process(algorithm, state, block) \in States(algorithm)
         /\ Block(algorithm, state, block) \in States(algorithm)
  <1>1. CASE algorithm = "sha1"
    <2>1. state \in [1 .. 5 -> Word]
      BY <1>1, Zenon DEF States
    <2> QED
      BY <1>1, <2>1, Sha1BlockIsStandard, Zenon DEF States, Process, Block
  <1>2. CASE algorithm # "sha1"
    <2>1. state \in [1 .. 4 -> Word]
      BY <1>2, Zenon DEF States
    <2> QED
      BY <1>2, <2>1, Md5BlockIsStandard, Zenon DEF States, Process, Block
  <1> QED
    BY <1>1, <1>2

\* sha1_starts and md5_starts.
LEMMA StartsAreWords ==
  ASSUME NEW algorithm
  PROVE  Starts(algorithm).state \in States(algorithm)
  <1>1. \A i \in 1 .. 5 : /\ Sha1Starts[i]
                               = <<Sha1Starts[i][1], Sha1Starts[i][2]>>
                          /\ Sha1Starts[i][1] \in Nat /\ Sha1Starts[i][1] < Top
                          /\ Sha1Starts[i][2] \in Nat /\ Sha1Starts[i][2] < Top
    BY SMT DEF Sha1Starts, Top
  <1>2. \A i \in 1 .. 5 : Sha1Starts[i] \in Word
    <2> TAKE i \in 1 .. 5
    <2> DEFINE x == Sha1Starts[i][1]  y == Sha1Starts[i][2]
    <2>1. /\ Sha1Starts[i] = <<x, y>>
          /\ x \in Nat /\ x < Top /\ y \in Nat /\ y < Top
      BY <1>1, Zenon
    <2> HIDE DEF x, y
    <2>2. x \in Half /\ y \in Half
      BY <2>1, IsHalf, Zenon
    <2> QED
      BY <2>1, <2>2, PartsMakeWord, Zenon
  <1>3. Sha1Starts = [i \in 1 .. 5 |-> Sha1Starts[i]] /\ Len(Sha1Starts) = 5
    BY SMT DEF Sha1Starts
  <1>4. Sha1Starts \in [1 .. 5 -> Word]
    BY <1>2, <1>3, Zenon
  <1>5. Md5Starts = [i \in 1 .. 4 |-> Sha1Starts[i]]
    BY <1>3 DEF Md5Starts
  <1>6. \A i \in 1 .. 4 : Sha1Starts[i] \in Word
    <2>1. \A i \in 1 .. 4 : i \in 1 .. 5
      OBVIOUS
    <2> QED
      BY <1>2, <2>1, Zenon
  <1>7. Md5Starts \in [1 .. 4 -> Word]
    BY <1>5, <1>6, Zenon
  <1>8. Starts(algorithm).state
          = IF algorithm = "sha1" THEN Sha1Starts ELSE Md5Starts
    BY Zenon DEF Starts
  <1> QED
    BY <1>4, <1>7, <1>8, Zenon DEF States

\* A block of a message.
BlockIn(all, k) == k \in Nat /\ (64 * k) + 64 <= Len(all)
IsBlockOf(s, all, k) ==
  /\ s \in Seq(Byte) /\ Len(s) = 64
  /\ \A i \in 1 .. 64 : s[i] = all[(64 * k) + i]

\* A block of a message.
LEMMA BlockIs ==
  ASSUME NEW all \in Seq(Byte), NEW k, BlockIn(all, k)
  PROVE  IsBlockOf(BlockAt(all, k), all, k) /\ IsBlock(BlockAt(all, k))
  <1> DEFINE s == BlockAt(all, k)
             p == 64 * k
  <1>1. p \in Nat /\ p + 64 <= Len(all)
    BY DEF BlockIn
  <1>2. s = SubSeq(all, p + 1, p + 64)
    BY Zenon DEF BlockAt
  <1> HIDE DEF s, p
  <1>3. s \in Seq(Byte) /\ Len(s) = 64
    BY <1>1, <1>2
  <1>4. \A i \in 1 .. 64 : s[i] = all[p + i]
    BY <1>1, <1>2
  <1>5. \A i \in 1 .. 64 : s[i] \in Byte
    BY <1>3, ElementOf, ZenonT(30)
  <1> QED
    BY <1>3, <1>4, <1>5, Zenon DEF IsBlock, IsBlockOf, s, p

\* Two messages that have a block in common.
Alike(all, k, other, l) ==
  \A i \in 1 .. 64 : all[(64 * k) + i] = other[(64 * l) + i]
SameBlocks(all, k, other, l) == BlockAt(all, k) = BlockAt(other, l)

\* Blocks of the same bytes.
LEMMA SameBlock ==
  ASSUME NEW all \in Seq(Byte), NEW other \in Seq(Byte), NEW k, NEW l,
         BlockIn(all, k), BlockIn(other, l), Alike(all, k, other, l)
  PROVE  SameBlocks(all, k, other, l)
  <1> DEFINE s == BlockAt(all, k)
             t == BlockAt(other, l)
  <1>1. IsBlockOf(s, all, k)
    BY BlockIs, Zenon
  <1>2. IsBlockOf(t, other, l)
    BY BlockIs, Zenon
  <1> HIDE DEF s, t
  <1>3. \A i \in 1 .. 64 : s[i] = t[i]
    BY <1>1, <1>2, Zenon DEF Alike, IsBlockOf
  <1>4. s \in Seq(Byte) /\ t \in Seq(Byte) /\ Len(s) = 64 /\ Len(t) = 64
    BY <1>1, <1>2, Zenon DEF IsBlockOf
  <1>5. Len(s) = Len(t) /\ \A i \in 1 .. Len(s) : s[i] = t[i]
    BY <1>3, <1>4, Zenon
  <1>6. s = t
    BY <1>4, <1>5, SameSequence, Zenon
  <1> QED
    BY <1>6, Zenon DEF s, t, SameBlocks

\* The state after n blocks, from the start.
Through(algorithm, all, n) ==
  StandardBlockRun(algorithm, all, Starts(algorithm).state, 0, n)

\* The standard gets through as many blocks as there are,
LEMMA ThroughRun ==
  ASSUME NEW algorithm, NEW all \in Seq(Byte), NEW n \in Nat,
         64 * n <= Len(all)
  PROVE  \E f : IsStandardBlockRun(algorithm, all, f,
                  [i \in 0 .. n |-> States(algorithm)],
                  Starts(algorithm).state, 0, n)
  <1> DEFINE Elem == [i \in 0 .. n |-> States(algorithm)]
             s == Starts(algorithm).state
  <1>1. \A i \in 1 .. n : /\ (0 + i) - 1 \in Nat
                          /\ BlockIn(all, (0 + i) - 1)
                          /\ i - 1 \in 0 .. n /\ i \in 0 .. n
    BY DEF BlockIn
  <1>2. 0 \in 0 .. n /\ 0 \in Nat
    OBVIOUS
  <1>3. s \in Elem[0]
    BY <1>2, StartsAreWords, Zenon
  <1>4. StandardBlockKeeps(algorithm, all, Elem, 0, n)
    <2>1. \A i \in 1 .. n : /\ Elem[i] = States(algorithm)
                            /\ Elem[i - 1] = States(algorithm)
      BY <1>1, Zenon
    <2> HIDE DEF Elem
    <2>2. \A i \in 1 .. n : IsBlock(BlockAt(all, (0 + i) - 1))
      BY <1>1, BlockIs, Zenon
    <2> QED
      BY <2>1, <2>2, ProcessIs, Zenon DEF StandardBlockKeeps
  <1> HIDE DEF Elem, s
  <1>5. \E f : IsStandardBlockRun(algorithm, all, f, Elem, s, 0, n)
    BY <1>2, <1>3, <1>4, StandardBlockSteps, Zenon
  <1> QED
    BY <1>5, Zenon DEF Elem, s

\* starts with none
LEMMA ThroughNone ==
  ASSUME NEW algorithm, NEW all \in Seq(Byte)
  PROVE  Through(algorithm, all, 0) = Starts(algorithm).state
  <1>1. 0 \in Nat /\ 64 * 0 <= Len(all)
    OBVIOUS
  <1>2. PICK f : IsStandardBlockRun(algorithm, all, f,
                   [i \in 0 .. 0 |-> States(algorithm)],
                   Starts(algorithm).state, 0, 0)
    BY <1>1, ThroughRun, Zenon
  <1> QED
    BY <1>2, Zenon DEF IsStandardBlockRun, Through

\* One block more: the state x, with the block, becomes y.
Goes(algorithm, x, y, block) ==
  /\ x \in States(algorithm) /\ y \in States(algorithm)
  /\ y = Block(algorithm, x, block) /\ y = Process(algorithm, x, block)

\* and takes one more at a time.
LEMMA ThroughNext ==
  ASSUME NEW algorithm, NEW all \in Seq(Byte), NEW n, BlockIn(all, n)
  PROVE  Goes(algorithm, Through(algorithm, all, n),
              Through(algorithm, all, n + 1), BlockAt(all, n))
  <1> DEFINE m == n + 1
             s == Starts(algorithm).state
             E(j) == [i \in 0 .. j |-> States(algorithm)]
  <1>1. m \in Nat /\ 64 * m <= Len(all) /\ n \in Nat /\ 64 * n <= Len(all)
    BY DEF BlockIn
  <1>2. n + 1 = m
    OBVIOUS
  <1>3. /\ \A i \in 1 .. n : i \in 1 .. m /\ i - 1 \in 0 .. n
        /\ m \in 1 .. m /\ (0 + m) - 1 = n /\ m - 1 = n /\ n \in 0 .. n
        /\ m \in 0 .. m
    BY <1>1
  <1> HIDE DEF m
  <1>4. PICK f : IsStandardBlockRun(algorithm, all, f, E(n), s, 0, n)
    BY <1>1, ThroughRun, Zenon
  <1>5. PICK g : IsStandardBlockRun(algorithm, all, g, E(m), s, 0, m)
    BY <1>1, ThroughRun, Zenon
  <1> HIDE DEF s
  <1>6. /\ f[0] = s /\ f[n] \in E(n)[n] /\ Through(algorithm, all, n) = f[n]
        /\ \A i \in 1 .. n :
             f[i] = Block(algorithm, f[i - 1], BlockAt(all, (0 + i) - 1))
    BY <1>3, <1>4, Zenon DEF IsStandardBlockRun, Through, s
  <1>7. /\ g[0] = s /\ g[m] \in E(m)[m] /\ Through(algorithm, all, m) = g[m]
        /\ \A i \in 1 .. m :
             g[i] = Block(algorithm, g[i - 1], BlockAt(all, (0 + i) - 1))
    BY <1>3, <1>5, Zenon DEF IsStandardBlockRun, Through, s
  <1> DEFINE T == {i \in 0 .. n : f[i] = g[i]}
  <1>8. 0 \in T
    <2>1. 0 \in 0 .. n
      BY <1>1
    <2> QED
      BY <1>6, <1>7, <2>1, Zenon
  <1>9. \A i \in 1 .. n : i - 1 \in T => i \in T
    <2>1. \A i \in 1 .. n : i \in 0 .. n
      BY <1>1
    <2> QED
      BY <1>3, <1>6, <1>7, <2>1, Zenon
  <1> HIDE DEF T
  <1>10. n \in T
    BY <1>1, <1>3, <1>8, <1>9, StepByStep, Zenon
  <1>11. f[n] = g[n]
    BY <1>10, Zenon DEF T
  <1>12. g[m] = Block(algorithm, g[n], BlockAt(all, n))
    BY <1>3, <1>7, Zenon
  <1>13. f[n] \in States(algorithm)
    BY <1>3, <1>6, Zenon
  <1>14. g[m] \in States(algorithm)
    BY <1>3, <1>7, Zenon
  <1>15. IsBlock(BlockAt(all, n))
    BY BlockIs, Zenon
  <1>16. Process(algorithm, f[n], BlockAt(all, n))
           = Block(algorithm, f[n], BlockAt(all, n))
    BY <1>13, <1>15, ProcessIs, Zenon
  <1> QED
    BY <1>2, <1>6, <1>7, <1>11, <1>12, <1>13, <1>14, <1>16, Zenon DEF Goes

\* What comes behind n blocks does not change the state after them.
LEMMA ThroughSame ==
  ASSUME NEW algorithm, NEW all \in Seq(Byte), NEW other \in Seq(Byte),
         NEW n \in Nat, 64 * n <= Len(all), 64 * n <= Len(other),
         \A i \in 1 .. 64 * n : all[i] = other[i]
  PROVE  Through(algorithm, all, n) = Through(algorithm, other, n)
  <1> DEFINE T == {i \in 0 .. n : Through(algorithm, all, i)
                                    = Through(algorithm, other, i)}
  <1>1. 0 \in T
    BY ThroughNone
  <1>2. ASSUME NEW i \in 1 .. n, i - 1 \in T
        PROVE  i \in T
    <2> DEFINE k == i - 1
               p == 64 * k
    <2>1. /\ BlockIn(all, k) /\ BlockIn(other, k) /\ k + 1 = i /\ i \in 0 .. n
          /\ p \in Nat /\ p + 64 <= 64 * n
      BY DEF BlockIn
    <2>2. Through(algorithm, all, k) = Through(algorithm, other, k)
      BY <1>2, Zenon
    <2> HIDE DEF T, k
    <2>3. Alike(all, k, other, k)
      <3>1. \A j \in 1 .. 64 : p + j \in 1 .. 64 * n
        <4> HIDE DEF p
        <4> QED
          BY <2>1
      <3> QED
        BY <3>1, Zenon DEF Alike
    <2>4. SameBlocks(all, k, other, k)
      BY <2>1, <2>3, SameBlock, Zenon
    <2>5. Goes(algorithm, Through(algorithm, all, k),
               Through(algorithm, all, k + 1), BlockAt(all, k))
      BY <2>1, ThroughNext, Zenon
    <2>6. Goes(algorithm, Through(algorithm, other, k),
               Through(algorithm, other, k + 1), BlockAt(other, k))
      BY <2>1, ThroughNext, Zenon
    <2>7. Through(algorithm, all, k + 1) = Through(algorithm, other, k + 1)
      BY <2>2, <2>4, <2>5, <2>6, Zenon DEF Goes, SameBlocks
    <2> QED
      BY <2>1, <2>7, Zenon DEF T
  <1>3. n \in 0 .. n
    OBVIOUS
  <1> HIDE DEF T
  <1>4. n \in T
    BY <1>1, <1>2, <1>3, StepByStep, Zenon
  <1> QED
    BY <1>4, Zenon DEF T

\* What comes of it is a state.
LEMMA ThroughIsState ==
  ASSUME NEW algorithm, NEW all \in Seq(Byte), NEW m \in Nat,
         64 * m <= Len(all)
  PROVE  Through(algorithm, all, m) \in States(algorithm)
  <1>1. CASE m = 0
    BY <1>1, ThroughNone, StartsAreWords, Zenon
  <1>2. CASE m # 0
    <2> DEFINE k == m - 1
    <2>1. BlockIn(all, k) /\ k + 1 = m
      BY <1>2 DEF BlockIn
    <2> HIDE DEF k
    <2>2. Goes(algorithm, Through(algorithm, all, k),
               Through(algorithm, all, k + 1), BlockAt(all, k))
      BY <2>1, ThroughNext, Zenon
    <2> QED
      BY <2>1, <2>2, Zenon DEF Goes
  <1> QED
    BY <1>1, <1>2

\* The code's blocks, n of them, behind m others.
LEMMA ProcessAllIs ==
  ASSUME NEW algorithm, NEW all \in Seq(Byte), NEW m \in Nat,
         NEW blocks \in Seq(Byte), NEW n \in Nat, Len(blocks) = 64 * n,
         64 * (m + n) <= Len(all),
         \A i \in 1 .. Len(blocks) : blocks[i] = all[(64 * m) + i]
  PROVE  ProcessAll(algorithm, Through(algorithm, all, m), blocks)
           = Through(algorithm, all, m + n)
  <1> DEFINE s == Through(algorithm, all, m)
             Elem == [i \in 0 .. n |-> States(algorithm)]
  <1>1. Len(blocks) \div 64 = n
    OBVIOUS
  <1>2. /\ 64 * m <= Len(all) /\ 0 \in Nat /\ 0 \in 0 .. n /\ n \in 0 .. n
        /\ m + 0 = m
        /\ \A i \in 1 .. n : i \in 0 .. n /\ i - 1 \in 0 .. n
    OBVIOUS
  <1>3. s \in Elem[0]
    BY <1>2, ThroughIsState, Zenon
  <1>4. ASSUME NEW i \in 1 .. n
        PROVE  /\ IsBlock(BlockAt(blocks, (0 + i) - 1))
               /\ BlockAt(blocks, (0 + i) - 1) = BlockAt(all, m + (i - 1))
    <2> DEFINE k == i - 1
               p == 64 * k
               q == 64 * m
               r == 64 * (m + k)
               t == 64 * n
    <2>1. (0 + i) - 1 = k /\ i - 1 = k
      OBVIOUS
    <2>2. /\ p \in Nat /\ q \in Nat /\ r = q + p /\ p + 64 <= t /\ t \in Nat
      OBVIOUS
    <2>3. BlockIn(blocks, k) /\ BlockIn(all, m + k)
      BY DEF BlockIn
    <2> HIDE DEF k
    <2>4. \A j \in 1 .. 64 : p + j \in 1 .. Len(blocks) /\ q + (p + j) = r + j
      <3>1. Len(blocks) = t
        OBVIOUS
      <3> HIDE DEF p, q, r, t
      <3> TAKE j \in 1 .. 64
      <3>2. p + j \in 1 .. t /\ q + (p + j) = r + j
        BY <2>2
      <3> QED
        BY <3>1, <3>2, Zenon
    <2>5. Alike(blocks, k, all, m + k)
      <3>1. \A j \in 1 .. 64 : blocks[p + j] = all[q + (p + j)]
        BY <2>4, Zenon
      <3> QED
        BY <2>4, <3>1, Zenon DEF Alike
    <2>6. SameBlocks(blocks, k, all, m + k)
      BY <2>3, <2>5, SameBlock, Zenon
    <2>7. IsBlock(BlockAt(blocks, k))
      BY <2>3, BlockIs, Zenon
    <2> QED
      BY <2>1, <2>6, <2>7, Zenon DEF SameBlocks
  <1>5. BlockKeeps(algorithm, blocks, Elem, 0, n)
    <2>1. \A i \in 1 .. n : /\ Elem[i] = States(algorithm)
                            /\ Elem[i - 1] = States(algorithm)
      BY <1>2, Zenon
    <2> HIDE DEF Elem
    <2>2. ASSUME NEW i \in 1 .. n, NEW x \in Elem[i - 1]
          PROVE  Process(algorithm, x, BlockAt(blocks, (0 + i) - 1))
                  \in Elem[i]
      <3>1. x \in States(algorithm)
        BY <2>1, Zenon
      <3>2. IsBlock(BlockAt(blocks, (0 + i) - 1))
        BY <1>4, Zenon
      <3>3. Process(algorithm, x, BlockAt(blocks, (0 + i) - 1))
              \in States(algorithm)
        BY <3>1, <3>2, ProcessIs, Zenon
      <3> QED
        BY <2>1, <3>3, Zenon
    <2> QED
      BY <2>2, Zenon DEF BlockKeeps
  <1> HIDE DEF Elem
  <1>6. PICK f : IsBlockRun(algorithm, blocks, f, Elem, s, 0, n)
    BY <1>2, <1>3, <1>5, BlockSteps, Zenon
  <1>7. /\ f[0] = s /\ BlockRun(algorithm, blocks, s, 0, n) = f[n]
        /\ \A i \in 1 .. n :
             f[i] = Process(algorithm, f[i - 1], BlockAt(blocks, (0 + i) - 1))
    BY <1>6, Zenon DEF IsBlockRun
  <1>8. ProcessAll(algorithm, s, blocks) = BlockRun(algorithm, blocks, s, 0, n)
    <2>1. ProcessAll(algorithm, s, blocks)
            = BlockRun(algorithm, blocks, s, 0, Len(blocks) \div 64)
      BY Zenon DEF ProcessAll, BlockRun, BlockAt
    <2> HIDE DEF s
    <2> QED
      BY <1>1, <2>1, Zenon
  <1> DEFINE T == {i \in 0 .. n : f[i] = Through(algorithm, all, m + i)}
  <1>9. 0 \in T
    BY <1>2, <1>7, Zenon
  <1>10. ASSUME NEW i \in 1 .. n, i - 1 \in T
         PROVE  i \in T
    <2> DEFINE k == m + (i - 1)
    <2>1. BlockIn(all, k) /\ k + 1 = m + i /\ i \in 0 .. n
      BY DEF BlockIn
    <2>2. f[i - 1] = Through(algorithm, all, k)
      BY <1>10, Zenon
    <2> HIDE DEF T
    <2>3. f[i] = Process(algorithm, f[i - 1], BlockAt(all, k))
      BY <1>4, <1>7, Zenon
    <2> HIDE DEF k
    <2>4. Goes(algorithm, Through(algorithm, all, k),
               Through(algorithm, all, k + 1), BlockAt(all, k))
      BY <2>1, ThroughNext, Zenon
    <2>5. f[i] = Through(algorithm, all, k + 1)
      BY <2>2, <2>3, <2>4, Zenon DEF Goes
    <2> QED
      BY <2>1, <2>5, Zenon DEF T
  <1> HIDE DEF T
  <1>11. n \in T
    BY <1>2, <1>9, <1>10, StepByStep, Zenon
  <1> QED
    BY <1>7, <1>8, <1>11, Zenon DEF T

-----------------------------------------------------------------------------
(* Pieces of a message.                                                    *)

\* s: the n bytes of u behind the first p.
IsPart(s, u, p, n) ==
  /\ s \in Seq(Byte) /\ Len(s) = n /\ n \in Nat
  /\ \A i \in 1 .. n : s[i] = u[p + i]

\* A part of a part,
LEMMA PartOfPart ==
  ASSUME NEW u, NEW s, NEW p \in Nat, NEW n \in Nat, IsPart(s, u, p, n),
         NEW d \in Nat, NEW e \in Nat, d <= e, e <= n
  PROVE  IsPart(SubSeq(s, d + 1, e), u, p + d, e - d)
  <1>1. s \in Seq(Byte) /\ Len(s) = n /\ \A i \in 1 .. n : s[i] = u[p + i]
    BY Zenon DEF IsPart
  <1>2. SubSeq(s, d + 1, e) \in Seq(Byte) /\ Len(SubSeq(s, d + 1, e)) = e - d
    BY <1>1
  <1>3. \A i \in 1 .. e - d : /\ SubSeq(s, d + 1, e)[i] = s[d + i]
                              /\ d + i \in 1 .. n /\ p + (d + i) = (p + d) + i
    BY <1>1
  <1>4. e - d \in Nat
    OBVIOUS
  <1> QED
    BY <1>1, <1>2, <1>3, <1>4, Zenon DEF IsPart

\* the first of them,
LEMMA FirstOfPart ==
  ASSUME NEW u, NEW s, NEW p \in Nat, NEW n \in Nat, IsPart(s, u, p, n),
         NEW e \in Nat, e <= n
  PROVE  IsPart(SubSeq(s, 1, e), u, p, e)
  <1>1. 0 \in Nat /\ 0 <= e /\ 0 + 1 = 1 /\ p + 0 = p /\ e - 0 = e
    OBVIOUS
  <1> QED
    BY <1>1, PartOfPart, Zenon

\* and the whole of it.
IsPiece(s, u, p, n) == s = SubSeq(u, p + 1, p + n)

\* A part of a message is a piece of it.
LEMMA PieceIs ==
  ASSUME NEW u \in Seq(Byte), NEW s, NEW p \in Nat, NEW n \in Nat,
         IsPart(s, u, p, n), p + n <= Len(u)
  PROVE  IsPiece(s, u, p, n)
  <1> DEFINE t == SubSeq(u, p + 1, p + n)
  <1>1. s \in Seq(Byte) /\ Len(s) = n /\ \A i \in 1 .. n : s[i] = u[p + i]
    BY Zenon DEF IsPart
  <1>2. /\ t \in Seq(Byte) /\ Len(t) = n
        /\ \A i \in 1 .. n : t[i] = u[p + i]
    <2>1. t \in Seq(Byte) /\ Len(t) = n
      OBVIOUS
    <2>2. ASSUME NEW i \in 1 .. n PROVE t[i] = u[p + i]
      OBVIOUS
    <2> QED
      BY <2>1, <2>2
  <1> HIDE DEF t
  <1>3. Len(s) = Len(t) /\ \A i \in 1 .. Len(s) : s[i] = t[i]
    BY <1>1, <1>2, Zenon
  <1>4. s = t
    BY <1>1, <1>2, <1>3, SameSequence, Zenon
  <1> QED
    BY <1>4, Zenon DEF t, IsPiece

\* One part and what is behind it.
LEMMA PartsJoined ==
  ASSUME NEW u, NEW s, NEW t, NEW p \in Nat, NEW n \in Nat, NEW m \in Nat,
         IsPart(s, u, p, n), IsPart(t, u, p + n, m)
  PROVE  IsPart(s \o t, u, p, n + m)
  <1>1. s \in Seq(Byte) /\ Len(s) = n /\ \A i \in 1 .. n : s[i] = u[p + i]
    BY Zenon DEF IsPart
  <1>2. /\ t \in Seq(Byte) /\ Len(t) = m
        /\ \A i \in 1 .. m : t[i] = u[(p + n) + i]
    BY Zenon DEF IsPart
  <1>3. IsJoin(Byte, s \o t, s, t)
    BY <1>1, <1>2, JoinIs, Zenon
  <1> DEFINE v == s \o t
  <1> HIDE DEF v
  <1>4. /\ v \in Seq(Byte) /\ Len(v) = n + m
        /\ \A i \in 1 .. n : v[i] = s[i]
        /\ \A i \in 1 .. m : v[n + i] = t[i]
    BY <1>1, <1>2, <1>3, Zenon DEF IsJoin, v
  <1>5. ASSUME NEW i \in 1 .. n + m PROVE v[i] = u[p + i]
    <2>1. CASE i <= n
      <3>1. i \in 1 .. n
        BY <2>1
      <3> QED
        BY <1>1, <1>4, <3>1, Zenon
    <2>2. CASE i > n
      <3> DEFINE k == i - n
      <3>1. k \in 1 .. m /\ i = n + k /\ p + i = (p + n) + k
        BY <2>2
      <3> HIDE DEF k
      <3> QED
        BY <1>2, <1>4, <3>1, Zenon
    <2> QED
      BY <2>1, <2>2
  <1>6. n + m \in Nat
    OBVIOUS
  <1> QED
    BY <1>4, <1>5, <1>6, Zenon DEF IsPart, v

\* Nothing is a part anywhere.
LEMMA NoPart ==
  ASSUME NEW u, NEW p
  PROVE  IsPart(<<>>, u, p, 0)
  <1>1. <<>> \in Seq(Byte) /\ Len(<<>>) = 0 /\ 0 \in Nat /\ 1 .. 0 = {}
    OBVIOUS
  <1> QED
    BY <1>1, Zenon DEF IsPart

\* A message and what is fed behind it.
LEMMA Fed ==
  ASSUME NEW all \in Seq(Byte), NEW input \in Seq(Byte)
  PROVE  /\ all \o input \in Seq(Byte)
         /\ Len(all \o input) = Len(all) + Len(input)
         /\ IsPart(all, all \o input, 0, Len(all))
         /\ IsPart(input, all \o input, Len(all), Len(input))
  <1>1. IsJoin(Byte, all \o input, all, input)
    BY JoinIs, Zenon
  <1>2. Len(all) \in Nat /\ Len(input) \in Nat
        /\ \A i \in 1 .. Len(all) : 0 + i = i
    OBVIOUS
  <1> QED
    BY <1>1, <1>2, Zenon DEF IsJoin, IsPart

-----------------------------------------------------------------------------
(* A context: what sha1_update and md5_update make of what they are fed.   *)

Fields == {"algorithm", "total", "buffer", "state"}
HasFields(ctx, algorithm, total, buffer, state) ==
  /\ DOMAIN ctx = Fields
  /\ ctx.algorithm = algorithm /\ ctx.total = total
  /\ ctx.buffer = buffer /\ ctx.state = state

\* The bytes of all behind its whole blocks,
Rest(all) == SubSeq(all, (64 * (Len(all) \div 64)) + 1, Len(all))
\* and the context when all was fed: its blocks are done with, the rest is in
\* the buffer.
IsContext(ctx, algorithm, all) ==
  /\ all \in Seq(Byte)
  /\ HasFields(ctx, algorithm, Len(all), Rest(all),
               Through(algorithm, all, Len(all) \div 64))

\* sha1_starts and md5_starts: nothing was fed yet.
LEMMA StartsContext ==
  ASSUME NEW algorithm
  PROVE  IsContext(Starts(algorithm), algorithm, <<>>)
  <1>1. <<>> \in Seq(Byte) /\ Len(<<>>) = 0 /\ 0 \div 64 = 0
    OBVIOUS
  <1>2. Rest(<<>>) = <<>>
    BY SMT DEF Rest
  <1>3. Through(algorithm, <<>>, 0) = Starts(algorithm).state
    BY <1>1, ThroughNone, Zenon
  <1> DEFINE s == IF algorithm = "sha1" THEN Sha1Starts ELSE Md5Starts
  <1>4. Starts(algorithm) = [algorithm |-> algorithm, total |-> 0,
                             buffer |-> <<>>, state |-> s]
    BY Zenon DEF Starts
  <1> HIDE DEF s
  <1>5. HasFields(Starts(algorithm), algorithm, 0, <<>>,
                  Starts(algorithm).state)
    BY <1>4, SMT DEF HasFields, Fields
  <1> QED
    BY <1>1, <1>2, <1>3, <1>5, Zenon DEF IsContext

\* n blocks behind m others.
Processed(algorithm, u, m, blocks, n) ==
  ProcessAll(algorithm, Through(algorithm, u, m), blocks)
    = Through(algorithm, u, m + n)

\* A part of whole blocks is processed like the message's.
LEMMA PartProcessed ==
  ASSUME NEW algorithm, NEW u \in Seq(Byte), NEW m \in Nat, NEW n \in Nat,
         64 * (m + n) <= Len(u), NEW blocks,
         IsPart(blocks, u, 64 * m, 64 * n)
  PROVE  Processed(algorithm, u, m, blocks, n)
  <1>1. /\ blocks \in Seq(Byte) /\ Len(blocks) = 64 * n
        /\ \A i \in 1 .. Len(blocks) : blocks[i] = u[(64 * m) + i]
    BY Zenon DEF IsPart
  <1> QED
    BY <1>1, ProcessAllIs, ZenonT(30) DEF Processed

\* What Taken writes.
InBlocks(rest, r, done) == r = Len(rest) /\ done = (r \div 64) * 64

\* The fields after an update that takes all blocks there are.
LEMMA TakenIs ==
  ASSUME NEW ctx, NEW algorithm, NEW total, NEW buffer, NEW state,
         HasFields(ctx, algorithm, total, buffer, state),
         NEW length, NEW first, NEW rest, NEW left, NEW r, NEW done,
         InBlocks(rest, r, done)
  PROVE  HasFields(Taken(ctx, length, first, rest, left), algorithm,
                   total + length,
                   SubSeq(buffer, 1, left) \o SubSeq(rest, done + 1, r),
                   ProcessAll(algorithm, state,
                              first \o SubSeq(rest, 1, done)))
  <1> DEFINE b == SubSeq(buffer, 1, left) \o SubSeq(rest, done + 1, r)
             s == ProcessAll(algorithm, state, first \o SubSeq(rest, 1, done))
             t == total + length
  <1>1. Taken(ctx, length, first, rest, left)
          = [ctx EXCEPT !.total = t, !.state = s, !.buffer = b]
    BY Zenon DEF Taken, HasFields, InBlocks
  <1> HIDE DEF b, s, t
  <1>2. HasFields([ctx EXCEPT !.total = t, !.state = s, !.buffer = b],
                  algorithm, t, b, s)
    BY SMT DEF HasFields, Fields
  <1> QED
    BY <1>1, <1>2, Zenon DEF b, s, t

\* First is a block or nothing, or more of them; the rest is behind it.
LEMMA TakenWhole ==
  ASSUME NEW ctx, NEW algorithm, NEW all, IsContext(ctx, algorithm, all),
         NEW input \in Seq(Byte), NEW q \in Nat, q = Len(all) \div 64,
         NEW first, NEW rest, NEW g \in Nat, NEW r \in Nat,
         (64 * (q + g)) + r = Len(all) + Len(input),
         IsPart(first, all \o input, 64 * q, 64 * g),
         IsPart(rest, all \o input, 64 * (q + g), r)
  PROVE  IsContext(Taken(ctx, Len(input), first, rest, 0), algorithm,
                   all \o input)
  <1> DEFINE U == all \o input
             N == Len(all) + Len(input)
             k == r \div 64
             done == k * 64
             B == first \o SubSeq(rest, 1, done)
             tail == SubSeq(rest, done + 1, r)
             p == 64 * q
             f == 64 * g
             h == 64 * (q + g)
             z == 64 * (q + (g + k))
             y == 64 * (g + k)
             b == Rest(all)
             s == Through(algorithm, all, q)
  <1>1. all \in Seq(Byte) /\ HasFields(ctx, algorithm, Len(all), b, s)
    BY Zenon DEF IsContext
  <1>2. U \in Seq(Byte) /\ Len(U) = N /\ IsPart(all, U, 0, Len(all))
    BY <1>1, Fed, Zenon
  <1>3. /\ Len(all) \in Nat /\ Len(input) \in Nat
        /\ p \in Nat /\ f \in Nat /\ h \in Nat
    BY <1>1
  <1>4. /\ k \in Nat /\ done \in Nat /\ done <= r /\ r - done \in 0 .. 63
        /\ p + f = h /\ h + done = z /\ f + done = y /\ y \in Nat /\ z \in Nat
    OBVIOUS
  <1>5. h + r = N /\ N \in Nat /\ p <= Len(all)
    BY <1>3
  <1>6. IsPart(first, U, p, f) /\ IsPart(rest, U, h, r) /\ Len(rest) = r
    BY Zenon DEF IsPart
  <1>7. N \div 64 = q + (g + k) /\ z + (r - done) = N /\ z <= N
    <2>1. N = z + (r - done)
      BY <1>3, <1>4, <1>5
    <2> HIDE DEF N
    <2>2. N \div 64 = q + (g + k)
      <3> DEFINE w == q + (g + k)
                 x == r - done
      <3>1. w \in Nat /\ x \in 0 .. 63 /\ N = (64 * w) + x
        BY <1>4, <2>1
      <3> HIDE DEF w, x
      <3>2. N \div 64 = w
        BY <3>1
      <3> QED
        BY <3>2, Zenon DEF w
    <2> QED
      BY <1>4, <2>1, <2>2
  <1> HIDE DEF U, N, k, p, f, h, b, done
  <1>8. HasFields(Taken(ctx, Len(input), first, rest, 0), algorithm, N,
                  SubSeq(b, 1, 0) \o tail, ProcessAll(algorithm, s, B))
    <2>1. InBlocks(rest, r, done)
      BY <1>6, Zenon DEF done, k, InBlocks
    <2>2. HasFields(Taken(ctx, Len(input), first, rest, 0), algorithm,
                    Len(all) + Len(input), SubSeq(b, 1, 0) \o tail,
                    ProcessAll(algorithm, s, B))
      <3> HIDE DEF s
      <3> QED
        BY <1>1, <2>1, TakenIs, Zenon
    <2> HIDE DEF B, tail, s
    <2> QED
      BY <2>2, Zenon DEF N
  <1>9. /\ IsPart(SubSeq(rest, 1, done), U, h, done)
        /\ IsPart(tail, U, z, r - done)
    <2>1. IsPart(SubSeq(rest, 1, done), U, h, done)
      BY <1>3, <1>4, <1>6, FirstOfPart, Zenon
    <2>2. r <= r
      OBVIOUS
    <2>3. IsPart(tail, U, h + done, r - done)
      BY <1>3, <1>4, <1>6, <2>2, PartOfPart, Zenon
    <2> QED
      BY <1>4, <2>1, <2>3, Zenon
  <1>10. IsPart(B, U, p, y)
    <2>1. IsPart(SubSeq(rest, 1, done), U, p + f, done)
      BY <1>4, <1>9, Zenon
    <2>2. IsPart(B, U, p, f + done)
      BY <1>3, <1>4, <1>6, <2>1, PartsJoined, Zenon
    <2> QED
      BY <1>4, <2>2, Zenon
  <1> HIDE DEF B, tail
  <1>11. ProcessAll(algorithm, s, B) = Through(algorithm, U, q + (g + k))
    <2>1. 64 * q <= Len(all) /\ 64 * q <= Len(U)
      BY <1>1, <1>2, <1>3, <1>5, <1>4 DEF p
    <2>2. \A i \in 1 .. 64 * q : all[i] = U[i]
      <3>1. \A i \in 1 .. 64 * q : i \in 1 .. Len(all) /\ 0 + i = i
        BY <1>1, <2>1
      <3> QED
        BY <1>2, <3>1, ZenonT(30) DEF IsPart
    <2>3. s = Through(algorithm, U, q)
      BY <1>1, <1>2, <2>1, <2>2, ThroughSame, Zenon
    <2>4. g + k \in Nat /\ 64 * (q + (g + k)) <= Len(U)
      BY <1>2, <1>4, <1>7
    <2>5. IsPart(B, U, 64 * q, 64 * (g + k))
      BY <1>10, Zenon DEF p
    <2>6. Processed(algorithm, U, q, B, g + k)
      BY <1>2, <2>4, <2>5, PartProcessed, Zenon
    <2> HIDE DEF s
    <2> QED
      BY <2>3, <2>6, Zenon DEF Processed
  <1>12. SubSeq(b, 1, 0) \o tail = Rest(U)
    <2>1. SubSeq(b, 1, 0) = <<>>
      BY SMT
    <2>2. tail \in Seq(Byte)
      BY <1>9, Zenon DEF IsPart
    <2>3. <<>> \o tail = tail
      BY <2>2
    <2>4. z + (r - done) <= Len(U) /\ r - done \in Nat
      BY <1>2, <1>4, <1>5, <1>7
    <2>5. IsPiece(tail, U, z, r - done)
      BY <1>2, <1>4, <1>9, <2>4, PieceIs, Zenon
    <2>6. z = 64 * (N \div 64)
      BY <1>7, Zenon
    <2> HIDE DEF z
    <2> QED
      BY <1>2, <1>7, <2>1, <2>3, <2>5, <2>6, Zenon DEF IsPiece, Rest
  <1> HIDE DEF s
  <1> QED
    BY <1>2, <1>7, <1>8, <1>11, <1>12, Zenon DEF IsContext, U

\* A length in blocks and what is left of it.
Divides(n, q, l) ==
  q \in Nat /\ l \in 0 .. 63 /\ n = (64 * q) + l /\ n \div 64 = q /\ n % 64 = l

\* Every length is so divided.
LEMMA Divided ==
  ASSUME NEW n \in Nat
  PROVE  Divides(n, n \div 64, n % 64)
  <1>1. /\ n \div 64 \in Nat /\ n % 64 \in 0 .. 63
        /\ n = (64 * (n \div 64)) + (n % 64)
    OBVIOUS
  <1> QED
    BY <1>1, Zenon DEF Divides

\* The buffer of a context, as a part of what is fed.
LEMMA RestIs ==
  ASSUME NEW all \in Seq(Byte), NEW u, IsPart(all, u, 0, Len(all)),
         NEW q, NEW l, Divides(Len(all), q, l)
  PROVE  IsPart(Rest(all), u, 64 * q, l)
  <1> DEFINE p == 64 * q
             n == Len(all)
  <1>1. /\ n \in Nat /\ p \in Nat /\ p <= n /\ n <= n /\ n - p = l /\ 0 + p = p
        /\ 0 \in Nat
    BY DEF Divides
  <1>2. Rest(all) = SubSeq(all, p + 1, n)
    BY Zenon DEF Rest, Divides
  <1> HIDE DEF p, n
  <1>3. IsPart(all, u, 0, n)
    BY Zenon DEF n
  <1>4. IsPart(SubSeq(all, p + 1, n), u, 0 + p, n - p)
    BY <1>1, <1>3, PartOfPart, Zenon
  <1>5. IsPart(SubSeq(all, p + 1, n), u, p, l)
    BY <1>1, <1>4, Zenon
  <1> QED
    BY <1>2, <1>5, Zenon DEF p

\* There is too little for a block.
LEMMA TakenLess ==
  ASSUME NEW ctx, NEW algorithm, NEW all, IsContext(ctx, algorithm, all),
         NEW input \in Seq(Byte), NEW q, NEW l, Divides(Len(all), q, l),
         l + Len(input) < 64
  PROVE  IsContext(Taken(ctx, Len(input), <<>>, input, l), algorithm,
                   all \o input)
  <1> DEFINE U == all \o input
             m == Len(input)
             N == Len(all) + m
             p == 64 * q
             b == Rest(all)
             s == Through(algorithm, all, q)
             buffer == SubSeq(b, 1, l) \o SubSeq(input, 1, m)
             B == <<>> \o SubSeq(input, 1, 0)
  <1>1. all \in Seq(Byte) /\ HasFields(ctx, algorithm, Len(all), b, s)
    BY Zenon DEF IsContext, Divides
  <1>2. U \in Seq(Byte) /\ Len(U) = N /\ IsPart(all, U, 0, Len(all))
        /\ IsPart(input, U, Len(all), m)
    BY <1>1, Fed, Zenon
  <1>3. /\ Len(all) \in Nat /\ m \in Nat /\ q \in Nat /\ l \in Nat /\ p \in Nat
        /\ Len(all) = p + l /\ N = p + (l + m) /\ N \div 64 = q
        /\ l <= l /\ m <= m /\ p + (l + m) <= N /\ l + m \in Nat
    <2>1. Len(all) \in Nat /\ m \in Nat /\ q \in Nat /\ l \in Nat /\ p \in Nat
          /\ Len(all) = p + l
      BY <1>1 DEF Divides
    <2>2. N = p + (l + m) /\ l + m \in 0 .. 63
      <3>1. l + m < 64
        OBVIOUS
      <3> HIDE DEF p, m
      <3> QED
        BY <2>1, <3>1
    <2> DEFINE x == l + m
    <2>3. x \in 0 .. 63 /\ N = (64 * q) + x /\ x \in Nat
      <3> HIDE DEF N, m
      <3>1. l + m \in Nat
        BY <2>1
      <3> QED
        BY <2>2, <3>1, Zenon DEF p
    <2> HIDE DEF N, x
    <2>4. N \div 64 = q
      BY <2>1, <2>3
    <2> QED
      BY <2>1, <2>2, <2>4
  <1>4. InBlocks(input, m, 0)
    <2>1. m \div 64 = 0
      BY <1>3
    <2>2. (m \div 64) * 64 = 0
      BY <2>1
    <2> QED
      BY <2>2, Zenon DEF InBlocks
  <1> HIDE DEF U, N, p, b, s
  <1>5. HasFields(Taken(ctx, m, <<>>, input, l), algorithm, N, buffer,
                  ProcessAll(algorithm, s, B))
    <2>1. HasFields(Taken(ctx, m, <<>>, input, l), algorithm, Len(all) + m,
                    SubSeq(b, 1, l) \o SubSeq(input, 0 + 1, m),
                    ProcessAll(algorithm, s, B))
      <3> HIDE DEF m
      <3> QED
        BY <1>1, <1>4, TakenIs, Zenon
    <2>2. 0 + 1 = 1
      OBVIOUS
    <2> HIDE DEF B
    <2> QED
      BY <2>1, <2>2, Zenon DEF N
  <1>6. IsPart(b, U, p, l)
    BY <1>1, <1>2, RestIs, Zenon DEF b, p
  <1> HIDE DEF m
  <1>7. IsPart(buffer, U, p, l + m)
    <2>1. IsPart(SubSeq(b, 1, l), U, p, l)
      BY <1>3, <1>6, FirstOfPart, Zenon
    <2>2. IsPart(SubSeq(input, 1, m), U, p + l, m)
      BY <1>2, <1>3, FirstOfPart, Zenon
    <2> QED
      BY <1>3, <2>1, <2>2, PartsJoined, Zenon
  <1> HIDE DEF buffer
  <1>8. buffer = Rest(U)
    <2>1. IsPiece(buffer, U, p, l + m)
      BY <1>2, <1>3, <1>7, PieceIs, Zenon
    <2>2. buffer = SubSeq(U, p + 1, N)
      BY <1>3, <2>1, Zenon DEF IsPiece
    <2> QED
      BY <1>2, <1>3, <2>2, Zenon DEF Rest, p
  <1>9. ProcessAll(algorithm, s, B) = Through(algorithm, U, q)
    <2>1. B = <<>>
      <3>1. SubSeq(input, 1, 0) = <<>>
        BY SMT
      <3>2. <<>> \o <<>> = <<>>
        BY SMT
      <3> QED
        BY <3>1, <3>2, Zenon
    <2> HIDE DEF B
    <2>2. 64 * q <= Len(all) /\ 64 * q <= Len(U) /\ 64 * (q + 0) <= Len(U)
          /\ 0 \in Nat /\ q + 0 = q /\ 64 * 0 = 0
      BY <1>2, <1>3 DEF p
    <2>3. \A i \in 1 .. 64 * q : all[i] = U[i]
      <3>1. \A i \in 1 .. 64 * q : i \in 1 .. Len(all) /\ 0 + i = i
        BY <1>3, <2>2
      <3> QED
        BY <1>2, <3>1, Zenon DEF IsPart
    <2>4. s = Through(algorithm, U, q)
      BY <1>1, <1>2, <1>3, <2>2, <2>3, ThroughSame, ZenonT(30) DEF s
    <2>5. IsPart(B, U, 64 * q, 64 * 0)
      BY <2>1, <2>2, NoPart, Zenon
    <2>6. Processed(algorithm, U, q, B, 0)
      BY <1>2, <1>3, <2>2, <2>5, PartProcessed, Zenon
    <2> QED
      BY <2>2, <2>4, <2>6, Zenon DEF Processed
  <1> HIDE DEF B
  <1> QED
    BY <1>2, <1>3, <1>5, <1>8, <1>9, Zenon DEF IsContext, U, m

\* sha1_update and md5_update.
LEMMA UpdateIs ==
  ASSUME NEW ctx, NEW algorithm, NEW all, IsContext(ctx, algorithm, all),
         NEW input \in Seq(Byte)
  PROVE  IsContext(Update(ctx, input), algorithm, all \o input)
  <1> DEFINE U == all \o input
             n == Len(all)
             m == Len(input)
             q == n \div 64
             l == n % 64
             fill == 64 - l
             b == Rest(all)
             s == Through(algorithm, all, q)
  <1>1. all \in Seq(Byte) /\ HasFields(ctx, algorithm, n, b, s)
    BY Zenon DEF IsContext
  <1>2. U \in Seq(Byte) /\ Len(U) = n + m /\ IsPart(all, U, 0, n)
        /\ IsPart(input, U, n, m)
    BY <1>1, Fed, Zenon
  <1>3. n \in Nat /\ m \in Nat
    BY <1>1
  <1> HIDE DEF n, m
  <1>4. Divides(n, q, l)
    BY <1>3, Divided, Zenon
  <1> HIDE DEF q, l
  <1>5. q \in Nat /\ l \in Nat /\ l < 64 /\ n = (64 * q) + l
    BY <1>4 DEF Divides
  <1>6. ctx.total % 64 = l /\ ctx.buffer = b /\ q = Len(all) \div 64
    BY <1>1, Zenon DEF HasFields, l, q, n
  <1>7. IsPart(b, U, 64 * q, l)
    <2> HIDE DEF U
    <2> QED
      BY <1>1, <1>2, <1>4, RestIs, Zenon DEF n
  <1> HIDE DEF U, b, s
  <1>8. CASE l > 0 /\ m >= fill
    <2> DEFINE first == SubSeq(b, 1, l) \o SubSeq(input, 1, fill)
               rest == SubSeq(input, fill + 1, m)
    <2>1. Update(ctx, input) = Taken(ctx, m, first, rest, 0)
      BY <1>6, <1>8, Zenon DEF Update, m
    <2>2. /\ fill \in Nat /\ fill <= m /\ l <= l /\ m <= m /\ l + fill = 64
          /\ n + fill = 64 * (q + 1) /\ 64 * 1 = 64
          /\ m - fill \in Nat /\ (64 * (q + 1)) + (m - fill) = n + m
          /\ 64 * q \in Nat /\ (64 * q) + l = n /\ 1 \in Nat
      BY <1>3, <1>5, <1>8
    <2> HIDE DEF fill
    <2>3. IsPart(SubSeq(b, 1, l), U, 64 * q, l)
      BY <1>5, <1>7, <2>2, FirstOfPart, Zenon
    <2>4. IsPart(SubSeq(input, 1, fill), U, n, fill)
      BY <1>2, <1>3, <2>2, FirstOfPart, Zenon
    <2>5. IsPart(first, U, 64 * q, l + fill)
      <3>1. IsPart(SubSeq(input, 1, fill), U, (64 * q) + l, fill)
        BY <2>2, <2>4, Zenon
      <3> QED
        BY <1>5, <2>2, <2>3, <3>1, PartsJoined, Zenon
    <2>6. IsPart(rest, U, n + fill, m - fill)
      BY <1>2, <1>3, <2>2, PartOfPart, Zenon
    <2> HIDE DEF first, rest
    <2>7. IsPart(first, U, 64 * q, 64 * 1)
      BY <2>2, <2>5, Zenon
    <2>8. IsPart(rest, U, 64 * (q + 1), m - fill)
      BY <2>2, <2>6, Zenon
    <2>9. IsContext(Taken(ctx, m, first, rest, 0), algorithm, U)
      BY <1>5, <1>6, <2>2, <2>7, <2>8, TakenWhole, Zenon DEF U, n, m
    <2> QED
      BY <2>1, <2>9, Zenon DEF U
  <1>9. CASE l = 0
    <2>1. Update(ctx, input) = Taken(ctx, m, <<>>, input, 0)
      <3>1. ~(l > 0)
        BY <1>9
      <3> QED
        BY <1>6, <1>9, <3>1, Zenon DEF Update, m
    <2>2. /\ (64 * (q + 0)) + m = n + m /\ n = 64 * (q + 0) /\ 0 \in Nat
          /\ 64 * 0 = 0
      BY <1>3, <1>5, <1>9
    <2>3. IsPart(<<>>, U, 64 * q, 64 * 0)
      BY <2>2, NoPart, Zenon
    <2>4. IsPart(input, U, 64 * (q + 0), m)
      BY <1>2, <2>2, Zenon
    <2>5. IsContext(Taken(ctx, m, <<>>, input, 0), algorithm, U)
      BY <1>3, <1>5, <1>6, <2>2, <2>3, <2>4, TakenWhole, Zenon DEF U, n, m
    <2> QED
      BY <2>1, <2>5, Zenon DEF U
  <1>10. CASE l > 0 /\ ~(m >= fill)
    <2>1. Update(ctx, input) = Taken(ctx, m, <<>>, input, l)
      BY <1>6, <1>10, Zenon DEF Update, m
    <2>2. l + m < 64
      BY <1>3, <1>5, <1>10
    <2>3. IsContext(Taken(ctx, m, <<>>, input, l), algorithm, U)
      BY <1>4, <2>2, TakenLess, Zenon DEF U, n, m
    <2> QED
      BY <2>1, <2>3, Zenon DEF U
  <1> QED
    BY <1>5, <1>8, <1>9, <1>10

-----------------------------------------------------------------------------
(* The finish.                                                             *)

\* Padding: 0x80, and zeros up to the last eight bytes of a block.
LEMMA PaddingIs ==
  ASSUME NEW n \in Nat, NEW zeros, zeros = (119 - (n % 64)) % 64
  PROVE  /\ Padding(n % 64) \in Seq(Byte)
         /\ [i \in 1 .. zeros |-> 0] \in Seq(Byte)
         /\ <<128>> \in Seq(Byte)
         /\ <<128>> \o [i \in 1 .. zeros |-> 0] = Padding(n % 64)
  <1> DEFINE l == n % 64
             m == IF l < 56 THEN 56 - l ELSE 120 - l
             s == [i \in 1 .. zeros |-> 0]
             t == <<128>>
             u == [i \in 1 .. m |-> IF i = 1 THEN 128 ELSE 0]
  <1>1. l \in 0 .. 63
    OBVIOUS
  <1> HIDE DEF l
  <1>2. zeros \in Nat /\ m = 1 + zeros /\ m \in Nat
    <2>1. zeros = (119 - l) % 64
      BY DEF l
    <2>2. CASE l < 56
      <3>1. zeros = 55 - l
        BY <1>1, <2>1, <2>2
      <3> QED
        BY <1>1, <2>2, <3>1
    <2>3. CASE ~(l < 56)
      <3>1. zeros = 119 - l
        BY <1>1, <2>1, <2>3
      <3> QED
        BY <1>1, <2>3, <3>1
    <2> QED
      BY <2>2, <2>3
  <1> HIDE DEF m
  <1>3. 0 \in Byte /\ 128 \in Byte
    BY SMT DEF Byte
  <1>4. s \in Seq(Byte) /\ Len(s) = zeros /\ \A i \in 1 .. zeros : s[i] = 0
    BY <1>2, <1>3
  <1>5. t \in Seq(Byte) /\ Len(t) = 1 /\ t[1] = 128
    BY <1>3
  <1>6. u \in Seq(Byte) /\ Len(u) = m
        /\ \A i \in 1 .. m : u[i] = IF i = 1 THEN 128 ELSE 0
    BY <1>2, <1>3
  <1>7. Padding(l) = u
    BY Zenon DEF Padding, m
  <1> HIDE DEF s, t, u
  <1>8. IsJoin(Byte, t \o s, t, s)
    BY <1>4, <1>5, JoinIs, Zenon
  <1> DEFINE v == t \o s
  <1> HIDE DEF v
  <1>9. /\ v \in Seq(Byte) /\ Len(v) = 1 + zeros /\ v[1] = t[1]
        /\ \A i \in 1 .. zeros : v[1 + i] = s[i]
    <2>1. 1 \in 1 .. 1
      OBVIOUS
    <2>2. /\ v \in Seq(Byte) /\ Len(v) = Len(t) + Len(s)
          /\ \A i \in 1 .. Len(t) : v[i] = t[i]
          /\ \A i \in 1 .. Len(s) : v[Len(t) + i] = s[i]
      BY <1>8, Zenon DEF IsJoin, v
    <2>3. v[1] = t[1]
      BY <1>5, <2>1, <2>2, Zenon
    <2> QED
      BY <1>4, <1>5, <2>2, <2>3, Zenon
  <1>10. \A i \in 1 .. m : v[i] = u[i]
    <2> TAKE i \in 1 .. m
    <2>1. CASE i = 1
      BY <1>5, <1>6, <1>9, <2>1
    <2>2. CASE i # 1
      <3> DEFINE k == i - 1
      <3>1. k \in 1 .. zeros /\ i = 1 + k
        BY <1>2, <2>2
      <3> HIDE DEF k
      <3>2. v[i] = 0
        BY <1>4, <1>9, <3>1, Zenon
      <3> QED
        BY <1>6, <2>2, <3>2
    <2> QED
      BY <2>1, <2>2
  <1>11. v = u
    <2>1. Len(v) = Len(u) /\ \A i \in 1 .. Len(v) : v[i] = u[i]
      BY <1>2, <1>6, <1>9, <1>10, Zenon
    <2> QED
      BY <1>6, <1>9, <2>1, SameSequence, Zenon
  <1> QED
    BY <1>4, <1>5, <1>6, <1>7, <1>11, ZenonT(30) DEF s, t, v, l

\* The four bytes of a word.
LEMMA PutIs ==
  ASSUME NEW w \in Word
  PROVE  PutBE(w) \in Seq(Byte) /\ PutLE(w) \in Seq(Byte)
         /\ Len(PutBE(w)) = 4 /\ Len(PutLE(w)) = 4
  <1> DEFINE x == w[1]  y == w[2]
             a == x \div 256  b == x % 256  c == y \div 256  d == y % 256
             s == <<a, b, c, d>>
  <1>1. x \in Nat /\ x < Top /\ y \in Nat /\ y < Top
    BY WordParts, HalfIs, Zenon
  <1>2. PutBE(w) = s
    BY Zenon DEF PutBE
  <1> HIDE DEF x, y
  <1>3. a \in Byte /\ b \in Byte /\ c \in Byte /\ d \in Byte
    BY <1>1, SMT DEF Top, Byte
  <1> HIDE DEF a, b, c, d
  <1>4. s \in Seq(Byte) /\ Len(s) = 4
    BY <1>3
  <1>5. Reverse(s) = [i \in 1 .. 4 |-> s[(4 - i) + 1]]
    BY <1>4, Zenon DEF Reverse
  <1>6. \A i \in 1 .. 4 : s[(4 - i) + 1] \in Byte
    BY <1>3
  <1> HIDE DEF s
  <1>7. Reverse(s) \in Seq(Byte) /\ Len(Reverse(s)) = 4
    BY <1>5, <1>6
  <1> QED
    BY <1>2, <1>4, <1>7, Zenon DEF PutLE

\* Backwards: what comes last comes first.
LEMMA ReverseIs ==
  ASSUME NEW Elem, NEW s \in Seq(Elem)
  PROVE  /\ Reverse(s) \in Seq(Elem) /\ Len(Reverse(s)) = Len(s)
         /\ \A i \in 1 .. Len(s) : Reverse(s)[i] = s[(Len(s) - i) + 1]
  <1>1. Reverse(s) = [i \in 1 .. Len(s) |-> s[(Len(s) - i) + 1]]
    BY Zenon DEF Reverse
  <1>2. \A i \in 1 .. Len(s) : (Len(s) - i) + 1 \in 1 .. Len(s)
    OBVIOUS
  <1>3. \A i \in 1 .. Len(s) : s[(Len(s) - i) + 1] \in Elem
    BY <1>2, ElementOf, Zenon
  <1>4. Len(s) \in Nat
    OBVIOUS
  <1> QED
    BY <1>1, <1>3, <1>4

\* Two sequences backwards.
LEMMA ReverseJoin ==
  ASSUME NEW Elem, NEW s \in Seq(Elem), NEW t \in Seq(Elem)
  PROVE  Reverse(s \o t) = Reverse(t) \o Reverse(s)
  <1> DEFINE n == Len(s)  m == Len(t)
             u == s \o t  v == Reverse(t) \o Reverse(s)
             r == Reverse(u)  x == Reverse(s)  y == Reverse(t)
  <1>1. n \in Nat /\ m \in Nat
    OBVIOUS
  <1>2. IsJoin(Elem, u, s, t)
    BY JoinIs, Zenon
  <1> HIDE DEF u
  <1>3. u \in Seq(Elem) /\ Len(u) = n + m
        /\ (\A i \in 1 .. n : u[i] = s[i]) /\ \A i \in 1 .. m : u[n + i] = t[i]
    BY <1>2, Zenon DEF IsJoin
  <1>4. /\ x \in Seq(Elem) /\ Len(x) = n
        /\ \A i \in 1 .. n : x[i] = s[(n - i) + 1]
    BY ReverseIs, Zenon
  <1>5. /\ y \in Seq(Elem) /\ Len(y) = m
        /\ \A i \in 1 .. m : y[i] = t[(m - i) + 1]
    BY ReverseIs, Zenon
  <1>6. /\ r \in Seq(Elem) /\ Len(r) = n + m
        /\ \A i \in 1 .. n + m : r[i] = u[((n + m) - i) + 1]
    <2>1. /\ r \in Seq(Elem) /\ Len(r) = Len(u)
          /\ \A i \in 1 .. Len(u) : r[i] = u[(Len(u) - i) + 1]
      BY <1>3, ReverseIs, Zenon
    <2> HIDE DEF r
    <2> QED
      BY <1>3, <2>1, Zenon
  <1>7. IsJoin(Elem, v, y, x)
    BY <1>4, <1>5, JoinIs, Zenon
  <1> HIDE DEF v, r, x, y, n, m
  <1>8. v \in Seq(Elem) /\ Len(v) = m + n
        /\ (\A i \in 1 .. m : v[i] = y[i]) /\ \A i \in 1 .. n : v[m + i] = x[i]
    BY <1>4, <1>5, <1>7, Zenon DEF IsJoin
  <1>9. ASSUME NEW i \in 1 .. n + m PROVE r[i] = v[i]
    <2>1. CASE i <= m
      <3> DEFINE k == (m - i) + 1
      <3>1. i \in 1 .. m /\ k \in 1 .. m /\ ((n + m) - i) + 1 = n + k
        BY <1>1, <2>1
      <3>2. v[i] = t[k]
        BY <1>5, <1>8, <3>1, Zenon
      <3> HIDE DEF k
      <3>3. r[i] = t[k]
        BY <1>3, <1>6, <3>1, Zenon
      <3> QED
        BY <3>2, <3>3
    <2>2. CASE i > m
      <3> DEFINE k == i - m
                 l == (n - k) + 1
      <3>1. k \in 1 .. n /\ i = m + k /\ l \in 1 .. n /\ ((n + m) - i) + 1 = l
        BY <1>1, <2>2
      <3>2. v[i] = x[k]
        BY <1>8, <3>1, Zenon
      <3>3. x[k] = s[l]
        BY <1>4, <3>1, Zenon
      <3> HIDE DEF k, l
      <3>4. r[i] = s[l]
        BY <1>3, <1>6, <3>1, Zenon
      <3> QED
        BY <3>2, <3>3, <3>4
    <2> QED
      BY <1>1, <2>1, <2>2
  <1>10. Len(r) = Len(v) /\ \A i \in 1 .. Len(r) : r[i] = v[i]
    <2>1. n + m = m + n
      BY <1>1
    <2> QED
      BY <1>6, <1>8, <1>9, <2>1, Zenon
  <1>11. r = v
    <2>1. r \in Seq(Elem) /\ v \in Seq(Elem)
      BY <1>6, <1>8, Zenon
    <2> QED
      BY <1>10, <2>1, SameSequence, Zenon
  <1> QED
    BY <1>11, Zenon DEF r, v, u, x, y

\* The length in bits: two words.
LEMMA LengthWords ==
  ASSUME NEW n \in Nat
  PROVE  /\ High(n) \in Word /\ Low(n) \in Word
         /\ InBits(n) = PutBE(High(n)) \o PutBE(Low(n))
  <1> DEFINE h0 == n * 8
             h1 == h0 \div 65536
             h2 == h1 \div 65536
             h3 == h2 \div 65536
             a == n \div 8192  b == n % 8192
             c == n \div 536870912
  <1>1. a \in Nat /\ b \in Nat /\ b < 8192 /\ n = (8192 * a) + b
    BY SMT
  <1>2. c = a \div 65536
    <2> DEFINE d == a \div 65536  e == a % 65536
    <2>1. d \in Nat /\ e \in Nat /\ e < 65536 /\ a = (65536 * d) + e
      <3> HIDE DEF a
      <3> QED
        BY <1>1, SMT
    <2> HIDE DEF a, b, d, e
    <2>2. n = (536870912 * d) + ((8192 * e) + b)
          /\ (8192 * e) + b \in Nat /\ (8192 * e) + b < 536870912
      BY <1>1, <2>1, SMT
    <2>3. c = d
      BY <2>1, <2>2, SMT
    <2> QED
      BY <2>3, SMT DEF d
  <1> HIDE DEF a, b, c
  <1>3. h1 = a /\ h0 % 65536 = b * 8 /\ b * 8 \in Nat /\ b * 8 < 65536
    <2>1. h0 = (65536 * a) + (8 * b)
      BY <1>1, SMT
    <2> HIDE DEF h0
    <2> QED
      BY <1>1, <2>1, SMT
  <1> HIDE DEF h0, h1
  <1>4. h2 = c
    BY <1>2, <1>3, SMT
  <1>5. c \in Nat /\ c \div 65536 \in Nat
    <2>1. c \in Nat
      BY <1>1, <1>2, SMT
    <2> QED
      BY <2>1, SMT
  <1>6. High(n) = <<(c \div 65536) % 65536, c % 65536>>
    BY SMT DEF High, c
  <1>7. Low(n) = <<a % 65536, b * 8>>
    BY SMT DEF Low, a, b
  <1> DEFINE high == <<h3 % 65536, h2 % 65536>>
             low == <<h1 % 65536, h0 % 65536>>
  <1>8. InBits(n) = PutBE(high) \o PutBE(low)
    BY SMT DEF InBits, h0, h1
  <1>9. h3 % 65536 = (c \div 65536) % 65536 /\ h2 % 65536 = c % 65536
        /\ h1 % 65536 = a % 65536 /\ h0 % 65536 = b * 8
    BY <1>3, <1>4, SMT
  <1>10. InBits(n) = PutBE(High(n)) \o PutBE(Low(n))
    <2>1. high = High(n) /\ low = Low(n)
      BY <1>6, <1>7, <1>9, SMT
    <2> HIDE DEF high, low
    <2> QED
      BY <1>8, <2>1, SMT
  <1> DEFINE p == (c \div 65536) % 65536  q == c % 65536
             r == a % 65536  t == b * 8
  <1>11. /\ p \in Nat /\ p < Top /\ q \in Nat /\ q < Top
         /\ r \in Nat /\ r < Top /\ t \in Nat /\ t < Top
    BY <1>1, <1>3, <1>5, SMT DEF Top
  <1> HIDE DEF p, q, r, t
  <1>12. p \in Half /\ q \in Half /\ r \in Half /\ t \in Half
    BY <1>11, IsHalf, Zenon
  <1>13. <<p, q>> \in Word /\ <<r, t>> \in Word
    BY <1>12, PartsMakeWord, Zenon
  <1>14. High(n) = <<p, q>> /\ Low(n) = <<r, t>>
    BY <1>6, <1>7, SMT DEF p, q, r, t
  <1>15. High(n) \in Word /\ Low(n) \in Word
    BY <1>13, <1>14, SMT
  <1> QED
    BY <1>10, <1>15, SMT

\* msglen: the standard's, in the order of the algorithm.
LEMMA LengthIs ==
  ASSUME NEW algorithm, NEW n \in Nat
  PROVE  /\ Length(algorithm, n) \in Seq(Byte)
         /\ Length(algorithm, n) =
               IF algorithm = "sha1" THEN InBits(n) ELSE Reverse(InBits(n))
  <1> DEFINE h == High(n)  l == Low(n)
  <1>1. h \in Word /\ l \in Word /\ InBits(n) = PutBE(h) \o PutBE(l)
    BY LengthWords, Zenon
  <1> HIDE DEF h, l
  <1>2. /\ PutBE(h) \in Seq(Byte) /\ PutLE(h) \in Seq(Byte)
        /\ PutBE(l) \in Seq(Byte) /\ PutLE(l) \in Seq(Byte)
    BY <1>1, PutIs, Zenon
  <1>3. CASE algorithm = "sha1"
    <2>1. Length(algorithm, n) = PutBE(h) \o PutBE(l)
      BY <1>3, Zenon DEF Length, h, l
    <2>2. PutBE(h) \o PutBE(l) \in Seq(Byte)
      BY <1>2
    <2> QED
      BY <1>1, <1>3, <2>1, <2>2, Zenon
  <1>4. CASE algorithm # "sha1"
    <2>1. Length(algorithm, n) = PutLE(l) \o PutLE(h)
      BY <1>4, Zenon DEF Length, h, l
    <2>2. PutLE(l) \o PutLE(h) \in Seq(Byte)
      BY <1>2
    <2>3. Reverse(PutBE(h) \o PutBE(l)) = PutLE(l) \o PutLE(h)
      BY <1>2, ReverseJoin, Zenon DEF PutLE
    <2> QED
      BY <1>1, <1>4, <2>1, <2>2, <2>3, Zenon
  <1> QED
    BY <1>3, <1>4

\* The bytes of a state.
LEMMA OutputIs ==
  ASSUME NEW algorithm, NEW state \in States(algorithm)
  PROVE  Output(algorithm, state) \in Seq(Byte)
  <1> DEFINE n == IF algorithm = "sha1" THEN 5 ELSE 4
             P(w) == IF algorithm = "sha1" THEN PutBE(w) ELSE PutLE(w)
             seqs == [i \in 1 .. n |-> P(state[i])]
  <1>1. state \in [1 .. n -> Word]
    BY Zenon DEF States
  <1>2. n \in Nat /\ n # 0
    OBVIOUS
  <1> HIDE DEF n
  <1>3. \A i \in 1 .. n : P(state[i]) \in Seq(Byte)
    <2>1. \A i \in 1 .. n : state[i] \in Word
      BY <1>1, Zenon
    <2> QED
      BY <2>1, PutIs, Zenon
  <1>4. Output(algorithm, state) = FlattenSeq(seqs)
    BY <1>1, Zenon DEF Output
  <1> HIDE DEF P
  <1>5. seqs \in Seq(Seq(Byte)) /\ Len(seqs) = n
        /\ \A i \in 1 .. n : seqs[i] \in Seq(Byte)
    BY <1>2, <1>3
  <1> HIDE DEF seqs
  <1>6. PICK f : /\ FlattenSeq(seqs) = f[n] /\ f[1] = seqs[1]
                 /\ \A i \in 2 .. n : f[i] = f[i - 1] \o seqs[i]
    BY <1>2, <1>5, FlattenSteps, Zenon
  <1> DEFINE T == {i \in 0 .. n : i = 0 \/ f[i] \in Seq(Byte)}
  <1>7. 0 \in T
    BY <1>2
  <1>8. ASSUME NEW i \in 1 .. n, i - 1 \in T PROVE i \in T
    <2>1. i \in 0 .. n
      OBVIOUS
    <2>2. CASE i = 1
      <3>1. f[1] \in Seq(Byte)
        BY <1>5, <1>6, <2>2, Zenon
      <3> QED
        BY <2>1, <2>2, <3>1, Zenon
    <2>3. CASE i # 1
      <3>1. i \in 2 .. n /\ i - 1 # 0
        BY <2>3
      <3>2. f[i - 1] \in Seq(Byte) /\ seqs[i] \in Seq(Byte)
        BY <1>5, <1>8, <3>1, Zenon
      <3> DEFINE x == f[i - 1]  y == seqs[i]
      <3>3. f[i] = x \o y
        BY <1>6, <3>1, Zenon
      <3> HIDE DEF x, y
      <3>4. x \in Seq(Byte) /\ y \in Seq(Byte)
        BY <3>2, Zenon DEF x, y
      <3>5. x \o y \in Seq(Byte)
        BY <3>4
      <3> QED
        BY <2>1, <3>3, <3>5, Zenon
    <2> QED
      BY <2>2, <2>3
  <1>9. n \in 0 .. n
    BY <1>2
  <1> HIDE DEF T
  <1>10. n \in T
    BY <1>2, <1>7, <1>8, <1>9, StepByStep, Zenon
  <1> QED
    BY <1>2, <1>4, <1>6, <1>10, Zenon DEF T

\* The message with its length, and its digest.
LEMMA StandardIs ==
  ASSUME NEW algorithm, NEW all \in Seq(Byte)
  PROVE  /\ WithLength(algorithm, all) = (all \o Padding(Len(all) % 64))
                                         \o Length(algorithm, Len(all))
         /\ WithLength(algorithm, all) \in Seq(Byte)
         /\ Standard(algorithm, all)
              = Output(algorithm,
                       Through(algorithm, WithLength(algorithm, all),
                               Len(WithLength(algorithm, all)) \div 64))
         /\ Standard(algorithm, all) \in Seq(Byte)
  <1> DEFINE n == Len(all)
             zeros == (119 - (n % 64)) % 64
             z == [i \in 1 .. zeros |-> 0]
             pad == Padding(n % 64)
             bits == InBits(n)
             length == IF algorithm = "sha1" THEN bits ELSE Reverse(bits)
             W == WithLength(algorithm, all)
             m == Len(W) \div 64
  <1>1. n \in Nat
    OBVIOUS
  <1>2. /\ pad \in Seq(Byte) /\ z \in Seq(Byte) /\ <<128>> \in Seq(Byte)
        /\ <<128>> \o z = pad
    <2> HIDE DEF n
    <2> QED
      BY <1>1, PaddingIs, Zenon
  <1>3. length \in Seq(Byte) /\ length = Length(algorithm, n)
    <2> HIDE DEF n
    <2> QED
      BY <1>1, LengthIs, Zenon
  <1>4. W = ((all \o <<128>>) \o z) \o length
    BY Zenon DEF WithLength
  <1> HIDE DEF z, pad, length, W
  <1>5. (all \o <<128>>) \o z = all \o pad
    <2> DEFINE one == <<128>>
    <2>1. one \in Seq(Byte) /\ z \in Seq(Byte)
      BY <1>2, Zenon
    <2> HIDE DEF one
    <2>2. (all \o one) \o z = all \o (one \o z)
      BY <2>1, ConcatAssociative
    <2> QED
      BY <1>2, <2>2, Zenon DEF one
  <1>6. W = (all \o pad) \o length /\ all \o pad \in Seq(Byte)
    <2>1. all \o pad \in Seq(Byte)
      BY <1>2
    <2> QED
      BY <1>4, <1>5, <2>1, Zenon
  <1>7. W \in Seq(Byte)
    <2> DEFINE x == all \o pad
    <2>1. x \in Seq(Byte)
      BY <1>6, Zenon
    <2> HIDE DEF x
    <2>2. x \o length \in Seq(Byte)
      BY <1>3, <2>1
    <2> QED
      BY <1>6, <2>2, Zenon DEF x
  <1>8. m \in Nat /\ 64 * m <= Len(W)
    <2>1. Len(W) \in Nat
      BY <1>7
    <2> QED
      BY <2>1
  <1>9. Standard(algorithm, all) = Output(algorithm, Through(algorithm, W, m))
    BY Zenon DEF Standard, Blocks, Through, StandardBlockRun, BlockAt, W
  <1> HIDE DEF m
  <1>10. Through(algorithm, W, m) \in States(algorithm)
    BY <1>7, <1>8, ThroughIsState, Zenon
  <1>11. Standard(algorithm, all) \in Seq(Byte)
    BY <1>9, <1>10, OutputIs, Zenon
  <1> QED
    BY <1>3, <1>6, <1>7, <1>9, <1>11, Zenon DEF W, m, pad, n

\* sha1_finish and md5_finish.
LEMMA FinishIs ==
  ASSUME NEW ctx, NEW algorithm, NEW all, IsContext(ctx, algorithm, all)
  PROVE  Finish(ctx) = Standard(algorithm, all)
  <1> DEFINE n == Len(all)
             pad == Padding(n % 64)
             length == Length(algorithm, n)
             W == WithLength(algorithm, all)
             c1 == Update(ctx, pad)
             c2 == Update(c1, length)
  <1>1. all \in Seq(Byte) /\ ctx.algorithm = algorithm /\ ctx.total = n
    BY Zenon DEF IsContext, HasFields
  <1>2. n \in Nat
    BY <1>1
  <1>3. pad \in Seq(Byte)
    <2> HIDE DEF n
    <2> QED
      BY <1>2, PaddingIs, Zenon
  <1>4. length \in Seq(Byte)
    <2> HIDE DEF n
    <2> QED
      BY <1>2, LengthIs, Zenon
  <1>5. W = (all \o pad) \o length
    BY <1>1, StandardIs, Zenon
  <1>6. Standard(algorithm, all)
          = Output(algorithm, Through(algorithm, W, Len(W) \div 64))
    BY <1>1, StandardIs, Zenon
  <1>7. Finish(ctx) = Output(algorithm, c2.state)
    BY <1>1, Zenon DEF Finish, Apply
  <1> HIDE DEF n, pad, length, W
  <1>8. IsContext(c1, algorithm, all \o pad)
    BY <1>3, UpdateIs, Zenon
  <1> HIDE DEF c1
  <1>9. IsContext(c2, algorithm, (all \o pad) \o length)
    BY <1>4, <1>8, UpdateIs, Zenon
  <1>10. c2.state = Through(algorithm, W, Len(W) \div 64)
    BY <1>5, <1>9, Zenon DEF IsContext, HasFields
  <1> QED
    BY <1>6, <1>7, <1>10, Zenon

\* sha1() and md5().
LEMMA DigestIs ==
  ASSUME NEW algorithm, NEW input \in Seq(Byte)
  PROVE  Digest(algorithm, input) = Standard(algorithm, input)
  <1> DEFINE c == Update(Starts(algorithm), input)
  <1>1. IsContext(c, algorithm, <<>> \o input)
    BY StartsContext, UpdateIs, Zenon
  <1>2. <<>> \o input = input
    OBVIOUS
  <1>3. Digest(algorithm, input) = Finish(c)
    BY Zenon DEF Digest, Apply
  <1> HIDE DEF c
  <1>4. IsContext(c, algorithm, input)
    BY <1>1, <1>2, Zenon
  <1> QED
    BY <1>3, <1>4, FinishIs, Zenon

-----------------------------------------------------------------------------
(* HMAC.                                                                   *)

\* ^ of bytes.
LEMMA XorOfBytes ==
  ASSUME NEW a \in Byte, NEW b \in Byte
  PROVE  Xor8(a, b) = Xor8(b, a) /\ Xor8(a, b) \in Byte
  <1> DEFINE p == a \div 16  q == b \div 16  r == a % 16  t == b % 16
  <1>1. p \in Four /\ q \in Four /\ r \in Four /\ t \in Four
    BY SMT DEF Byte, Four
  <1>2. /\ Xor8(a, b) = (16 * Xor4[p][q]) + Xor4[r][t]
        /\ Xor8(b, a) = (16 * Xor4[q][p]) + Xor4[t][r]
    BY Zenon DEF Xor8, On8
  <1> HIDE DEF p, q, r, t
  <1>3. Xor4[p][q] = Xor4[q][p] /\ Xor4[r][t] = Xor4[t][r]
    BY <1>1, FourIdentities, Zenon
  <1> DEFINE x == Xor4[p][q]  y == Xor4[r][t]
  <1>4. x \in Four /\ y \in Four
    BY <1>1, TablesInRange, Zenon
  <1>5. Xor8(a, b) = (16 * x) + y /\ Xor8(b, a) = (16 * x) + y
    BY <1>2, <1>3, Zenon
  <1> HIDE DEF x, y
  <1>6. (16 * x) + y \in Byte
    BY <1>4, SMT DEF Four, Byte
  <1> QED
    BY <1>5, <1>6, Zenon

\* The pads.
LEMMA PaddedIs ==
  ASSUME NEW k \in Seq(Byte), NEW byte \in Byte
  PROVE  /\ Padded(k, byte) = KeyBlock(k, byte)
         /\ Padded(k, byte) \in Seq(Byte)
  <1>1. \A i \in 1 .. 64 : i <= Len(k) => k[i] \in Byte
    <2> TAKE i \in 1 .. 64
    <2>1. i <= Len(k) => i \in 1 .. Len(k)
      OBVIOUS
    <2> QED
      BY <2>1, ElementOf, Zenon
  <1>2. \A i \in 1 .. 64 : i <= Len(k) =>
          Xor8(byte, k[i]) = Xor8(k[i], byte) /\ Xor8(byte, k[i]) \in Byte
    BY <1>1, XorOfBytes, Zenon
  <1>3. Padded(k, byte) = KeyBlock(k, byte)
    BY <1>2, Zenon DEF Padded, KeyBlock
  <1>4. Padded(k, byte) \in [1 .. 64 -> Byte]
    BY <1>2, Zenon DEF Padded
  <1>5. Padded(k, byte) \in Seq(Byte)
    <2> DEFINE n == 64  s == Padded(k, byte)
    <2>1. n \in Nat
      OBVIOUS
    <2> HIDE DEF n, s
    <2>2. s \in [1 .. n -> Byte]
      BY <1>4, Zenon DEF n, s
    <2>3. s \in Seq(Byte)
      BY <2>1, <2>2, SMT
    <2> QED
      BY <2>3, Zenon DEF s
  <1> QED
    BY <1>3, <1>5, Zenon

\* The key: its digest, when it is longer than a block.
HmacKey(algorithm, key) ==
  IF Len(key) > 64 THEN Standard(algorithm, key) ELSE key

\* The key is bytes, whole or digested.
LEMMA HmacKeyIs ==
  ASSUME NEW algorithm, NEW key \in Seq(Byte)
  PROVE  HmacKey(algorithm, key) \in Seq(Byte)
  BY StandardIs, Zenon DEF HmacKey

\* The pad is the standard's block of the key.
LEMMA PadIs ==
  ASSUME NEW algorithm, NEW key \in Seq(Byte), NEW byte \in Byte
  PROVE  /\ Pad(algorithm, key, byte) = KeyBlock(HmacKey(algorithm, key), byte)
         /\ KeyBlock(HmacKey(algorithm, key), byte) \in Seq(Byte)
  <1> DEFINE k == HmacKey(algorithm, key)
  <1>1. k \in Seq(Byte)
    BY HmacKeyIs, Zenon
  <1>2. Pad(algorithm, key, byte) = Padded(k, byte)
    <2>1. Digest(algorithm, key) = Standard(algorithm, key)
      BY DigestIs, Zenon
    <2> QED
      BY <2>1, Zenon DEF Pad, HmacKey
  <1> HIDE DEF k
  <1>3. Padded(k, byte) = KeyBlock(k, byte) /\ Padded(k, byte) \in Seq(Byte)
    BY <1>1, PaddedIs, Zenon
  <1> QED
    BY <1>2, <1>3, Zenon DEF k

\* sha1_hmac_starts and md5_hmac_starts: the inner pad is fed,
LEMMA HmacStartsIs ==
  ASSUME NEW algorithm, NEW key \in Seq(Byte)
  PROVE  IsContext(HmacStarts(algorithm, key), algorithm,
                   KeyBlock(HmacKey(algorithm, key), 54))
  <1> DEFINE pad == KeyBlock(HmacKey(algorithm, key), 54)
  <1>1. 54 \in Byte
    BY SMT DEF Byte
  <1>2. Pad(algorithm, key, 54) = pad /\ pad \in Seq(Byte)
    BY <1>1, PadIs, Zenon
  <1>3. HmacStarts(algorithm, key)
          = Update(Starts(algorithm), Pad(algorithm, key, 54))
    BY SMT DEF HmacStarts
  <1> HIDE DEF pad
  <1>4. IsContext(Update(Starts(algorithm), pad), algorithm, <<>> \o pad)
    BY <1>2, StartsContext, UpdateIs, Zenon
  <1>5. <<>> \o pad = pad
    BY <1>2
  <1> QED
    BY <1>2, <1>3, <1>4, <1>5, Zenon DEF pad

\* and at last the outer one.
LEMMA HmacOuterIs ==
  ASSUME NEW algorithm, NEW key \in Seq(Byte)
  PROVE  IsContext(HmacOuter(algorithm, key), algorithm,
                   KeyBlock(HmacKey(algorithm, key), 92))
  <1> DEFINE pad == KeyBlock(HmacKey(algorithm, key), 92)
  <1>1. 92 \in Byte
    BY SMT DEF Byte
  <1>2. Pad(algorithm, key, 92) = pad /\ pad \in Seq(Byte)
    BY <1>1, PadIs, Zenon
  <1>3. HmacOuter(algorithm, key)
          = Update(Starts(algorithm), Pad(algorithm, key, 92))
    BY SMT DEF HmacOuter
  <1> HIDE DEF pad
  <1>4. IsContext(Update(Starts(algorithm), pad), algorithm, <<>> \o pad)
    BY <1>2, StartsContext, UpdateIs, Zenon
  <1>5. <<>> \o pad = pad
    BY <1>2
  <1> QED
    BY <1>2, <1>3, <1>4, <1>5, Zenon DEF pad

\* sha1_hmac_finish and md5_hmac_finish.
LEMMA HmacFinishIs ==
  ASSUME NEW ctx, NEW algorithm, NEW key \in Seq(Byte), NEW fed \in Seq(Byte),
         IsContext(ctx, algorithm,
                   KeyBlock(HmacKey(algorithm, key), 54) \o fed)
  PROVE  HmacFinish(ctx, key) = StandardHmac(algorithm, key, fed)
  <1> DEFINE k == HmacKey(algorithm, key)
             inside == KeyBlock(k, 54) \o fed
             inner == Standard(algorithm, inside)
             c == Update(HmacOuter(algorithm, key), inner)
             outside == KeyBlock(k, 92) \o inner
  <1>1. ctx.algorithm = algorithm /\ inside \in Seq(Byte)
    BY Zenon DEF IsContext, HasFields
  <1>2. Finish(ctx) = inner
    BY FinishIs, Zenon
  <1>3. inner \in Seq(Byte)
    BY <1>1, StandardIs, Zenon
  <1>4. HmacFinish(ctx, key) = Finish(c)
    BY <1>1, <1>2, Zenon DEF HmacFinish, Apply
  <1>5. StandardHmac(algorithm, key, fed) = Standard(algorithm, outside)
    <2>1. StandardHmac(algorithm, key, fed) = HmacOfShort(algorithm, k, fed)
      <3>1. StandardHmac(algorithm, key, fed)
              = Apply(LAMBDA x : HmacOfShort(algorithm, x, fed), k)
        BY Zenon DEF StandardHmac, HmacKey
      <3> HIDE DEF k
      <3> QED
        BY <3>1, Zenon DEF Apply
    <2> HIDE DEF k
    <2>2. HmacOfShort(algorithm, k, fed) = Standard(algorithm, outside)
      BY Zenon DEF HmacOfShort, Apply
    <2> QED
      BY <2>1, <2>2, Zenon
  <1>6. IsContext(HmacOuter(algorithm, key), algorithm, KeyBlock(k, 92))
    BY HmacOuterIs, Zenon
  <1> HIDE DEF inner, k
  <1>7. IsContext(c, algorithm, outside)
    BY <1>3, <1>6, UpdateIs, Zenon
  <1> HIDE DEF c, outside
  <1> QED
    BY <1>4, <1>5, <1>7, FinishIs, Zenon
=============================================================================
