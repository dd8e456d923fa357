-------------------------- MODULE DigestStandards --------------------------
(***************************************************************************)
(* SHA-1, MD5 and HMAC as FIPS 180, RFC 1321 and RFC 2104 define them: the *)
(* reference for Digests, of a whole message and step by step.             *)
(***************************************************************************)
EXTENDS Digests

\* The number of bits of n bytes, in 64 of its own.
InBits(n) ==
  LET h0 == n * 8
      h1 == h0 \div 65536
      h2 == h1 \div 65536
      h3 == h2 \div 65536
  IN  PutBE(<<h3 % 65536, h2 % 65536>>) \o PutBE(<<h1 % 65536, h0 % 65536>>)

WithLength(algorithm, message) ==
  LET zeros == (119 - (Len(message) % 64)) % 64
      bits == InBits(Len(message))
  IN  message \o <<128>> \o [i \in 1 .. zeros |-> 0]
      \o (IF algorithm = "sha1" THEN bits ELSE Reverse(bits))

\* The five words before and after the step t, from the whole schedule W.
Sha1Step(W, w, t) ==
  LET a == w[1]  b == w[2]  c == w[3]  d == w[4]  e == w[5]
      f == CASE t < 20 -> OrW(AndW(b, c), AndW(NotW(b), d))
             [] t \in 40 .. 59 -> XorW(AndW(b, c),
                                       XorW(AndW(b, d), AndW(c, d)))
             [] OTHER -> XorW(b, XorW(c, d))
  IN  <<Add(Add(S(a, 5), f), Add(e, Add(Sha1K(t), W[t + 1]))),
        a, S(b, 30), c, d>>

\* One word more.
Longer(W, t) ==
  Append(W, S(XorW(XorW(W[t + 14], W[t + 9]), XorW(W[t + 3], W[t + 1])), 1))

Schedule(block) ==
  Rounds(Longer, [i \in 1 .. 16 |-> GetBE(block, 4 * (i - 1))], 16)

Sum(v, w) == [i \in DOMAIN v |-> Add(v[i], w[i])]

Sha1Rounds(state, W) ==
  Sum(state, Rounds(LAMBDA w, t : Sha1Step(W, w, t), state, 20))

Sha1Block(state, block) == Sha1Rounds(state, Schedule(block))

\* The step t of MD5: the four words move on by one.
Md5Step(block, w, t) ==
  LET a == w[1]  b == w[2]  c == w[3]  d == w[4]
      f == CASE t < 16 -> OrW(AndW(b, c), AndW(NotW(b), d))
             [] t \in 16 .. 31 -> OrW(AndW(b, d), AndW(c, NotW(d)))
             [] t \in 32 .. 47 -> XorW(b, XorW(c, d))
             [] OTHER -> XorW(c, OrW(b, NotW(d)))
      k == CASE t < 16 -> t
             [] t \in 16 .. 31 -> ((5 * t) + 1) % 16
             [] t \in 32 .. 47 -> ((3 * t) + 5) % 16
             [] OTHER -> (7 * t) % 16
      sum == Add(Add(a, f), Add(GetLE(block, 4 * k), Md5T[t + 1]))
  IN  <<d, Add(b, S(sum, Md5S(t))), b, c>>

Md5Block(state, block) ==
  Sum(state, Rounds(LAMBDA w, t : Md5Step(block, w, t), state, 16))

Block(algorithm, state, block) ==
  IF algorithm = "sha1" THEN Sha1Block(state, block)
                        ELSE Md5Block(state, block)

Blocks(algorithm, all) ==
  Steps(LAMBDA s, i : Block(algorithm, s,
                            SubSeq(all, (64 * i) + 1, (64 * i) + 64)),
        Starts(algorithm).state, 0, Len(all) \div 64)

Standard(algorithm, message) ==
  Output(algorithm, Blocks(algorithm, WithLength(algorithm, message)))

KeyBlock(k, byte) ==
  [i \in 1 .. 64 |-> IF i <= Len(k) THEN Xor8(k[i], byte) ELSE byte]

HmacOfShort(algorithm, k, message) ==
  Apply(LAMBDA inner : Standard(algorithm, KeyBlock(k, 92) \o inner),
        Standard(algorithm, KeyBlock(k, 54) \o message))

StandardHmac(algorithm, key, message) ==
  Apply(LAMBDA k : HmacOfShort(algorithm, k, message),
        IF Len(key) > 64 THEN Standard(algorithm, key) ELSE key)
=============================================================================
