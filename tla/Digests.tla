------------------------------ MODULE Digests ------------------------------
(***************************************************************************)
(* PolarSSL/sha1.c and md5.c: the digests of the two handshakes.  A word   *)
(* is a pair of halves of 16 bits, the high one first; what C keeps above  *)
(* bit 31 of an unsigned long never comes back down.                       *)
(***************************************************************************)
EXTENDS Integers, Sequences, SequencesExt, Bits

XorW(a, b) == <<Xor16(a[1], b[1]), Xor16(a[2], b[2])>>
AndW(a, b) == <<And16(a[1], b[1]), And16(a[2], b[2])>>
OrW(a, b) == <<Or16(a[1], b[1]), Or16(a[2], b[2])>>
NotW(a) == <<65535 - a[1], 65535 - a[2]>>

Add(a, b) ==
  LET low == a[2] + b[2]
  IN  <<(a[1] + b[1] + (low \div 65536)) % 65536, low % 65536>>

\* S(x, n): n bits to the left, those that leave come in at the right.
Power == <<1, 2, 4, 8, 16, 32, 64, 128, 256, 512, 1024, 2048, 4096, 8192,
           16384, 32768, 65536>>
S(x, n) ==
  LET k == n % 16
      h == IF n < 16 THEN x ELSE <<x[2], x[1]>>
      up == Power[k + 1]
      down == Power[17 - k]
  IN  <<((h[1] % down) * up) + (h[2] \div down),
        ((h[2] % down) * up) + (h[1] \div down)>>

\* GET_ULONG_BE and _LE, PUT_ULONG_BE and _LE.
GetBE(data, i) == <<data[i + 1] * 256 + data[i + 2],
                    data[i + 3] * 256 + data[i + 4]>>
GetLE(data, i) == <<data[i + 4] * 256 + data[i + 3],
                    data[i + 2] * 256 + data[i + 1]>>
PutBE(n) == <<n[1] \div 256, n[1] % 256, n[2] \div 256, n[2] % 256>>
PutLE(n) == Reverse(PutBE(n))

\* f(x), with x worked out first: TLC would keep all that leads to x.
Apply(f(_), x) == CHOOSE y \in {f(z) : z \in {x}} : TRUE

\* The steps first .. first + n - 1 from s, each with what the one before made.
Steps(P(_, _), s, first, n) ==
  Apply(LAMBDA start :
          LET f[i \in 0 .. n] ==
                IF i = 0 THEN start
                ELSE Apply(LAMBDA x : P(x, (first + i) - 1), f[i - 1])
          IN  f[n], s)

\* Four rounds of n steps.
Rounds(P(_, _), s, n) ==
  Steps(P, Steps(P, Steps(P, Steps(P, s, 0, n), n, n), 2 * n, n), 3 * n, n)

-----------------------------------------------------------------------------
(* SHA-1.                                                                  *)

Sha1Starts == <<<<\h6745, \h2301>>, <<\hEFCD, \hAB89>>, <<\h98BA, \hDCFE>>,
                <<\h1032, \h5476>>, <<\hC3D2, \hE1F0>>>>

\* F and K of the step t.
Sha1F(t, x, y, z) ==
  CASE t < 20 -> XorW(z, AndW(x, XorW(y, z)))
    [] t \in 40 .. 59 -> OrW(AndW(x, y), AndW(z, OrW(x, y)))
    [] OTHER -> XorW(x, XorW(y, z))

Sha1K(t) ==
  <<<<\h5A82, \h7999>>, <<\h6ED9, \hEBA1>>, <<\h8F1B, \hBCDC>>,
    <<\hCA62, \hC1D6>>>>[(t \div 20) + 1]

\* R(t): the word that replaces W[t & 0x0F].
R(W, t) ==
  S(XorW(XorW(W[(t - 3) % 16], W[(t - 8) % 16]),
        XorW(W[(t - 14) % 16], W[t % 16])), 1)

\* P of sha1_process: the five registers stay where they are and change their
\* roles.
Sha1P(r, t, x) ==
  LET role(i) == (i + (4 * t)) % 5
  IN  [r EXCEPT
         ![role(4)] =
           Add(Add(@, Add(Sha1K(t), x)),
               Add(S(r[role(0)], 5),
                   Sha1F(t, r[role(1)], r[role(2)], r[role(3)]))),
         ![role(1)] = S(@, 30)]

\* One step: sixteen words are used over and over.
Sha1Words(W, t) == IF t < 16 THEN W ELSE [W EXCEPT ![t % 16] = R(W, t)]
Sha1Used(W, r, t) == [W |-> W, r |-> Sha1P(r, t, W[t % 16])]
Sha1Next(s, t) == Sha1Used(Sha1Words(s.W, t), s.r, t)

\* The registers are added to the state.
Added(state, r) == [i \in DOMAIN state |-> Add(state[i], r[i - 1])]

Sha1Process(state, data) ==
  Added(state, Rounds(Sha1Next,
                      [W |-> [i \in 0 .. 15 |-> GetBE(data, 4 * i)],
                       r |-> [i \in 0 .. 4 |-> state[i + 1]]], 20).r)

-----------------------------------------------------------------------------
(* MD5.                                                                    *)

Md5Starts == SubSeq(Sha1Starts, 1, 4)

Md5F(t, x, y, z) ==
  CASE t < 16 -> XorW(z, AndW(x, XorW(y, z)))
    [] t \in 16 .. 31 -> XorW(y, AndW(z, XorW(x, y)))
    [] t \in 32 .. 47 -> XorW(x, XorW(y, z))
    [] OTHER -> XorW(y, OrW(x, NotW(z)))

\* The third, second and first last arguments of P, step by step.
Md5K ==
  <<0, 1, 2, 3, 4, 5, 6, 7, 8, 9, 10, 11, 12, 13, 14, 15,
    1, 6, 11, 0, 5, 10, 15, 4, 9, 14, 3, 8, 13, 2, 7, 12,
    5, 8, 11, 14, 1, 4, 7, 10, 13, 0, 3, 6, 9, 12, 15, 2,
    0, 7, 14, 5, 12, 3, 10, 1, 8, 15, 6, 13, 4, 11, 2, 9>>

Md5S(t) == <<<<7, 12, 17, 22>>, <<5, 9, 14, 20>>, <<4, 11, 16, 23>>,
             <<6, 10, 15, 21>>>>[(t \div 16) + 1][(t % 4) + 1]

Md5T ==
  <<<<\hD76A, \hA478>>, <<\hE8C7, \hB756>>, <<\h2420, \h70DB>>,
    <<\hC1BD, \hCEEE>>, <<\hF57C, \h0FAF>>, <<\h4787, \hC62A>>,
    <<\hA830, \h4613>>, <<\hFD46, \h9501>>, <<\h6980, \h98D8>>,
    <<\h8B44, \hF7AF>>, <<\hFFFF, \h5BB1>>, <<\h895C, \hD7BE>>,
    <<\h6B90, \h1122>>, <<\hFD98, \h7193>>, <<\hA679, \h438E>>,
    <<\h49B4, \h0821>>, <<\hF61E, \h2562>>, <<\hC040, \hB340>>,
    <<\h265E, \h5A51>>, <<\hE9B6, \hC7AA>>, <<\hD62F, \h105D>>,
    <<\h0244, \h1453>>, <<\hD8A1, \hE681>>, <<\hE7D3, \hFBC8>>,
    <<\h21E1, \hCDE6>>, <<\hC337, \h07D6>>, <<\hF4D5, \h0D87>>,
    <<\h455A, \h14ED>>, <<\hA9E3, \hE905>>, <<\hFCEF, \hA3F8>>,
    <<\h676F, \h02D9>>, <<\h8D2A, \h4C8A>>, <<\hFFFA, \h3942>>,
    <<\h8771, \hF681>>, <<\h6D9D, \h6122>>, <<\hFDE5, \h380C>>,
    <<\hA4BE, \hEA44>>, <<\h4BDE, \hCFA9>>, <<\hF6BB, \h4B60>>,
    <<\hBEBF, \hBC70>>, <<\h289B, \h7EC6>>, <<\hEAA1, \h27FA>>,
    <<\hD4EF, \h3085>>, <<\h0488, \h1D05>>, <<\hD9D4, \hD039>>,
    <<\hE6DB, \h99E5>>, <<\h1FA2, \h7CF8>>, <<\hC4AC, \h5665>>,
    <<\hF429, \h2244>>, <<\h432A, \hFF97>>, <<\hAB94, \h23A7>>,
    <<\hFC93, \hA039>>, <<\h655B, \h59C3>>, <<\h8F0C, \hCC92>>,
    <<\hFFEF, \hF47D>>, <<\h8584, \h5DD1>>, <<\h6FA8, \h7E4F>>,
    <<\hFE2C, \hE6E0>>, <<\hA301, \h4314>>, <<\h4E08, \h11A1>>,
    <<\hF753, \h7E82>>, <<\hBD3A, \hF235>>, <<\h2AD7, \hD2BB>>,
    <<\hEB86, \hD391>>>>

\* P of md5_process; its registers change their roles, too.
Md5P(r, t, x) ==
  LET role(i) == (i + (3 * t)) % 4
  IN  [r EXCEPT
         ![role(0)] =
           Add(S(Add(Add(@, Md5F(t, r[role(1)], r[role(2)], r[role(3)])),
                     Add(x, Md5T[t + 1])), Md5S(t)),
               r[role(1)])]

Md5Process(state, data) ==
  Added(state, Rounds(LAMBDA r, t : Md5P(r, t, GetLE(data, 4 * Md5K[t + 1])),
                      [i \in 0 .. 3 |-> state[i + 1]], 16))

-----------------------------------------------------------------------------
(* What the two have in common: a context is fed in parts of any length.   *)

Process(algorithm, state, data) ==
  IF algorithm = "sha1" THEN Sha1Process(state, data)
                        ELSE Md5Process(state, data)

\* total is both of its words, total[1] * 2^32 + total[0].
Starts(algorithm) ==
  [algorithm |-> algorithm, total |-> 0, buffer |-> <<>>,
   state |-> IF algorithm = "sha1" THEN Sha1Starts ELSE Md5Starts]

\* The blocks from the buffer and the input, one after another.
ProcessAll(algorithm, state, blocks) ==
  Steps(LAMBDA s, i : Process(algorithm, s,
                              SubSeq(blocks, (64 * i) + 1, (64 * i) + 64)),
        state, 0, Len(blocks) \div 64)

\* A first block, if there is one, and all complete blocks of the rest are
\* processed; what is left of it goes into the buffer.
Taken(ctx, length, first, rest, left) ==
  LET done == (Len(rest) \div 64) * 64
  IN  [ctx EXCEPT
         !.total = @ + length,
         !.state =
           ProcessAll(ctx.algorithm, @, first \o SubSeq(rest, 1, done)),
         !.buffer = SubSeq(@, 1, left) \o SubSeq(rest, done + 1, Len(rest))]

\* A slip: what the buffer has room for exactly is left in it.
UpdateLate(ctx, input) ==
  LET left == ctx.total % 64
      fill == 64 - left
      full == left > 0 /\ Len(input) > fill
  IN  Taken(ctx, Len(input),
            IF full THEN SubSeq(ctx.buffer, 1, left) \o SubSeq(input, 1, fill)
                    ELSE <<>>,
            IF full THEN SubSeq(input, fill + 1, Len(input)) ELSE input,
            IF full THEN 0 ELSE left)

\* sha1_update and md5_update.  The bytes behind the buffer's first
\* total % 64 are those of blocks that are done with.
Update(ctx, input) ==
  LET left == ctx.total % 64
      fill == 64 - left
      full == left > 0 /\ Len(input) >= fill
  IN  Taken(ctx, Len(input),
            IF full THEN SubSeq(ctx.buffer, 1, left) \o SubSeq(input, 1, fill)
                    ELSE <<>>,
            IF full THEN SubSeq(input, fill + 1, Len(input)) ELSE input,
            IF full THEN 0 ELSE left)

\* high and low: the length in bits, of which 64 are kept.
High(total) == <<((total \div 536870912) \div 65536) % 65536,
                 (total \div 536870912) % 65536>>
Low(total) == <<(total \div 8192) % 65536, (total % 8192) * 8>>

\* msglen, and before it 0x80, at least, and zeros up to the last eight bytes
\* of a block.
Padding(last) ==
  [i \in 1 .. IF last < 56 THEN 56 - last ELSE 120 - last |->
     IF i = 1 THEN 128 ELSE 0]
Length(algorithm, total) ==
  IF algorithm = "sha1" THEN PutBE(High(total)) \o PutBE(Low(total))
                        ELSE PutLE(Low(total)) \o PutLE(High(total))
Output(algorithm, state) ==
  FlattenSeq([i \in DOMAIN state |-> IF algorithm = "sha1"
                                       THEN PutBE(state[i])
                                       ELSE PutLE(state[i])])

\* sha1_finish and md5_finish.
Finish(ctx) ==
  Output(ctx.algorithm,
         Apply(LAMBDA c : Update(c, Length(ctx.algorithm, ctx.total)),
               Update(ctx, Padding(ctx.total % 64))).state)

\* sha1() and md5().
Digest(algorithm, input) ==
  Apply(LAMBDA ctx : Finish(ctx), Update(Starts(algorithm), input))

-----------------------------------------------------------------------------
(* HMAC.                                                                   *)

\* The key in a block of its own, xor the byte of a pad.
Padded(k, byte) ==
  [i \in 1 .. 64 |-> IF i <= Len(k) THEN Xor8(byte, k[i]) ELSE byte]
Pad(algorithm, key, byte) ==
  Padded(IF Len(key) > 64 THEN Digest(algorithm, key) ELSE key, byte)

HmacStarts(algorithm, key) ==
  Update(Starts(algorithm), Pad(algorithm, key, \h36))

HmacOuter(algorithm, key) ==
  Update(Starts(algorithm), Pad(algorithm, key, \h5C))

HmacFinish(ctx, key) ==
  Apply(LAMBDA inner :
          Apply(LAMBDA outer : Finish(outer),
                Update(HmacOuter(ctx.algorithm, key), inner)),
        Finish(ctx))
=============================================================================
