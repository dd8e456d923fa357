----------------------------- MODULE HashStream -----------------------------
(***************************************************************************)
(* A digest in the making: sha1_file, md5_file, sha1_hmac and md5_hmac     *)
(* feed a context part by part, the handshakes in one.                     *)
(***************************************************************************)
EXTENDS Integers, Sequences

CONSTANTS
  Starts(_), Update(_, _), Finish(_),         \* those of Digests
  HmacStarts(_, _), HmacFinish(_, _),
  Standard(_, _), StandardHmac(_, _, _),      \* those of DigestStandards
  PartLengths,   \* of what one update is given
  KeyLengths,    \* of the keys of an HMAC; 0 is for no HMAC
  MaxParts       \* how many updates

VARIABLES
  ctx,      \* sha1_context or md5_context
  key,      \* HMAC's, <<>> without
  fed,      \* history: all that update was given
  parts,    \* history: how often
  digest    \* the output, once it is there

vars == <<ctx, key, fed, parts, digest>>

NoContext == [algorithm |-> "none"]

\* The bytes that come after n others: none like its neighbours.
Part(n, length) == [i \in 1 .. length |-> ((n + i) * 37) % 256]

UpdatePart(length) ==
  /\ ctx # NoContext /\ digest = <<>> /\ parts < MaxParts
  /\ ctx' = Update(ctx, Part(Len(fed), length))
  /\ fed' = fed \o Part(Len(fed), length)
  /\ parts' = parts + 1
  /\ UNCHANGED <<key, digest>>

FinishDigest ==
  /\ ctx # NoContext /\ digest = <<>>
  /\ digest' = IF key = <<>> THEN Finish(ctx) ELSE HmacFinish(ctx, key)
  /\ UNCHANGED <<ctx, key, fed, parts>>

\* sha1_starts or md5_starts, or those of an HMAC.
Start(algorithm, n) ==
  /\ ctx = NoContext
  /\ key' = Part(0, n)
  /\ ctx' = IF n = 0 THEN Starts(algorithm) ELSE HmacStarts(algorithm, key')
  /\ UNCHANGED <<fed, parts, digest>>

Init ==
  /\ ctx = NoContext /\ key = <<>>
  /\ fed = <<>> /\ parts = 0 /\ digest = <<>>

Next ==
  \/ \E algorithm \in {"sha1", "md5"}, n \in KeyLengths : Start(algorithm, n)
  \/ \E length \in PartLengths : UpdatePart(length)
  \/ FinishDigest

Spec == Init /\ [][Next]_vars

-----------------------------------------------------------------------------

\* sha1_update, md5_update and the finish: in whatever parts a message comes,
\* the digest is that of the whole, and the one the standard says.
DigestStandard ==
  digest # <<>> =>
    digest = IF key = <<>> THEN Standard(ctx.algorithm, fed)
                           ELSE StandardHmac(ctx.algorithm, key, fed)
=============================================================================
