---------------------------- MODULE WireFormats ----------------------------
(***************************************************************************)
(* What the server makes of bytes that no other thread sees: digests,      *)
(* base64, frames, handshakes, pictures.  Each of them has a state of its  *)
(* own; one is at work, chosen at the start, and the others never move, so *)
(* that the states are the sum of theirs and not the product.              *)
(***************************************************************************)
EXTENDS DigestStandards, Base64

CONSTANTS
  PartLengths, KeyLengths, MaxParts,                          \* HashStream
  SourceBytes, MaxBytes, Rooms,                               \* Base64Buffers
  TextLengths, HeardLengths, MaxTexts,                    \* WebSocketStream
  Requests, Leftovers, OutputSizes, MaxClients,                 \* Handshake
  BufferSize, Strays,                                      \* both of these
  Wid, Hei, CloudWid, CloudHei, Depths, Bytes, MaxDepth       \* FrameImages

\* MaxDepth itself would be counted behind the histogram's end, a frame
\* smaller than depth2point's would be read beyond its end, and the Base64 of
\* the depths of one or two pixels does not fit a buffer of twice their bytes.
\* Eight strays of 127 would be a length beyond any memory, which is what the
\* negative ones stand for.
ASSUME FormatsAssumption ==
  /\ PartLengths \subseteq Nat /\ KeyLengths \subseteq Nat
  /\ Rooms \subseteq Nat /\ OutputSizes \subseteq Nat
  /\ MaxParts \in Nat /\ MaxBytes \in Nat /\ MaxTexts \in Nat
  /\ MaxClients \in Nat /\ BufferSize \in Nat
  /\ \A b \in SourceBytes \cup Bytes : b \in Nat /\ b < 256
  /\ \A b \in Strays : b \in Nat /\ b < 256 /\ b # 127
  /\ \A n \in TextLengths \cup HeardLengths : n \in Nat /\ n < 65536
  /\ Wid \in Nat \ {0} /\ Hei \in Nat \ {0}
  /\ Wid * Hei > 2 /\ CloudWid = Wid /\ CloudHei = Hei
  /\ MaxDepth \in Nat /\ Depths \subseteq 0 .. MaxDepth - 1

VARIABLES
  part,                                                 \* what is at work
  ctx, key, fed, parts, digest,                         \* HashStream
  data, text, call,                                     \* Base64Buffers
  protocol, texts, wire, received, whole, heard,        \* WebSocketStream
  buffer, request, reply, clients,                      \* Handshake
  depthMD, rgb24, answer                                \* FrameImages

Hashes == INSTANCE HashStream
Buffers == INSTANCE Base64Buffers
Stream == INSTANCE WebSocketStream
Shake == INSTANCE Handshake
Images == INSTANCE FrameImages

ASSUME RequestsAssumption ==
  /\ \A r \in Requests : Shake!IsRequest(r)
  /\ \A old \in Leftovers : old \in Seq(Nat)

hashVars == <<ctx, key, fed, parts, digest>>
bufferVars == <<data, text, call>>
streamVars == <<protocol, texts, wire, received, whole, heard>>
shakeVars == <<buffer, request, reply, clients>>
imageVars == <<depthMD, rgb24, answer>>
vars ==
  <<part, hashVars, bufferVars, streamVars, shakeVars, imageVars>>

Idle == "idle"

Init ==
  /\ part \in {"hashes", "buffers", "stream", "handshake", "images"}
  /\ IF part = "hashes" THEN Hashes!Init
     ELSE /\ ctx = Idle /\ key = Idle /\ fed = Idle /\ parts = Idle
          /\ digest = Idle
  /\ IF part = "buffers" THEN Buffers!Init
     ELSE data = Idle /\ text = Idle /\ call = Idle
  /\ IF part = "stream" THEN Stream!Init
     ELSE /\ protocol = Idle /\ texts = Idle /\ wire = Idle
          /\ received = Idle /\ whole = Idle /\ heard = Idle
  /\ IF part = "handshake" THEN Shake!Init
     ELSE buffer = Idle /\ request = Idle /\ reply = Idle /\ clients = Idle
  /\ IF part = "images" THEN Images!Init
     ELSE depthMD = Idle /\ rgb24 = Idle /\ answer = Idle

HashesStep ==
  /\ part = "hashes" /\ Hashes!Next
  /\ UNCHANGED <<part, bufferVars, streamVars, shakeVars, imageVars>>

BuffersStep ==
  /\ part = "buffers" /\ Buffers!Next
  /\ UNCHANGED <<part, hashVars, streamVars, shakeVars, imageVars>>

StreamStep ==
  /\ part = "stream" /\ Stream!Next
  /\ UNCHANGED <<part, hashVars, bufferVars, shakeVars, imageVars>>

ShakeStep ==
  /\ part = "handshake" /\ Shake!Next
  /\ UNCHANGED <<part, hashVars, bufferVars, streamVars, imageVars>>

ImagesStep ==
  /\ part = "images" /\ Images!Next
  /\ UNCHANGED <<part, hashVars, bufferVars, streamVars, shakeVars>>

Next == HashesStep \/ BuffersStep \/ StreamStep \/ ShakeStep \/ ImagesStep

Spec == Init /\ [][Next]_vars

-----------------------------------------------------------------------------
(* The properties of the parts; their modules say what they are about.     *)

\* sha1.c and md5.c: a message's digest is the standard's, in whatever parts
\* it comes.
DigestStandard == part = "hashes" => Hashes!DigestStandard

\* base64.c: nothing is written behind a buffer, and decoding undoes encoding.
Base64Inverse == part = "buffers" => Buffers!Base64Inverse

\* Connection_ver10.cpp, Connection_draft76.cpp: what a client reads is what
\* sendText was given.
StreamIntact == part = "stream" => Stream!StreamIntact

\* Frame.cpp: a client's text that is read at once is understood.
ClientUnderstood == part = "stream" => Stream!ClientUnderstood

\* ConnectionFactory.cpp and the connections: a handshake is answered as its
\* protocol says.
HandshakeRight == part = "handshake" => Shake!HandshakeRight

\* Connection_draft76.cpp: what its comment says of the reply's body.
ChallengeAnswered == part = "handshake" => Shake!ChallengeAnswered

\* DepthMap.cpp, DepthImage.cpp, RgbImage.cpp, PointCloud.cpp: what a client
\* decodes is the frame.
PixelsArrive == part = "images" => Images!PixelsArrive

\* DepthImage.cpp: what is nearer is brighter.
NearerBrighter == part = "images" => Images!NearerBrighter
=============================================================================
