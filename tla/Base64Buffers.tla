--------------------------- MODULE Base64Buffers ---------------------------
(***************************************************************************)
(* Bytes on their way through base64_encode, line breaks of a mail or a    *)
(* page, and base64_decode, with buffers that need not be large enough.    *)
(***************************************************************************)
EXTENDS Integers, Sequences

CONSTANTS
  Encode(_, _), Decode(_, _),   \* those of Base64
  SourceBytes,   \* that the data is made of
  MaxBytes,      \* how many of them
  Rooms          \* sizes of buffers

VARIABLES
  data,     \* what is encoded
  text,     \* its characters, with line breaks in time
  call      \* the last call: function, buffer, input and result

vars == <<data, text, call>>

NoCall == [function |-> "none"]

Called(function, room, src, result) ==
  [function |-> function, room |-> room, src |-> src, result |-> result]

\* A caller that finds its buffer too small takes one as large as it was told.
RoomsNow == Rooms \cup (IF call = NoCall THEN {} ELSE {call.result.dlen})

CallEncode(room) ==
  /\ text = <<>>
  /\ LET result == Encode(data, room)
     IN  /\ call' = Called("encode", room, data, result)
         /\ text' = SubSeq(result.written, 1, Len(result.written) - 1)
  /\ UNCHANGED data

\* External: a line's end after i characters.
BreakLine(i, end) ==
  /\ text # <<>> /\ \A k \in DOMAIN text : text[k] # 10
  /\ text' = SubSeq(text, 1, i) \o end \o SubSeq(text, i + 1, Len(text))
  /\ UNCHANGED <<data, call>>

CallDecode(room) ==
  /\ text # <<>>
  /\ call' = Called("decode", room, text, Decode(text, room))
  /\ UNCHANGED <<data, text>>

\* External: characters lost at the text's end, or a foreign one in it.
Garble(i) ==
  /\ call.function = "encode" /\ text # <<>>
  /\ text' \in {SubSeq(text, 1, i), [text EXCEPT ![i] = 61],
                [text EXCEPT ![i] = 200]}
  /\ data' = <<>> /\ call' = NoCall

Init ==
  /\ data \in UNION {[1 .. n -> SourceBytes] : n \in 0 .. MaxBytes}
  /\ text = <<>> /\ call = NoCall

Next ==
  \/ \E room \in RoomsNow : CallEncode(room) \/ CallDecode(room)
  \/ \E i \in DOMAIN text :
       \/ \E end \in {<<10>>, <<13, 10>>} : BreakLine(i, end)
       \/ Garble(i)

Spec == Init /\ [][Next]_vars

-----------------------------------------------------------------------------

\* base64_encode and base64_decode: nothing is ever written behind the buffer,
\* whatever the text; the size a caller is told is enough; and what was
\* encoded comes back, wherever its lines are broken.
Base64Inverse ==
  call # NoCall =>
    LET result == call.result
        again == IF call.function = "encode" THEN Encode(call.src, result.dlen)
                                             ELSE Decode(call.src, result.dlen)
    IN  /\ Len(result.written) <= call.room
        /\ result.rc = "too_small" => again.rc = "ok"
        /\ call.function = "decode" /\ data # <<>> =>
             \/ result.rc = "too_small"
             \/ result.rc = "ok" /\ result.written = data
=============================================================================
