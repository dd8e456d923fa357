----------------------------- MODULE JsonReader -----------------------------
(***************************************************************************)
(* json_reader.cpp: Reader::parse without collecting comments.  A position *)
(* in a document counts from 1; a NUL stands for the end.                  *)
(***************************************************************************)
EXTENDS JsonValue

\* Features::all() and strictMode().
All == [allowComments |-> TRUE, strictRoot |-> FALSE]
StrictMode == [allowComments |-> FALSE, strictRoot |-> TRUE]

-----------------------------------------------------------------------------
(* Tokens.                                                                 *)

\* *current_, and where getNextChar goes.
CharAt(text, i) == IF i <= Len(text) THEN text[i] ELSE 0
After(text, i) == IF i <= Len(text) THEN i + 1 ELSE i

\* The first position from i that has none of these characters.
Behind(text, i, chars) ==
  CHOOSE j \in i .. Len(text) + 1 :
    /\ \A k \in i .. j - 1 : text[k] \in chars
    /\ j = Len(text) + 1 \/ text[j] \notin chars

\* The first position from i with one of these, or the end.
Find(text, i, chars) ==
  CHOOSE j \in i .. Len(text) + 1 :
    /\ \A k \in i .. j - 1 : text[k] \notin chars
    /\ j = Len(text) + 1 \/ text[j] \in chars

Token(type, start, end) == [type |-> type, start |-> start, end |-> end]

\* readString: i is behind the quote or a character of the string.
RECURSIVE ReadString(_, _, _)
ReadString(text, start, i) ==
  LET j == Find(text, i, {34, 92})
  IN  IF j > Len(text) THEN Token("error", start, j)
      ELSE IF text[j] = 34 THEN Token("string", start, j + 1)
      ELSE ReadString(text, start, After(text, j + 1))

\* readCStyleComment: i is behind the first two characters.  Without an end
\* one more character is tried.
ReadCStyleComment(text, start, i) ==
  LET ends == {j \in i .. Len(text) - 1 : text[j] = 42 /\ text[j + 1] = 47}
  IN  IF ends = {} THEN Token("error", start, Len(text) + 1)
      ELSE Token("comment", start, Min(ends) + 2)

ReadComment(text, start) ==
  LET c == CharAt(text, start + 1)
      i == After(text, start + 1)
  IN  CASE c = 42 -> ReadCStyleComment(text, start, i)
        [] c = 47 -> Token("comment", start,
                           After(text, Find(text, i, {10, 13})))
        [] OTHER -> Token("error", start, i)

\* skipSpaces.
Spaces == {32, 9, 13, 10}

\* match: the rest of a word, or none of it.
Match(text, start, type, word) ==
  IF SubSeq(text, start, start + Len(word) - 1) = word
    THEN Token(type, start, start + Len(word))
    ELSE Token("error", start, start + 1)

NumberChars == (48 .. 57) \cup {46, 101, 69, 43, 45}

Punctuation ==
  (123 :> "{") @@ (125 :> "}") @@ (91 :> "[") @@ (93 :> "]") @@ (44 :> ",")
    @@ (58 :> ":")

ReadToken(text, from) ==
  LET start == Behind(text, from, Spaces)
      c == CharAt(text, start)
  IN  CASE c \in DOMAIN Punctuation ->
             Token(Punctuation[c], start, start + 1)
        [] c = 34 -> ReadString(text, start, start + 1)
        [] c = 47 -> ReadComment(text, start)
        [] c \in (48 .. 57) \cup {45} ->
             Token("number", start, Behind(text, start + 1, NumberChars))
        [] c = 116 -> Match(text, start, "true", <<116, 114, 117, 101>>)
        [] c = 102 -> Match(text, start, "false", <<102, 97, 108, 115, 101>>)
        [] c = 110 -> Match(text, start, "null", <<110, 117, 108, 108>>)
        [] c = 0 -> Token("end", start, After(text, start))
        [] OTHER -> Token("error", start, start + 1)

\* The token behind any comments.
RECURSIVE AfterComments(_, _)
AfterComments(text, from) ==
  LET token == ReadToken(text, from)
  IN  IF token.type = "comment" THEN AfterComments(text, token.end) ELSE token

\* skipCommentTokens.
SkipCommentTokens(text, from, features) ==
  IF features.allowComments THEN AfterComments(text, from)
                            ELSE ReadToken(text, from)

-----------------------------------------------------------------------------
(* Values.  A result has the value, the position reached and how many      *)
(* errors were added; what a failure leaves in root is not looked at.      *)

Read(value, at) == [ok |-> TRUE, value |-> value, at |-> at, errors |-> 0]
Failure(errors, at) ==
  [ok |-> FALSE, value |-> Null, at |-> at, errors |-> errors]

\* External: sscanf("%lf") of digits with a point among them, in hundredths.
\* An exponent is left out: the writers give none to a count of hundredths.
ScannedReal(text) ==
  LET negative == CharAt(text, 1) = 45
      start == IF negative THEN 2 ELSE 1
      point == Behind(text, start, 48 .. 57)
      digit(i) == IF CharAt(text, i) \in 48 .. 57 THEN text[i] - 48 ELSE 0
      whole == FoldLeft(LAMBDA n, i : (n * 10) + digit(i), 0,
                        [i \in 1 .. point - start |-> start + i - 1])
      tenths == IF CharAt(text, point) = 46 THEN digit(point + 1) ELSE 0
      hundredths == IF CharAt(text, point) = 46
                       /\ CharAt(text, point + 1) \in 48 .. 57
                      THEN digit(point + 2) ELSE 0
      x == (whole * 100) + (tenths * 10) + hundredths
  IN  IF negative THEN -x ELSE x

DecodeDouble(text, at) ==
  LET first == IF text[1] = 45 THEN 2 ELSE 1
      digit == IF CharAt(text, first) = 46 THEN first + 1 ELSE first
  IN  IF CharAt(text, digit) \in 48 .. 57
        THEN Read(RealValue(ScannedReal(text)), at)
        ELSE Failure(1, at)

\* Whether value * 10 + digit is at most the limit, tried without computing it:
\* at the threshold only for the last digit.
Fits(value, digit, isLast, limit) ==
  \/ value < limit \div 10
  \/ value = limit \div 10 /\ isLast /\ digit <= limit % 10

\* decodeNumber: an integer, or a double where it is too large for one.
DecodeNumber(text, at) ==
  LET isDouble == \E i \in DOMAIN text : \/ text[i] \in {46, 101, 69, 43}
                                         \/ text[i] = 45 /\ i > 1
      isNegative == text[1] = 45
      limit == IF isNegative THEN MaxLargestInt + 1 ELSE MaxLargestUInt
      digits == [i \in 1 .. Len(text) - (IF isNegative THEN 1 ELSE 0) |->
                   text[IF isNegative THEN i + 1 ELSE i] - 48]
      value[n \in 0 .. Len(digits)] ==
        IF n = 0 THEN 0
        ELSE IF value[n - 1] >= 0
                /\ Fits(value[n - 1], digits[n], n = Len(digits), limit)
               THEN (value[n - 1] * 10) + digits[n] ELSE -1
      result == value[Len(digits)]
  IN  CASE isDouble \/ result < 0 -> DecodeDouble(text, at)
        [] isNegative /\ ~isDouble /\ result >= 0 ->
             Read(IntValue(-result), at)
        [] ~isNegative /\ ~isDouble /\ result \in 0 .. MaxInt ->
             Read(IntValue(result), at)
        [] OTHER -> Read(UIntValue(result), at)

HexValue(c) ==
  CASE c \in 48 .. 57 -> c - 48 [] c \in 97 .. 102 -> c - 87
    [] c \in 65 .. 70 -> c - 55 [] OTHER -> -1

\* decodeUnicodeEscapeSequence from i: -1 if there are no four digits.
Unicode(text, i) ==
  IF i + 3 > Len(text) \/ \E k \in i .. i + 3 : HexValue(text[k]) < 0
    THEN -1
    ELSE (HexValue(text[i]) * 4096) + (HexValue(text[i + 1]) * 256)
         + (HexValue(text[i + 2]) * 16) + HexValue(text[i + 3])

\* decodeUnicodeCodePoint: the code point and the position behind it.
CodePoint(text, i) ==
  LET high == Unicode(text, i)
      low == Unicode(text, i + 6)
  IN  CASE high < 0 -> [code |-> -1, at |-> i]
        [] high \in \hD800 .. \hDBFF ->
             IF Len(text) - (i + 3) < 6 \/ text[i + 4] # 92
                \/ text[i + 5] # 117 \/ low < 0
               THEN [code |-> -1, at |-> i]
               ELSE [code |-> 65536 + ((high % 1024) * 1024) + (low % 1024),
                     at |-> i + 10]
        [] OTHER -> [code |-> high, at |-> i + 4]

CodePointToUTF8(cp) ==
  CASE cp <= 127 -> <<cp>>
    [] cp \in 128 .. 2047 -> <<192 + (cp \div 64), 128 + (cp % 64)>>
    [] cp \in 2048 .. 65535 ->
         <<224 + (cp \div 4096), 128 + ((cp \div 64) % 64), 128 + (cp % 64)>>
    [] OTHER ->
         <<240 + (cp \div 262144), 128 + ((cp \div 4096) % 64),
           128 + ((cp \div 64) % 64), 128 + (cp % 64)>>

Unescaped ==
  (34 :> 34) @@ (47 :> 47) @@ (92 :> 92) @@ (98 :> 8) @@ (102 :> 12)
    @@ (110 :> 10) @@ (114 :> 13) @@ (116 :> 9)

\* decodeString of what is between the quotes, from i.
RECURSIVE DecodeString(_, _, _)
DecodeString(text, i, decoded) ==
  LET escape == CharAt(text, i + 1)
      point == CodePoint(text, i + 2)
  IN  CASE i > Len(text) -> [ok |-> TRUE, decoded |-> decoded]
        [] i <= Len(text) /\ text[i] # 92 ->
             DecodeString(text, i + 1, Append(decoded, text[i]))
        [] i < Len(text) /\ text[i] = 92 /\ escape \in DOMAIN Unescaped ->
             DecodeString(text, i + 2, Append(decoded, Unescaped[escape]))
        [] i < Len(text) /\ text[i] = 92 /\ escape = 117 /\ point.code >= 0 ->
             DecodeString(text, point.at,
                          decoded \o CodePointToUTF8(point.code))
        [] OTHER -> [ok |-> FALSE, decoded |-> decoded]

Inside(text, token) == SubSeq(text, token.start + 1, token.end - 2)
TextOf(text, token) == SubSeq(text, token.start, token.end - 1)

\* recoverFromError: to the next token of this type, or the end.
RECURSIVE Recover(_, _, _)
Recover(text, from, type) ==
  LET token == ReadToken(text, from)
  IN  IF token.type \in {type, "end"} THEN token.end
      ELSE Recover(text, token.end, type)

Fail(text, from, type) == Failure(1, Recover(text, from, type))

RECURSIVE ReadValue(_, _, _)

\* readObject behind its opening brace: name is the last member's, empty at
\* first.  Behind a comment that follows a member any token separates.
RECURSIVE ReadMembers(_, _, _, _, _)
ReadMembers(text, from, features, name, object) ==
  LET token == AfterComments(text, from)
      decoded == DecodeString(Inside(text, token), 1, <<>>)
      colon == ReadToken(text, token.end)
      value == ReadValue(text, colon.end, features)
      comma == ReadToken(text, value.at)
      separator == AfterComments(text, value.at)
      read == Put(object, <<Key(decoded.decoded)>>, value.value)
  IN  IF token.type = "}" /\ name = <<>> THEN Read(object, token.end)
      ELSE IF token.type # "string" \/ ~decoded.ok THEN
        Fail(text, token.end, "}")
      ELSE IF colon.type # ":" THEN Fail(text, colon.end, "}")
      ELSE IF ~value.ok THEN
        Failure(value.errors, Recover(text, value.at, "}"))
      ELSE IF comma.type \notin {"}", ",", "comment"} THEN
        Fail(text, comma.end, "}")
      ELSE IF separator.type = "}" THEN Read(read, separator.end)
      ELSE ReadMembers(text, separator.end, features, decoded.decoded, read)

\* readArray behind its opening bracket and any spaces.
RECURSIVE ReadElements(_, _, _, _)
ReadElements(text, from, features, elements) ==
  LET value == ReadValue(text, from, features)
      token == AfterComments(text, value.at)
      read == Append(elements, value.value)
  IN  IF ~value.ok THEN
        Failure(value.errors, Recover(text, value.at, "]"))
      ELSE IF token.type = "]" THEN Read(ArrayOf(read), token.end)
      ELSE IF token.type # "," THEN Fail(text, token.end, "]")
      ELSE ReadElements(text, token.end, features, read)

ReadValue(text, from, features) ==
  LET token == SkipCommentTokens(text, from, features)
      first == Behind(text, token.end, Spaces)
      decoded == DecodeString(Inside(text, token), 1, <<>>)
  IN  CASE token.type = "{" ->
             ReadMembers(text, token.end, features, <<>>, Object(<<>>))
        [] token.type = "[" ->
             IF CharAt(text, first) = 93 THEN Read(ArrayOf(<<>>), first + 1)
             ELSE ReadElements(text, first, features, <<>>)
        [] token.type = "number" ->
             DecodeNumber(TextOf(text, token), token.end)
        [] token.type = "string" ->
             IF decoded.ok THEN Read(StringValue(decoded.decoded), token.end)
             ELSE Failure(1, token.end)
        [] token.type = "true" -> Read(BoolValue(TRUE), token.end)
        [] token.type = "false" -> Read(BoolValue(FALSE), token.end)
        [] token.type = "null" -> Read(Null, token.end)
        [] OTHER -> Failure(1, token.end)

\* parse: what follows the value is not looked at.  root.isArray() and
\* isObject() depend on the first token only, also where reading fails.
Parse(text, features) ==
  LET root == ReadValue(text, 1, features)
      token == SkipCommentTokens(text, 1, features)
  IN  IF features.strictRoot /\ token.type \notin {"{", "["}
        THEN Failure(root.errors + 1, root.at)
        ELSE root
=============================================================================
