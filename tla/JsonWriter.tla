----------------------------- MODULE JsonWriter -----------------------------
(***************************************************************************)
(* json_writer.cpp: FastWriter, which almost every answer goes through,    *)
(* StyledWriter, which two do, and StyledStreamWriter.                     *)
(***************************************************************************)
EXTENDS JsonValue

CONSTANTS
  RightMargin   \* rightMargin_

Quote == 34
Backslash == 92
NewLine == <<10>>
TextOfNull == <<110, 117, 108, 108>>
TextOfTrue == <<116, 114, 117, 101>>
TextOfFalse == <<102, 97, 108, 115, 101>>

\* uintToString.
RECURSIVE Digits(_)
Digits(n) ==
  IF n < 10 THEN <<48 + n>> ELSE Digits(n \div 10) \o <<48 + (n % 10)>>

IntText(n) == IF n < 0 THEN <<45>> \o Digits(-n) ELSE Digits(n)

\* "%#.16g" of so many hundredths: sixteen digits from the first that is not 0.
Printed(x) ==
  LET n == IF x < 0 THEN -x ELSE x
      places == CASE n = 0 -> 15 [] n \in 1 .. 9 -> 17 [] n \in 10 .. 99 -> 16
                  [] OTHER -> 16 - Len(Digits(n \div 100))
  IN  (IF x < 0 THEN <<45>> ELSE <<>>) \o Digits(n \div 100) \o <<46>>
      \o [i \in 1 .. places |-> CASE i = 1 -> 48 + ((n \div 10) % 10)
                                  [] i = 2 -> 48 + (n % 10) [] OTHER -> 48]

\* valueToString(double): all zeros but one are cut off.
RealText(x) ==
  LET text == Printed(x)
      last == Max({i \in DOMAIN text : text[i] # 48})
  IN  IF last + 1 < Len(text) THEN SubSeq(text, 1, last + 1) ELSE text

HexDigit(n) == IF n < 10 THEN 48 + n ELSE 55 + n

\* A slip: the backslash is not among what is escaped.
EscapedButBackslash(c) ==
  CASE c = Quote -> <<Backslash, c>>
    [] c = 10 -> <<Backslash, 110>>
    [] c \in 1 .. 31 \ {10} ->
         <<Backslash, 117, 48, 48, HexDigit(c \div 16), HexDigit(c % 16)>>
    [] OTHER -> <<c>>

Escaped(c) ==
  CASE c \in {Quote, Backslash} -> <<Backslash, c>>
    [] c = 8 -> <<Backslash, 98>> [] c = 12 -> <<Backslash, 102>>
    [] c = 10 -> <<Backslash, 110>> [] c = 13 -> <<Backslash, 114>>
    [] c = 9 -> <<Backslash, 116>>
    [] c \in 1 .. 31 \ {8, 9, 10, 12, 13} ->
         <<Backslash, 117, 48, 48, HexDigit(c \div 16), HexDigit(c % 16)>>
    [] OTHER -> <<c>>

\* valueToQuotedString.
Quoted(s) ==
  <<Quote>> \o FlattenSeq([i \in DOMAIN s |-> Escaped(s[i])]) \o <<Quote>>

\* What all writers do with a value that has no children.
LeafText(v) ==
  CASE v.type = "null" -> TextOfNull
    [] v.type = "int" -> IntText(v.int)
    [] v.type = "uint" -> Digits(v.uint)
    [] v.type = "real" -> RealText(v.real)
    [] v.type = "string" -> Quoted(v.string)
    [] v.type = "boolean" -> IF v.boolean THEN TextOfTrue ELSE TextOfFalse

Between(texts, separator) ==
  FlattenSeq([n \in DOMAIN texts |->
                IF n = 1 THEN texts[n] ELSE separator \o texts[n]])

\* FastWriter::writeValue.
RECURSIVE FastValue(_, _)
FastValue(v, yaml) ==
  CASE v.type = "array" ->
         <<91>> \o Between([n \in 1 .. Size(v) |->
                              FastValue(At(v, Index(n - 1)), yaml)], <<44>>)
         \o <<93>>
    [] v.type = "object" ->
         LET names == GetMemberNames(v)
         IN  <<123>>
             \o Between([n \in DOMAIN names |->
                           Quoted(names[n]) \o (IF yaml THEN <<58, 32>>
                                                        ELSE <<58>>)
                           \o FastValue(v.object[names[n]], yaml)], <<44>>)
             \o <<125>>
    [] OTHER -> LeafText(v)

FastWrite(v, yaml) == FastValue(v, yaml) \o NewLine

-----------------------------------------------------------------------------
(* The styled writers: what is written, and how far lines are indented.    *)

\* writeIndent: StyledWriter knows what it has written, the stream's does not.
Indented(writer, document, indent) ==
  LET spaces == [i \in 1 .. indent |-> IF writer = "styled" THEN 32 ELSE 9]
  IN  IF writer = "stream" \/ document = <<>> THEN
        (IF writer = "stream" THEN document \o NewLine ELSE document) \o spaces
      ELSE IF Last(document) = 32 THEN document
      ELSE IF Last(document) = 10 THEN document \o spaces
      ELSE document \o NewLine \o spaces

IndentSize(writer) == IF writer = "styled" THEN 3 ELSE 1

\* isMultineArray.
IsMultineArray(v) ==
  LET child(n) == At(v, Index(n - 1))
      length(n) == IF child(n).type \in {"array", "object"} THEN 2
                   ELSE Len(LeafText(child(n)))
      sum == FoldLeft(LAMBDA s, n : s + length(n), 4 + ((Size(v) - 1) * 2),
                      [n \in 1 .. Size(v) |-> n])
  IN  \/ Size(v) * 3 >= RightMargin
      \/ \E n \in 1 .. Size(v) : Size(child(n)) > 0
      \/ sum >= RightMargin

\* An array or object without children, or a leaf, as pushValue gets it.
Pushed(v) ==
  CASE v.type = "array" -> <<91, 93>> [] v.type = "object" -> <<123, 125>>
    [] OTHER -> LeafText(v)

\* writeValue and writeArrayValue.  The texts of childValues_, where an array
\* on several lines has them, are those writeValue writes.
RECURSIVE Styled(_, _, _, _)
Styled(writer, document, indent, v) ==
  LET inner == indent + IndentSize(writer)
      separator(n) == IF n = Size(v) THEN <<>> ELSE <<44>>
      item(doc, n) ==
        Styled(writer, Indented(writer, doc, inner), inner,
               At(v, Index(n - 1))) \o separator(n)
      names == GetMemberNames(v)
      member(doc, n) ==
        Styled(writer, Indented(writer, doc, inner) \o Quoted(names[n])
                       \o <<32, 58, 32>>, inner, v.object[names[n]])
        \o separator(n)
      all(open, each(_, _), close) ==
        Indented(writer,
                 FoldLeft(each, Indented(writer, document, indent) \o open,
                          [n \in 1 .. Size(v) |-> n]),
                 indent) \o close
  IN  CASE Size(v) = 0 -> document \o Pushed(v)
        [] Size(v) > 0 /\ v.type = "object" -> all(<<123>>, member, <<125>>)
        [] Size(v) > 0 /\ v.type = "array" /\ IsMultineArray(v) ->
             all(<<91>>, item, <<93>>)
        [] OTHER ->
             document \o <<91, 32>>
             \o Between([n \in 1 .. Size(v) |-> Pushed(At(v, Index(n - 1)))],
                        <<44, 32>>)
             \o <<32, 93>>

StyledWrite(writer, v) == Styled(writer, <<>>, 0, v) \o NewLine
=============================================================================
