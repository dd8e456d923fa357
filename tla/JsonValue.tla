----------------------------- MODULE JsonValue -----------------------------
(***************************************************************************)
(* Json::Value, with which every getter and report is put together.  Text  *)
(* is a sequence of bytes; a real number counts hundredths; comments are   *)
(* left out, no code of the server sets one.                               *)
(*                                                                         *)
(* The fields of a record have the type in their name: values of different *)
(* types are never the same.                                               *)
(***************************************************************************)
EXTENDS Integers, Sequences, FiniteSets, SequencesExt

CONSTANTS
  MaxInt,         \* Value::maxInt; minInt is -MaxInt - 1
  MaxLargestInt   \* Value::maxLargestInt, of twice as many bits

MaxUInt == (2 * MaxInt) + 1
MaxLargestUInt == (2 * MaxLargestInt) + 1

Null == [type |-> "null"]
IntValue(n) == [type |-> "int", int |-> n]
UIntValue(n) == [type |-> "uint", uint |-> n]
RealValue(x) == [type |-> "real", real |-> x]
BoolValue(b) == [type |-> "boolean", boolean |-> b]
Array(f) == [type |-> "array", array |-> f]
Object(f) == [type |-> "object", object |-> f]

\* A char* ends at its first NUL.
CString(s) ==
  LET nul == SelectInSeq(s, LAMBDA c : c = 0)
  IN  IF nul = 0 THEN s ELSE SubSeq(s, 1, nul - 1)

StringValue(s) == [type |-> "string", string |-> CString(s)]

\* An array of the values of a sequence; an index that an array does not have
\* was never asked for, or erased.
ArrayOf(values) == Array([i \in 0 .. Len(values) - 1 |-> values[i + 1]])

-----------------------------------------------------------------------------
(* Arrays and objects.  A step of a path is an index or a key.             *)

Index(i) == [index |-> i]
Key(s) == [key |-> CString(s)]
IsIndex(step) == DOMAIN step = {"index"}

\* The map of an array or an object; null has an empty one.
Members(v) ==
  CASE v.type = "array" -> v.array [] v.type = "object" -> v.object
    [] OTHER -> <<>>

\* A slip: the values that an array has are counted.
SizeCounted(v) == Cardinality(DOMAIN Members(v))

\* size(): of an array the highest index and one.
Size(v) ==
  IF v.type = "array"
    THEN IF DOMAIN v.array = {} THEN 0 ELSE 1 + Max(DOMAIN v.array)
    ELSE Cardinality(DOMAIN Members(v))

\* JSON_ASSERT of both operator[].
MayStep(v, step) ==
  v.type \in {"null", IF IsIndex(step) THEN "array" ELSE "object"}

StepOf(step) == IF IsIndex(step) THEN step.index ELSE step.key

\* operator[] const: Value::null for what is not there.
At(v, step) ==
  IF v.type # "null" /\ StepOf(step) \in DOMAIN Members(v)
    THEN Members(v)[StepOf(step)] ELSE Null

RECURSIVE Get(_, _)
Get(v, path) == IF path = <<>> THEN v ELSE Get(At(v, Head(path)), Tail(path))

MayGet(v, path) ==
  \A n \in 1 .. Len(path) : MayStep(Get(v, SubSeq(path, 1, n - 1)), path[n])

\* operator[] along a path, then operator=: null becomes an array or an object
\* on the way, and what is not there null.
RECURSIVE Put(_, _, _)
Put(v, path, w) ==
  IF path = <<>> THEN w
  ELSE LET step == Head(path)
           entry == StepOf(step) :> Put(At(v, step), Tail(path), w)
       IN  IF IsIndex(step) THEN Array(entry @@ Members(v))
                            ELSE Object(entry @@ Members(v))

AppendValue(v, w) == Put(v, <<Index(Size(v))>>, w)

Erase(f, keys) == [k \in DOMAIN f \ keys |-> f[k]]

\* resize of null or an array.
Resize(v, newSize) ==
  IF newSize = 0 THEN Array(<<>>)
  ELSE IF newSize > Size(v)
         THEN Put(v, <<Index(newSize - 1)>>, Null)
         ELSE Array(Erase(Members(v), newSize .. Size(v) - 1))

\* "assert( size() == newSize )" at its end: an array with gaps, of which the
\* last value kept is missing, ends the program.
MayResize(v, newSize) ==
  v.type \in {"null", "array"} /\ Size(Resize(v, newSize)) = newSize

Clear(v) ==
  CASE v.type = "array" -> Array(<<>>) [] v.type = "object" -> Object(<<>>)
    [] OTHER -> v

RemoveMember(v, key) ==
  IF v.type = "null" THEN v ELSE Object(Erase(v.object, {CString(key)}))

\* strcmp(a, b) < 0, the order of an object's names.
Before(a, b) ==
  \E n \in 0 .. Len(a) :
    /\ n < Len(b) /\ SubSeq(a, 1, n) = SubSeq(b, 1, n)
    /\ n = Len(a) \/ a[n + 1] < b[n + 1]

GetMemberNames(v) == SetToSortSeq(DOMAIN v.object, Before)
=============================================================================
