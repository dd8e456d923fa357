--------------------------- MODULE JsonDocuments ---------------------------
(***************************************************************************)
(* A document's life: built member by member as the getters build their    *)
(* answers, written by one of the writers, and read again by a client,     *)
(* here json_reader.cpp itself.                                            *)
(***************************************************************************)
EXTENDS JsonWriter, JsonReader

CONSTANTS
  Leaves,       \* values assigned and appended
  Paths,        \* where, of at most two steps
  Names,        \* keys in Paths
  Indices,      \* of arrays in Paths; they are resized to have one more
  MaxChanges    \* bound: changes of one document

VARIABLES
  root,      \* Json::Value
  changes,   \* history: how many
  document,  \* what was written of it, or nothing yet
  features,  \* of the reader that has read it
  result     \* of Reader::parse

docVars == <<root, changes, document, features, result>>

NoResult == [ok |-> FALSE, errors |-> 0]

Change(path, value) ==
  /\ document = <<>> /\ changes < MaxChanges
  /\ root' = Put(root, path, value)
  /\ changes' = changes + 1
  /\ UNCHANGED <<document, features, result>>

Assign(path, leaf) == MayGet(root, path) /\ Change(path, leaf)

AppendTo(path, leaf) ==
  /\ MayGet(root, path)
  /\ Get(root, path).type \in {"null", "array"}
  /\ Change(path, AppendValue(Get(root, path), leaf))

ResizeTo(path, size) ==
  /\ MayGet(root, path)
  /\ MayResize(Get(root, path), size)
  /\ Change(path, Resize(Get(root, path), size))

ClearAt(path) ==
  /\ MayGet(root, path)
  /\ Get(root, path).type \in {"null", "array", "object"}
  /\ Change(path, Clear(Get(root, path)))

RemoveMemberAt(path, name) ==
  /\ MayGet(root, path)
  /\ Get(root, path).type \in {"null", "object"}
  /\ Change(path, RemoveMember(Get(root, path), name))

Write(text) ==
  /\ document = <<>>
  /\ document' = text
  /\ UNCHANGED <<root, changes, features, result>>

ReadDocument ==
  /\ document # <<>> /\ result = NoResult
  /\ features' \in {All, StrictMode}
  /\ result' = Parse(document, features')
  /\ UNCHANGED <<root, changes, document>>

DocumentInit ==
  /\ root = Null /\ changes = 0
  /\ document = <<>> /\ features = All /\ result = NoResult

DocumentNext ==
  \/ \E path \in Paths :
       \/ \E leaf \in Leaves : Assign(path, leaf) \/ AppendTo(path, leaf)
       \/ \E size \in {0} \cup {i + 1 : i \in Indices} : ResizeTo(path, size)
       \/ \E name \in Names : RemoveMemberAt(path, name)
       \/ ClearAt(path)
  \/ \E yaml \in BOOLEAN : Write(FastWrite(root, yaml))
  \/ \E writer \in {"styled", "stream"} : Write(StyledWrite(writer, root))
  \/ ReadDocument

DocumentSpec == DocumentInit /\ [][DocumentNext]_docVars

-----------------------------------------------------------------------------

\* A value as JSON has it: integers of one kind, arrays without gaps.
RECURSIVE Plain(_)
Plain(v) ==
  CASE v.type = "int" -> [number |-> v.int]
    [] v.type = "uint" -> [number |-> v.uint]
    [] v.type = "array" ->
         [items |-> [i \in 1 .. Size(v) |-> Plain(At(v, Index(i - 1)))]]
    [] v.type = "object" ->
         [fields |-> [k \in DOMAIN v.object |-> Plain(v.object[k])]]
    [] OTHER -> v

Tree == INSTANCE JsonTree WITH
  tree <- Plain(root), Leaves <- {Plain(leaf) : leaf \in Leaves},
  Nothing <- Plain(Null), Depth <- 2

\* Json::Value's operator[], append, resize, clear and removeMember: whatever
\* the indices an array has in its map, every operation makes of the tree that
\* its readers see what it promises, at one place only.
TreeKept == Tree!Spec

\* FastWriter, StyledWriter, StyledStreamWriter and Reader: what any of them
\* writes is read without an error and as what was written, with its numbers at
\* the limits, escaped characters, gaps in arrays and lines; in strict mode,
\* where the root must be an array or an object, too.
ReadBack ==
  /\ result # NoResult
  /\ features.strictRoot => root.type \in {"array", "object"}
  => result.ok /\ result.errors = 0 /\ Plain(result.value) = Plain(root)
=============================================================================
