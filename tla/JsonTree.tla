------------------------------ MODULE JsonTree ------------------------------
(***************************************************************************)
(* What the operations of Json::Value promise: a tree in which an array is *)
(* a sequence without gaps.  A value put behind its end moves the end, with *)
(* nulls in between.                                                       *)
(***************************************************************************)
EXTENDS Integers, Sequences, SequencesExt

CONSTANTS
  Leaves,    \* values without children, Nothing among them
  Indices,   \* of arrays, from 0
  Names,     \* of members
  Nothing,   \* null
  Depth      \* how far below the root a value may be

VARIABLE tree

IsArray(t) == t = Nothing \/ DOMAIN t = {"items"}
IsObject(t) == t = Nothing \/ DOMAIN t = {"fields"}

Items(t) == IF t = Nothing THEN <<>> ELSE t.items
Fields(t) == IF t = Nothing THEN <<>> ELSE t.fields

\* The items, or more if n is more.
Padded(items, n) ==
  [i \in 1 .. Max({n, Len(items)}) |->
     IF i <= Len(items) THEN items[i] ELSE Nothing]

Item(t, i) == Padded(Items(t), i + 1)[i + 1]
Field(t, name) ==
  IF name \in DOMAIN Fields(t) THEN Fields(t)[name] ELSE Nothing

WithItem(t, i, item) ==
  [items |-> [Padded(Items(t), i + 1) EXCEPT ![i + 1] = item]]
WithField(t, name, field) == [fields |-> (name :> field) @@ Fields(t)]

Appended(t) == {[items |-> Append(Items(t), leaf)] : leaf \in Leaves}

Resized(t) ==
  {[items |-> SubSeq(Padded(Items(t), n), 1, n)] :
     n \in {0} \cup {i + 1 : i \in Indices}}

WithoutSome(t) ==
  {[fields |-> [k \in DOMAIN Fields(t) \ gone |-> Fields(t)[k]]] :
     gone \in {DOMAIN Fields(t)} \cup {{name} : name \in Names}}

\* What one value may become.
Changed(t) ==
  Leaves \cup (IF IsArray(t) THEN Appended(t) \cup Resized(t) ELSE {})
         \cup (IF IsObject(t) /\ t # Nothing THEN WithoutSome(t) ELSE {})

\* What a tree may become when it, or one value below it, changes.
RECURSIVE Becomes(_, _, _)
Becomes(t, u, depth) ==
  \/ u \in Changed(t)
  \/ /\ depth > 0 /\ IsArray(t) /\ IsArray(u)
     /\ \E i \in Indices : /\ u = WithItem(t, i, Item(u, i))
                           /\ Becomes(Item(t, i), Item(u, i), depth - 1)
  \/ /\ depth > 0 /\ IsObject(t) /\ IsObject(u)
     /\ \E name \in Names :
          /\ u = WithField(t, name, Field(u, name))
          /\ Becomes(Field(t, name), Field(u, name), depth - 1)

Init == tree = Nothing

Next == Becomes(tree, tree', Depth)

Spec == Init /\ [][Next]_tree
=============================================================================
