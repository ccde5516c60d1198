----------------------------- MODULE EntityFields -----------------------------
(***************************************************************************)
(* The fields of an entity as updates change them (Entity.readFields,      *)
(* sendtablescs2/entity.go): an update is a list of paths and the values   *)
(* of these paths, and each value is stored and given to the handlers of   *)
(* its field. The code reads the list to its end before the first value;   *)
(* no operation on a path looks at the values and no value moves the path, *)
(* so that a step here is one path and its value.                          *)
(*                                                                         *)
(* The class of the entity has scalar fields and collections; the value of *)
(* a collection is its length, and its elements are fields below it. The   *)
(* path of a table of fixed size is a field too, the flag that says        *)
(* whether the table is there, which the code stores in the cell where it  *)
(* keeps the table.                                                        *)
(*                                                                         *)
(* The server is not in this repository. It knows the values of the fields *)
(* and the lengths of the collections, and it writes only fields that are  *)
(* there: an element below the length of its collection.                   *)
(***************************************************************************)
EXTENDS FieldPaths, FieldState

CONSTANTS
    Scalars,        \* the paths of the scalar fields
    Flags,          \* the paths of the tables of fixed size
    Collections,    \* the paths of the collections
    Values,         \* what a scalar may hold
    MaxLength,      \* bound on the lengths of collections
    Pushes,         \* bound on the lists of indexes an operation puts behind a path
    KeyIndexes,     \* the longest path that has a flat key (4)
    KeyRadix        \* how many values an index of a flat key may have (2^14)

ASSUME BoundsAssumption == MaxLength \in Nat /\ Pushes \in Nat
ASSUME KeyAssumption == KeyIndexes \in Nat /\ KeyRadix \in Nat \ {0}

VARIABLES
    value,          \* the server's values: a function on the scalars that have one
    length,         \* the server's lengths: a function on the collections
    meant,          \* the path the server wrote last
    fp,             \* the path the parser read last
    tree,           \* Entity.state
    notified        \* the fields whose handlers the last value was given to

vars == <<value, length, meant, fp, tree, notified>>

ClassPaths == Scalars \cup Flags \cup Collections
Lengths == 0..MaxLength

-----------------------------------------------------------------------------
IsBelow(p, c) == Len(p) > Len(c) /\ SubSeq(p, 1, Len(c)) = c

\* A path of a class has indexes, a field is of one kind, and below a scalar is no field.
ASSUME ClassAssumption ==
    /\ \A p \in ClassPaths : p \in Seq(Nat) /\ p # <<>>
    /\ Collections \cap (Scalars \cup Flags) = {} /\ Scalars \cap Flags = {}
    /\ \A s \in Scalars, p \in ClassPaths : ~IsBelow(p, s)
    /\ Slice \notin Values

\* The field is there: each collection above it is long enough.
Exists(p, lengths) ==
    /\ p \in ClassPaths
    /\ \A c \in Collections : IsBelow(p, c) => p[Len(c) + 1] < lengths[c]

\* The server gives the field x; the elements a collection loses lose their values.
ServerSets(p, x) ==
    IF p \in Collections
    THEN LET lengths == [c \in Collections |->
                            IF c = p THEN x ELSE IF Exists(c, [length EXCEPT ![p] = x])
                            THEN length[c] ELSE 0]
         IN  /\ length' = lengths
             /\ value' = [q \in {q \in DOMAIN value : Exists(q, lengths)} |-> value[q]]
    ELSE /\ value' = [q \in DOMAIN value \cup {p} |-> IF q = p THEN x ELSE value[q]]
         /\ UNCHANGED length

-----------------------------------------------------------------------------
\* The indexes of a path as the digits of a number, the first the lowest, below a highest digit.
Packed(p, highest) ==
    LET digit(i) == IF i <= Len(p) THEN p[i] ELSE 0
        shifted[n \in 0..KeyIndexes] ==
            IF n = 0 THEN highest ELSE KeyRadix * shifted[n - 1] + digit(KeyIndexes + 1 - n)
    IN  shifted[KeyIndexes]

HasFlatKey(p) == Len(p) <= KeyIndexes /\ \A i \in 1..Len(p) : p[i] \in 0..(KeyRadix - 1)

\* A key that leaves out how long the path is.
FlatKey_NoLast(p) == IF HasFlatKey(p) THEN {Packed(p, 0)} ELSE {}

\* fpFlatKey: the key of a path, if it has one.
FlatKey(p) == IF HasFlatKey(p) THEN {Packed(p, Len(p) - 1)} ELSE {}

\* dispatchUpdate: the fields whose handlers are called for the value at p; there is a handler
\* on every field, stored under the key of its path (addHandlerByFP) or else under its name.
Handled(p) ==
    IF FlatKey(p) # {} THEN {q \in ClassPaths : FlatKey(q) = FlatKey(p)} ELSE {p}

-----------------------------------------------------------------------------
Init ==
    /\ value = [p \in {} |-> Empty]
    /\ length = [c \in Collections |-> 0]
    /\ meant = <<-1>>
    /\ fp = NewFieldPath
    /\ tree = NewTree
    /\ notified = {}

\* The server wrote op and a value as the next field of the update; the parser reads both.
ReadField(op) ==
    LET path == Meant(meant, op)
        at == Active(Applied(fp, op))
    IN  /\ Exists(path, length)
        /\ meant' = path
        /\ fp' = Applied(fp, op)
        /\ \E x \in IF path \in Collections THEN Lengths ELSE Values :
              /\ ServerSets(path, x)
              /\ tree' = IF at \in Collections THEN SetLength(tree, at, x) ELSE Set(tree, at, x)
        /\ notified' = Handled(at)

Fits(xs) == fp.last + Len(xs) < Depth
\* Increments of the indexes up to the last of n.
Deltas(n) == {ds \in [Positions -> -1..1] : \A i \in Positions : i > n => ds[i] = 0}
Indexes == UNION {[1..n -> Lengths] : n \in 1..Pushes}

Plus == \E d \in 1..2 : ReadField(PlusOp(fp.last, d))

Push == \E d \in 0..2, xs \in Indexes : Fits(xs) /\ ReadField(PushOp(fp.last, d, xs))

PushAdding == \E d \in 0..2, xs \in Indexes : Fits(xs) /\ ReadField(PushAddOp(fp.last, d, xs))

PushNAndNonTopological ==
    \E ds \in Deltas(fp.last), xs \in Indexes : Fits(xs) /\ ReadField(PushNonTopologicalOp(ds, xs))

PopPlus == \E n \in 1..fp.last, d \in 0..1 : ReadField(PopOp(fp.last, n, d))

NonTopo == \E n \in 0..fp.last : \E ds \in Deltas(fp.last - n) : ReadField(NonTopoOp(n, ds))

NonTopoPenultimatePlusOne == fp.last > 0 /\ ReadField(PenultimateOp(fp.last))

\* The list ends; the next update starts with a new path.
FieldPathEncodeFinish ==
    /\ meant' = <<-1>>
    /\ fp' = NewFieldPath
    /\ notified' = {}
    /\ UNCHANGED <<value, length, tree>>

Next ==
    \/ Plus \/ Push \/ PushAdding \/ PushNAndNonTopological
    \/ PopPlus \/ NonTopo \/ NonTopoPenultimatePlusOne \/ FieldPathEncodeFinish

Spec == Init /\ [][Next]_vars

-----------------------------------------------------------------------------
\* The path has zeros behind its last index, every slice is as long as it may be and empty
\* beyond its length, so that a slice that grows again shows none of what it lost, and the
\* slices are those the cells lead to (fieldPath, fieldState).
TypeOK ==
    /\ fp.last \in Positions
    /\ \A i \in Positions : i > fp.last => fp.path[i] = 0
    /\ <<>> \in DOMAIN tree
    /\ \A p \in DOMAIN tree :
          /\ tree[p].len <= Capacity(tree[p])
          /\ \A i \in 1..Capacity(tree[p]) :
                /\ tree[p].cells[i] = Slice => Append(p, i - 1) \in DOMAIN tree
                /\ i > tree[p].len => tree[p].cells[i] = Empty

\* The path read is the path the server wrote, whatever operations it wrote it with
\* (fieldPathTable).
PathAsMeant == Active(fp) = meant

\* The entity has the server's values and lengths after every field: no value of another field,
\* none of an element that was removed, and no lost table (readFields).
FieldsFollow ==
    /\ \A p \in Scalars : Get(tree, p) = IF p \in DOMAIN value THEN value[p] ELSE Empty
    /\ \A c \in Collections :
          IF Get(tree, c) = Slice THEN tree[c].len = length[c] ELSE length[c] = 0

\* A value is given to the handlers of its own field and to no others (dispatchUpdate).
HandlersOfTheField == notified \subseteq {meant} /\ (meant \in ClassPaths => meant \in notified)
=============================================================================
