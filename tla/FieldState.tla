------------------------------ MODULE FieldState ------------------------------
(***************************************************************************)
(* The values of an entity's fields as sendtablescs2 keeps them            *)
(* (field_state.go, and the resizing of collections in Entity.readFields): *)
(* a tree of slices. A cell of a slice holds nothing, a value or another   *)
(* slice, and a slice has a length and, beyond it, cells it may grow into. *)
(*                                                                         *)
(* The tree is the function from the paths at which a slice is to that     *)
(* slice: its length and its cells up to its capacity.                     *)
(***************************************************************************)
EXTENDS Naturals, Sequences

CONSTANTS
    Cells,          \* the length of a new slice (8; its capacity is twice that)
    Empty,          \* what a cell that holds nothing holds (nil)
    Slice           \* what the cell holds in which another slice is

ASSUME CellsAssumption == Cells \in Nat \ {0} /\ Empty # Slice

Larger(a, b) == IF a > b THEN a ELSE b

Capacity(node) == Len(node.cells)

\* Cell i of a node, counted from 0.
Cell(node, i) == node.cells[i + 1]

EmptyCells(n) == [i \in 1..n |-> Empty]

\* A new slice with the first node.len cells of an old one.
Moved(node, len, capacity) ==
    [len |-> len,
     cells |-> [i \in 1..capacity |-> IF i <= node.len THEN node.cells[i] ELSE Empty]]

\* newFieldState
NewFieldState == [len |-> Cells, cells |-> EmptyCells(2 * Cells)]

\* set: a comparison that takes the capacity for the last index.
Lengthened_CapUnchecked(node, z) ==
    IF node.len > z THEN node
    ELSE IF z > Capacity(node) THEN Moved(node, z + 1, Larger(z + 2, 2 * node.len))
    ELSE [node EXCEPT !.len = z + 1]

\* set: the slice is made long enough for index z.
Lengthened(node, z) ==
    IF node.len > z THEN node
    ELSE IF z + 2 > Capacity(node) THEN Moved(node, z + 1, Larger(z + 2, 2 * node.len))
    ELSE [node EXCEPT !.len = z + 1]

\* readFields: a shrunk slice keeps its old cells beyond its length.
Resized_Unclear(node, n) ==
    IF n <= Capacity(node) THEN [node EXCEPT !.len = n]
    ELSE Moved(node, n, Larger(2 * Capacity(node), n))

\* readFields: the collection gets its new length.
Resized(node, n) ==
    IF n < node.len
    THEN [len |-> n,
          cells |-> [i \in 1..Capacity(node) |->
                        IF i \in (n + 1)..node.len THEN Empty ELSE node.cells[i]]]
    ELSE IF n <= Capacity(node) THEN [node EXCEPT !.len = n]
    ELSE Moved(node, n, Larger(2 * Capacity(node), n))

\* readFields: the slice of a collection whose length is told for the first time.
NewCollection(n) == [len |-> n, cells |-> EmptyCells(Larger(2 * n, Cells))]

-----------------------------------------------------------------------------
Before(path, i) == SubSeq(path, 1, i - 1)

\* The slices that hang together with the root.
Connected(tree) ==
    {p \in DOMAIN tree : \A i \in 1..Len(p) :
        /\ Before(p, i) \in DOMAIN tree
        /\ p[i] < Capacity(tree[Before(p, i)])
        /\ Cell(tree[Before(p, i)], p[i]) = Slice}

Swept(tree) == [p \in Connected(tree) |-> tree[p]]

\* get: what is at a path, nothing when the path leads past the end of a slice or through a value.
Get(tree, path) ==
    IF \A i \in 1..Len(path) :
          /\ Before(path, i) \in DOMAIN tree
          /\ path[i] < tree[Before(path, i)].len
          /\ i < Len(path) => Cell(tree[Before(path, i)], path[i]) = Slice
    THEN Cell(tree[Before(path, Len(path))], path[Len(path)])
    ELSE Empty

\* set: a value takes the place of a value, never of a slice.
Stored(here, x) == IF here = Slice THEN here ELSE x

\* set: every slice on the way is made long enough, and a cell on the way that holds no slice
\* gets a new one.
Set(tree, path, x) ==
    LET ways == {Before(path, i) : i \in 1..Len(path)}
        node(p) == Lengthened(IF p \in DOMAIN tree THEN tree[p] ELSE NewFieldState,
                              path[Len(p) + 1])
        set(p) == [node(p) EXCEPT !.cells[path[Len(p) + 1] + 1] =
                      IF Len(p) + 1 < Len(path) THEN Slice ELSE Stored(@, x)]
    IN  Swept([p \in DOMAIN tree \cup ways |-> IF p \in ways THEN set(p) ELSE tree[p]])

\* readFields: the length n of the collection at path.
SetLength(tree, path, n) ==
    IF Get(tree, path) = Slice THEN Swept([tree EXCEPT ![path] = Resized(@, n)])
    ELSE LET parents == Set(tree, path, Slice)
         IN  [p \in DOMAIN parents \cup {path} |->
                 IF p \in DOMAIN parents THEN parents[p] ELSE NewCollection(n)]

\* newEntity: the tree of a new entity, a slice without a cell in use.
NewTree == [p \in {<<>>} |-> [len |-> 0, cells |-> EmptyCells(2 * Cells)]]
=============================================================================
