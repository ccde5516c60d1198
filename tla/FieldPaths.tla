------------------------------ MODULE FieldPaths ------------------------------
(***************************************************************************)
(* The paths by which an update of an entity names its fields              *)
(* (sendtablescs2/field_path.go).                                          *)
(*                                                                         *)
(* A path is a list of indexes. The reader keeps one in an array of fixed  *)
(* length with the position of its last index, and every operation of the  *)
(* Huffman coded list edits that array: it takes indexes off, adds to the  *)
(* indexes that are left and puts new ones behind them. Several operations *)
(* put an index there by adding to what the array holds, so that they rely *)
(* on the zeros that the operations before them left behind the path.      *)
(*                                                                         *)
(* An operation is a record: how many indexes it takes off (pop), what it  *)
(* adds to the index at each position (plus), which indexes it puts behind *)
(* (push) and whether it puts them by addition (adding).                   *)
(***************************************************************************)
EXTENDS Integers, Sequences

CONSTANT Depth      \* how many indexes a path can have (7)

ASSUME DepthAssumption == Depth \in Nat \ {0}

Positions == 0..(Depth - 1)

\* newFieldPath, reset
NewFieldPath == [path |-> [i \in Positions |-> IF i = 0 THEN -1 ELSE 0], last |-> 0]

\* The indexes of a path, which is all that is copied to the list of paths.
Active(fp) == [i \in 1..(fp.last + 1) |-> fp.path[i - 1]]

\* A pop that forgets to zero what it takes off.
Popped_Stale(fp, n) == [fp EXCEPT !.last = @ - n]

\* pop
Popped(fp, n) ==
    [path |-> [i \in Positions |-> IF i \in (fp.last - n + 1)..fp.last THEN 0 ELSE fp.path[i]],
     last |-> fp.last - n]

Increased(fp, plus) ==
    [fp EXCEPT !.path = [i \in Positions |-> IF i <= fp.last THEN @[i] + plus[i] ELSE @[i]]]

Pushed(fp, push, adding) ==
    [path |-> [i \in Positions |->
                  IF i \in (fp.last + 1)..(fp.last + Len(push))
                  THEN push[i - fp.last] + (IF adding THEN fp.path[i] ELSE 0)
                  ELSE fp.path[i]],
     last |-> fp.last + Len(push)]

\* fieldPathTable[...].fn
Applied(fp, op) == Pushed(Increased(Popped(fp, op.pop), op.plus), op.push, op.adding)

-----------------------------------------------------------------------------
(***************************************************************************)
(* The operations of fieldPathTable, by what their arguments may be: d is  *)
(* an increment of the last index, ds one for every index and xs the       *)
(* indexes put behind. at is the position of the last index before the     *)
(* operation.                                                              *)
(***************************************************************************)
Only(i, d) == [j \in Positions |-> IF j = i THEN d ELSE 0]

\* PlusOne to PlusN
PlusOp(at, d) == [pop |-> 0, plus |-> Only(at, d), push |-> <<>>, adding |-> FALSE]

\* PushOneLeftDelta..., PushTwoPack5LeftDeltaZero, PushThreePack5LeftDeltaZero
PushOp(at, d, xs) == [pop |-> 0, plus |-> Only(at, d), push |-> xs, adding |-> FALSE]

\* PushTwoLeftDelta..., PushThreeLeftDelta..., PushN
PushAddOp(at, d, xs) == [pop |-> 0, plus |-> Only(at, d), push |-> xs, adding |-> TRUE]

\* PushNAndNonTopological
PushNonTopologicalOp(ds, xs) == [pop |-> 0, plus |-> ds, push |-> xs, adding |-> FALSE]

\* PopOnePlus..., PopAllButOnePlus..., PopNPlus...
PopOp(at, n, d) == [pop |-> n, plus |-> Only(at - n, d), push |-> <<>>, adding |-> FALSE]

\* PopNAndNonTopographical, NonTopoComplex, NonTopoComplexPack4Bits
NonTopoOp(n, ds) == [pop |-> n, plus |-> ds, push |-> <<>>, adding |-> FALSE]

\* NonTopoPenultimatePlusOne
PenultimateOp(at) == [pop |-> 0, plus |-> Only(at - 1, 1), push |-> <<>>, adding |-> FALSE]

\* What an operation means to the writer of the list: the path behind path.
Meant(path, op) ==
    [i \in 1..(Len(path) - op.pop) |-> path[i] + op.plus[i - 1]] \o op.push
=============================================================================
