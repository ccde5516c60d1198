-------------------------- MODULE EntityFields_proofs --------------------------
(***************************************************************************)
(* The paths of an update are read as they were written, whatever the      *)
(* number of indexes a path may have.                                      *)
(*                                                                         *)
(* The inductive invariant is the agreement of the two paths and the zeros *)
(* behind the last index: an operation that puts indexes there by addition *)
(* puts what it reads only because of them, and those that take indexes    *)
(* off have to leave them. An operation is described by a record, so that  *)
(* one lemma (AppliedAsMeant) holds for all of them, and each action of    *)
(* the specification has to show only that its record is one that may be   *)
(* applied.                                                                *)
(***************************************************************************)
EXTENDS EntityFields, SequenceTheorems, WellFoundedInduction, TLAPS

\* The arrays of paths, and zeros behind the last index.
Paths == [path : [Positions -> Int], last : Positions]
ZeroBehind(f) == \A i \in Positions : i > f.last => f.path[i] = 0

\* An operation that stays in the array.
Applicable(f, op) ==
    /\ op \in [pop : Nat, plus : [Positions -> Int], push : Seq(Int), adding : BOOLEAN]
    /\ op.pop <= f.last
    /\ f.last - op.pop + Len(op.push) < Depth

PathInvariant ==
    /\ fp \in Paths
    /\ ZeroBehind(fp)
    /\ meant = Active(fp)

-----------------------------------------------------------------------------
\* A pop takes the last indexes off and leaves zeros where they were.
LEMMA PoppedPath ==
    ASSUME NEW f \in Paths, ZeroBehind(f), NEW n \in Nat, n <= f.last
    PROVE  /\ Popped(f, n) \in Paths
           /\ Popped(f, n).last = f.last - n
           /\ ZeroBehind(Popped(f, n))
           /\ \A i \in Positions : i <= f.last - n => Popped(f, n).path[i] = f.path[i]
<1>1. f.last \in Nat /\ f.last < Depth /\ f.path \in [Positions -> Int]
  BY DepthAssumption DEF Paths, Positions
<1>2. f.last - n \in Positions
  BY <1>1, DepthAssumption DEF Positions
<1>3. \A i \in Positions : i > f.last - n => i \in (f.last - n + 1)..f.last \/ f.path[i] = 0
  BY <1>1, DepthAssumption DEF ZeroBehind, Positions
<1>4. \A i \in Positions : i <= f.last - n => i \notin (f.last - n + 1)..f.last
  BY <1>1, DepthAssumption DEF Positions
<1> QED
  BY <1>1, <1>2, <1>3, <1>4 DEF Popped, Paths, ZeroBehind

\* An increment changes no index behind the last.
LEMMA IncreasedPath ==
    ASSUME NEW f \in Paths, ZeroBehind(f), NEW plus \in [Positions -> Int]
    PROVE  /\ Increased(f, plus) \in Paths
           /\ Increased(f, plus).last = f.last
           /\ ZeroBehind(Increased(f, plus))
           /\ \A i \in Positions : i <= f.last => Increased(f, plus).path[i] = f.path[i] + plus[i]
<1>1. f.last \in Positions /\ f.path \in [Positions -> Int] /\ \A i \in Positions : i \in Int
  BY DepthAssumption DEF Paths, Positions
<1>2. Increased(f, plus) =
        [path |-> [i \in Positions |-> IF i <= f.last THEN f.path[i] + plus[i] ELSE f.path[i]],
         last |-> f.last]
  BY DEF Increased, Paths
<1>3. \A i \in Positions : i > f.last => ~(i <= f.last)
  BY <1>1, DepthAssumption DEF Positions
<1> QED
  BY <1>1, <1>2, <1>3 DEF Paths, ZeroBehind

\* What is put behind the last index is there afterwards, also when it is added to the zeros.
LEMMA PushedPath ==
    ASSUME NEW f \in Paths, ZeroBehind(f), NEW push \in Seq(Int), NEW adding \in BOOLEAN,
           f.last + Len(push) < Depth
    PROVE  /\ Pushed(f, push, adding) \in Paths
           /\ Pushed(f, push, adding).last = f.last + Len(push)
           /\ ZeroBehind(Pushed(f, push, adding))
           /\ \A i \in Positions : i <= f.last => Pushed(f, push, adding).path[i] = f.path[i]
           /\ \A i \in 1..Len(push) : Pushed(f, push, adding).path[f.last + i] = push[i]
<1> DEFINE new == (f.last + 1)..(f.last + Len(push))
<1>0. f.path \in [Positions -> Int]
  BY DEF Paths
<1>1. f.last \in Nat /\ f.last < Depth /\ Len(push) \in Nat
  BY DepthAssumption DEF Paths, Positions
<1>2. f.last + Len(push) \in Positions
  BY <1>1, DepthAssumption DEF Positions
<1>3. \A i \in Positions : i \in new =>
        /\ i - f.last \in 1..Len(push)
        /\ push[i - f.last] \in Int
        /\ f.path[i] = 0
        /\ push[i - f.last] + (IF adding THEN f.path[i] ELSE 0) = push[i - f.last]
  <2> SUFFICES ASSUME NEW i \in Positions, i \in new
               PROVE  /\ i - f.last \in 1..Len(push)
                      /\ push[i - f.last] \in Int
                      /\ f.path[i] = 0
                      /\ push[i - f.last] + (IF adding THEN f.path[i] ELSE 0) = push[i - f.last]
    OBVIOUS
  <2>1. i - f.last \in 1..Len(push) /\ i > f.last
    BY <1>1, DepthAssumption DEF Positions
  <2>2. push[i - f.last] \in Int
    BY <2>1
  <2>3. f.path[i] = 0
    BY <2>1 DEF ZeroBehind
  <2> QED
    BY <2>1, <2>2, <2>3
<1>4. Pushed(f, push, adding) =
        [path |-> [i \in Positions |-> IF i \in new THEN push[i - f.last] ELSE f.path[i]],
         last |-> f.last + Len(push)]
  BY <1>3 DEF Pushed
<1>5. \A i \in Positions : i <= f.last => i \notin new
  BY <1>1, DepthAssumption DEF Positions
<1>6. \A i \in Positions : i > f.last + Len(push) => i \notin new /\ i > f.last
  BY <1>1, DepthAssumption DEF Positions
<1>7. \A i \in 1..Len(push) : f.last + i \in Positions /\ f.last + i \in new /\ (f.last + i) - f.last = i
  BY <1>1, DepthAssumption DEF Positions
<1>8. Pushed(f, push, adding) \in Paths
  BY <1>0, <1>2, <1>3, <1>4 DEF Paths
<1>9. ZeroBehind(Pushed(f, push, adding))
  BY <1>4, <1>6 DEF ZeroBehind
<1> QED
  BY <1>4, <1>5, <1>7, <1>8, <1>9

\* The positions before one.
LEMMA PositionsBefore ==
    ASSUME NEW n \in Positions
    PROVE  n + 1 \in Nat /\ \A i \in 1..(n + 1) : i - 1 \in Positions
BY DepthAssumption DEF Positions

\* A list that begins like one list and goes on like another.
LEMMA ConcatenationOf ==
    ASSUME NEW all \in Seq(Int), NEW s \in Seq(Int), NEW t \in Seq(Int),
           Len(all) = Len(s) + Len(t),
           \A i \in 1..Len(s) : all[i] = s[i],
           \A i \in 1..Len(t) : all[Len(s) + i] = t[i]
    PROVE  all = s \o t
<1>1. ASSUME NEW i \in 1..Len(all) PROVE all[i] = (s \o t)[i]
  <2>1. CASE i <= Len(s)
    BY <2>1
  <2>2. CASE i > Len(s)
    <3>1. i - Len(s) \in 1..Len(t) /\ Len(s) + (i - Len(s)) = i
      BY <2>2
    <3>2. all[i] = t[i - Len(s)]
      BY <3>1
    <3>3. (s \o t)[i] = t[i - Len(s)]
      BY <2>2
    <3> QED BY <3>2, <3>3
  <2> QED BY <2>1, <2>2
<1>2. s \o t \in Seq(Int) /\ Len(s \o t) = Len(all)
  OBVIOUS
<1> DEFINE both == s \o t
<1>3. both \in Seq(Int) /\ Len(both) = Len(all) /\ \A i \in 1..Len(all) : all[i] = both[i]
  BY <1>1, <1>2
<1> HIDE DEF both
<1>4. all = both
  BY <1>3
<1> QED BY <1>4 DEF both

\* Every operation turns the array into one that holds the path the writer means.
LEMMA AppliedAsMeant ==
    ASSUME NEW f \in Paths, ZeroBehind(f), NEW op, Applicable(f, op)
    PROVE  /\ Applied(f, op) \in Paths
           /\ ZeroBehind(Applied(f, op))
           /\ Active(Applied(f, op)) = Meant(Active(f), op)
<1> DEFINE p == Popped(f, op.pop)
           q == Increased(p, op.plus)
           r == Pushed(q, op.push, op.adding)
<1>1. /\ op.pop \in Nat /\ op.plus \in [Positions -> Int]
      /\ op.push \in Seq(Int) /\ op.adding \in BOOLEAN
      /\ op.pop <= f.last /\ f.last - op.pop + Len(op.push) < Depth
  BY DEF Applicable
<1>2. /\ p \in Paths /\ p.last = f.last - op.pop /\ ZeroBehind(p)
      /\ \A i \in Positions : i <= f.last - op.pop => p.path[i] = f.path[i]
  BY <1>1, PoppedPath
<1>3. /\ q \in Paths /\ q.last = p.last /\ ZeroBehind(q)
      /\ \A i \in Positions : i <= p.last => q.path[i] = p.path[i] + op.plus[i]
  <2> HIDE DEF p
  <2> QED BY <1>1, <1>2, IncreasedPath
<1>4. /\ r \in Paths /\ r.last = q.last + Len(op.push) /\ ZeroBehind(r)
      /\ \A i \in Positions : i <= q.last => r.path[i] = q.path[i]
      /\ \A i \in 1..Len(op.push) : r.path[q.last + i] = op.push[i]
  <2>1. q.last + Len(op.push) < Depth
    BY <1>1, <1>2, <1>3
  <2> HIDE DEF q
  <2> QED BY <1>1, <1>3, <2>1, PushedPath
<1>5. Applied(f, op) = r
  BY DEF Applied
<1> HIDE DEF p, q, r
<1> DEFINE kept == f.last + 1 - op.pop
           head == [i \in 1..kept |-> f.path[i - 1] + op.plus[i - 1]]
<1>6. /\ f.last \in Nat /\ f.last < Depth /\ kept \in Nat /\ Len(op.push) \in Nat
      /\ r.last + 1 = kept + Len(op.push)
  <2>1. f.last \in Nat /\ f.last < Depth
    BY DepthAssumption DEF Paths, Positions
  <2>2. op.pop \in Nat /\ op.pop <= f.last /\ Len(op.push) \in Nat
    BY <1>1
  <2>3. r.last = f.last - op.pop + Len(op.push)
    BY <1>2, <1>3, <1>4
  <2> QED BY <2>1, <2>2, <2>3
<1>7. \A i \in 1..kept : i - 1 \in Positions /\ i - 1 <= f.last - op.pop
  BY SMTT(60), <1>1, <1>6, DepthAssumption DEF Positions
<1>8. \A i \in 1..kept : r.path[i - 1] = head[i]
  BY <1>2, <1>3, <1>4, <1>7
<1>9. \A i \in 1..Len(op.push) : r.path[kept + i - 1] = op.push[i]
  <2>1. \A i \in 1..Len(op.push) : kept + i - 1 = q.last + i
    BY <1>1, <1>2, <1>3, <1>6
  <2> QED BY <1>4, <2>1
<1>10. Meant(Active(f), op) = head \o op.push
  <2>1. Len(Active(f)) = f.last + 1 /\ \A i \in 1..(f.last + 1) : Active(f)[i] = f.path[i - 1]
    BY <1>6 DEF Active
  <2>2. Len(Active(f)) - op.pop = kept
    BY <2>1, <1>1, <1>6
  <2>3. \A i \in 1..kept : Active(f)[i] = f.path[i - 1]
    BY <2>1, <1>1, <1>6
  <2> QED BY <2>2, <2>3 DEF Meant
<1>11. head \in Seq(Int) /\ Len(head) = kept
  <2>1. \A i \in 1..kept : f.path[i - 1] + op.plus[i - 1] \in Int
    BY <1>1, <1>7 DEF Paths
  <2> QED BY <1>6, <2>1
<1>12. Active(r) = head \o op.push
  <2> DEFINE all == Active(r)
  <2>1. all \in Seq(Int) /\ Len(all) = kept + Len(op.push)
    <3>1. r.path \in [Positions -> Int] /\ r.last \in Positions
      BY <1>4 DEF Paths
    <3>2. r.last + 1 \in Nat /\ \A i \in 1..(r.last + 1) : i - 1 \in Positions
      BY <3>1, DepthAssumption, PositionsBefore
    <3>3. \A i \in 1..(r.last + 1) : r.path[i - 1] \in Int
      BY <3>1, <3>2
    <3> QED BY <1>6, <3>2, <3>3 DEF Active
  <2>2. \A i \in 1..(kept + Len(op.push)) : all[i] = r.path[i - 1]
    BY <1>6 DEF Active
  <2> HIDE DEF all
  <2>3. \A i \in 1..kept : all[i] = head[i]
    BY <1>6, <1>8, <2>2
  <2>4. \A i \in 1..Len(op.push) : all[kept + i] = op.push[i]
    <3> HIDE DEF kept, head
    <3>1. \A i \in 1..Len(op.push) : kept + i \in 1..(kept + Len(op.push))
      BY <1>6
    <3>2. ASSUME NEW i \in 1..Len(op.push) PROVE all[kept + i] = op.push[i]
      <4>1. all[kept + i] = r.path[(kept + i) - 1]
        BY <2>2, <3>1
      <4>2. (kept + i) - 1 = kept + i - 1
        BY <1>6
      <4> QED BY <1>9, <4>1, <4>2
    <3> QED BY <3>2
  <2> HIDE DEF head, kept
  <2>5. /\ all \in Seq(Int) /\ head \in Seq(Int) /\ op.push \in Seq(Int)
        /\ Len(all) = Len(head) + Len(op.push)
        /\ \A i \in 1..Len(head) : all[i] = head[i]
        /\ \A i \in 1..Len(op.push) : all[Len(head) + i] = op.push[i]
    BY <1>1, <1>11, <2>1, <2>3, <2>4
  <2>6. all = head \o op.push
    BY <2>5, ConcatenationOf
  <2> QED BY <2>6 DEF all
<1> QED
  BY <1>4, <1>5, <1>10, <1>12

-----------------------------------------------------------------------------
\* A field is read by an operation that may be applied.
LEMMA FieldRead ==
    ASSUME PathInvariant, NEW op, Applicable(fp, op), ReadField(op)
    PROVE  PathInvariant'
<1>1. fp \in Paths /\ ZeroBehind(fp) /\ meant = Active(fp)
  BY DEF PathInvariant
<1>2. fp' = Applied(fp, op) /\ meant' = Meant(meant, op)
  BY DEF ReadField
<1>3. /\ Applied(fp, op) \in Paths /\ ZeroBehind(Applied(fp, op))
      /\ Active(Applied(fp, op)) = Meant(Active(fp), op)
  BY <1>1, AppliedAsMeant
<1> QED
  BY <1>1, <1>2, <1>3 DEF PathInvariant, Active, ZeroBehind

LEMMA OnlyPlus ==
    ASSUME NEW i, NEW d \in Int
    PROVE  Only(i, d) \in [Positions -> Int]
BY DEF Only

\* The lists of indexes put behind a path.
LEMMA IndexLists ==
    ASSUME NEW xs \in Indexes
    PROVE  xs \in Seq(Int)
BY BoundsAssumption DEF Indexes, Lengths

LEMMA DeltaFunctions ==
    ASSUME NEW n, NEW ds \in Deltas(n)
    PROVE  ds \in [Positions -> Int]
BY DEF Deltas

\* A new path is the array of the writer's new path.
LEMMA NewPath == NewFieldPath \in Paths /\ ZeroBehind(NewFieldPath) /\ Active(NewFieldPath) = <<-1>>
<1>1. 0 \in Positions /\ \A i \in Positions : i > 0 => i # 0
  BY DepthAssumption DEF Positions
<1>2. NewFieldPath.last = 0 /\ NewFieldPath.path[0] = -1
  BY <1>1 DEF NewFieldPath
<1>3. Active(NewFieldPath) = [i \in 1..1 |-> NewFieldPath.path[i - 1]]
  BY <1>2 DEF Active
<1>4. Active(NewFieldPath) = <<-1>>
  BY <1>2, <1>3
<1> QED
  BY <1>1, <1>4 DEF NewFieldPath, Paths, ZeroBehind

LEMMA PathInit == Init => PathInvariant
BY NewPath DEF Init, PathInvariant

\* Every action reads a field by an operation that may be applied, or ends the list.
LEMMA FieldsAreRead ==
    ASSUME PathInvariant, Next
    PROVE  FieldPathEncodeFinish \/ \E op : Applicable(fp, op) /\ ReadField(op)
<1> DEFINE n == fp.last
<1>0. n \in Nat /\ n < Depth
  BY DepthAssumption DEF PathInvariant, Paths, Positions
<1>1. CASE Plus
  <2>1. PICK d \in 1..2 : ReadField(PlusOp(n, d))
    BY <1>1 DEF Plus
  <2>2. Applicable(fp, PlusOp(n, d))
    BY <1>0, OnlyPlus DEF Applicable, PlusOp
  <2> QED BY <2>1, <2>2
<1>2. CASE Push
  <2>1. PICK d \in 0..2, xs \in Indexes : Fits(xs) /\ ReadField(PushOp(n, d, xs))
    BY <1>2 DEF Push
  <2>2. Applicable(fp, PushOp(n, d, xs))
    BY <1>0, <2>1, OnlyPlus, IndexLists DEF Applicable, PushOp, Fits
  <2> QED BY <2>1, <2>2
<1>3. CASE PushAdding
  <2>1. PICK d \in 0..2, xs \in Indexes : Fits(xs) /\ ReadField(PushAddOp(n, d, xs))
    BY <1>3 DEF PushAdding
  <2>2. Applicable(fp, PushAddOp(n, d, xs))
    BY <1>0, <2>1, OnlyPlus, IndexLists DEF Applicable, PushAddOp, Fits
  <2> QED BY <2>1, <2>2
<1>4. CASE PushNAndNonTopological
  <2>1. PICK ds \in Deltas(n), xs \in Indexes :
           Fits(xs) /\ ReadField(PushNonTopologicalOp(ds, xs))
    BY <1>4 DEF PushNAndNonTopological
  <2>2. Applicable(fp, PushNonTopologicalOp(ds, xs))
    BY <1>0, <2>1, DeltaFunctions, IndexLists DEF Applicable, PushNonTopologicalOp, Fits
  <2> QED BY <2>1, <2>2
<1>5. CASE PopPlus
  <2>1. PICK k \in 1..n, d \in 0..1 : ReadField(PopOp(n, k, d))
    BY <1>5 DEF PopPlus
  <2>2. Applicable(fp, PopOp(n, k, d))
    <3>1. Only(n - k, d) \in [Positions -> Int]
      BY OnlyPlus
    <3>2. k \in Nat /\ k <= n /\ n - k + 0 < Depth
      BY <1>0, DepthAssumption
    <3>3. <<>> \in Seq(Int) /\ Len(<<>>) = 0
      OBVIOUS
    <3> HIDE DEF n
    <3>4. n - k + Len(<<>>) < Depth
      BY <3>2, <3>3
    <3> USE DEF n
    <3> QED BY <3>1, <3>2, <3>3, <3>4 DEF Applicable, PopOp
  <2> QED BY <2>1, <2>2
<1>6. CASE NonTopo
  <2>1. PICK k \in 0..n : \E ds \in Deltas(n - k) : ReadField(NonTopoOp(k, ds))
    BY <1>6 DEF NonTopo
  <2>2. PICK ds \in Deltas(n - k) : ReadField(NonTopoOp(k, ds))
    BY <2>1
  <2>3. Applicable(fp, NonTopoOp(k, ds))
    <3>1. ds \in [Positions -> Int]
      BY DeltaFunctions
    <3>2. k \in Nat /\ k <= n /\ n - k + 0 < Depth
      BY <1>0, DepthAssumption
    <3>3. <<>> \in Seq(Int) /\ Len(<<>>) = 0
      OBVIOUS
    <3> HIDE DEF n
    <3>4. n - k + Len(<<>>) < Depth
      BY <3>2, <3>3
    <3> USE DEF n
    <3> QED BY <3>1, <3>2, <3>3, <3>4 DEF Applicable, NonTopoOp
  <2> QED BY <2>2, <2>3
<1>7. CASE NonTopoPenultimatePlusOne
  <2>1. ReadField(PenultimateOp(n))
    BY <1>7 DEF NonTopoPenultimatePlusOne
  <2>2. Applicable(fp, PenultimateOp(n))
    BY <1>0, OnlyPlus DEF Applicable, PenultimateOp
  <2> QED BY <2>1, <2>2
<1> QED
  BY <1>1, <1>2, <1>3, <1>4, <1>5, <1>6, <1>7 DEF Next

LEMMA PathStep == PathInvariant /\ [Next]_vars => PathInvariant'
<1> SUFFICES ASSUME PathInvariant, [Next]_vars
             PROVE  PathInvariant'
  OBVIOUS
<1>1. ASSUME NEW op, Applicable(fp, op), ReadField(op) PROVE PathInvariant'
  BY <1>1, FieldRead
<1>2. CASE FieldPathEncodeFinish
  BY <1>2, NewPath DEF FieldPathEncodeFinish, PathInvariant, ZeroBehind, Active, NewFieldPath
<1>3. CASE UNCHANGED vars
  BY <1>3 DEF vars, PathInvariant, ZeroBehind, Active
<1> QED
  BY <1>1, <1>2, <1>3, FieldsAreRead

\* What the two paths have to do with each other in every state, and the zeros behind them.
THEOREM PathsAgree == Spec => []PathInvariant
BY PathInit, PathStep, PTL DEF Spec

\* A path is read as it was written, for every depth of the array and every class
\* (fieldPathTable, readFieldPaths).
THEOREM PathsAsMeant == Spec => []PathAsMeant
<1>1. PathInvariant => PathAsMeant
  BY DEF PathInvariant, PathAsMeant
<1> QED
  BY <1>1, PathsAgree, PTL
-----------------------------------------------------------------------------
(***************************************************************************)
(* Slices. Whether a cell is beyond the length or beyond the capacity      *)
(* makes no difference to what is found there, so that a slice is known by *)
(* its length and what is below it.                                        *)
(***************************************************************************)
Contents == Values \cup {Empty, Slice}
Nodes == [len : Nat, cells : Seq(Contents)]

NodeOK(n) ==
    /\ n \in Nodes
    /\ n.len <= Len(n.cells)
    /\ \A i \in 1..Len(n.cells) : i > n.len => n.cells[i] = Empty

Below(n, z) == IF z < n.len THEN n.cells[z + 1] ELSE Empty

\* A slice of cells that are empty beyond a length.
LEMMA NodeOfCells ==
    ASSUME NEW s \in Seq(Contents), NEW len \in Nat, len <= Len(s),
           \A i \in 1..Len(s) : i > len => s[i] = Empty
    PROVE  LET n == [len |-> len, cells |-> s]
           IN  /\ NodeOK(n)
               /\ n.len = len
               /\ \A z \in Nat : Below(n, z) = IF z < len THEN s[z + 1] ELSE Empty
BY DEF NodeOK, Nodes, Below

\* What is in a cell up to the capacity is what is below the length.
LEMMA CellBelow ==
    ASSUME NEW n, NodeOK(n), NEW z \in Nat
    PROVE  /\ Below(n, z) \in Contents
           /\ z < Capacity(n) => Cell(n, z) = Below(n, z)
           /\ Below(n, z) = Slice <=> z < Capacity(n) /\ Cell(n, z) = Slice
           /\ Below(n, z) # Empty => z < n.len
<1>1. n.len \in Nat /\ n.cells \in Seq(Contents) /\ n.len <= Len(n.cells) /\ Len(n.cells) \in Nat
  BY DEF NodeOK, Nodes
<1>2. z < Len(n.cells) => z + 1 \in 1..Len(n.cells)
  BY <1>1
<1>3. z < Len(n.cells) => n.cells[z + 1] \in Contents
  BY <1>1, <1>2
<1>4. z < Len(n.cells) /\ ~(z < n.len) => n.cells[z + 1] = Empty
  BY <1>1, <1>2 DEF NodeOK
<1>5. Empty \in Contents
  BY DEF Contents
<1> QED
  BY <1>1, <1>3, <1>4, <1>5, CellsAssumption DEF Below, Capacity, Cell

LEMMA MovedNode ==
    ASSUME NEW n, NodeOK(n), NEW len \in Nat, NEW cap \in Nat, n.len <= len, len <= cap
    PROVE  /\ NodeOK(Moved(n, len, cap))
           /\ Moved(n, len, cap).len = len
           /\ \A z \in Nat : Below(Moved(n, len, cap), z) = Below(n, z)
<1> DEFINE s == [i \in 1..cap |-> IF i <= n.len THEN n.cells[i] ELSE Empty]
           m == [len |-> len, cells |-> s]
<1>1. /\ n.len \in Nat /\ n.cells \in Seq(Contents) /\ n.len <= Len(n.cells)
      /\ Len(n.cells) \in Nat /\ Empty \in Contents
  BY DEF NodeOK, Nodes, Contents
<1>2. /\ s \in Seq(Contents) /\ Len(s) = cap
      /\ \A i \in 1..cap : s[i] = IF i <= n.len THEN n.cells[i] ELSE Empty
  BY <1>1
<1>3. m = Moved(n, len, cap)
  BY DEF Moved
<1> HIDE DEF s
<1>4. \A i \in 1..Len(s) : i > len => s[i] = Empty
  BY <1>1, <1>2
<1>5. /\ NodeOK(m) /\ m.len = len
      /\ \A z \in Nat : Below(m, z) = IF z < len THEN s[z + 1] ELSE Empty
  BY <1>2, <1>4, NodeOfCells
<1>6. \A z \in Nat : (IF z < len THEN s[z + 1] ELSE Empty) = Below(n, z)
  <2>1. \A z \in Nat : z < len => z + 1 \in 1..cap
    OBVIOUS
  <2> QED BY <1>1, <1>2, <2>1 DEF Below
<1> QED
  BY <1>3, <1>5, <1>6

\* The length of a slice grows within its capacity.
LEMMA LongerNode ==
    ASSUME NEW n, NodeOK(n), NEW len \in Nat, n.len <= len, len <= Len(n.cells)
    PROVE  /\ NodeOK([n EXCEPT !.len = len])
           /\ [n EXCEPT !.len = len].len = len
           /\ \A z \in Nat : Below([n EXCEPT !.len = len], z) = Below(n, z)
<1> DEFINE m == [n EXCEPT !.len = len]
<1>1. /\ n.len \in Nat /\ n.cells \in Seq(Contents) /\ n.len <= Len(n.cells)
      /\ Len(n.cells) \in Nat
  BY DEF NodeOK, Nodes
<1>2. m \in Nodes /\ m.len = len /\ m.cells = n.cells
  BY DEF NodeOK, Nodes
<1>3. \A i \in 1..Len(n.cells) : i > n.len => n.cells[i] = Empty
  BY DEF NodeOK
<1> HIDE DEF m
<1>4. NodeOK(m)
  BY <1>1, <1>2, <1>3 DEF NodeOK
<1>5. ASSUME NEW z \in Nat PROVE Below(m, z) = Below(n, z)
  <2>1. z < len => z + 1 \in 1..Len(n.cells)
    BY <1>1
  <2>2. z < len /\ ~(z < n.len) => n.cells[z + 1] = Empty
    BY <1>1, <1>3, <2>1
  <2> QED BY <1>1, <1>2, <2>2 DEF Below
<1> QED
  BY <1>2, <1>4, <1>5 DEF m

LEMMA LargerIs ==
    ASSUME NEW a \in Nat, NEW b \in Nat
    PROVE  Larger(a, b) \in Nat /\ Larger(a, b) >= a /\ Larger(a, b) >= b
BY DEF Larger

\* A slice that is made long enough for an index has what it had.
LEMMA LengthenedNode ==
    ASSUME NEW n, NodeOK(n), NEW z \in Nat
    PROVE  /\ NodeOK(Lengthened(n, z))
           /\ z < Lengthened(n, z).len
           /\ z < n.len => Lengthened(n, z) = n
           /\ \A y \in Nat : Below(Lengthened(n, z), y) = Below(n, y)
<1>1. n.len \in Nat /\ Len(n.cells) \in Nat /\ n.len <= Len(n.cells)
  BY DEF NodeOK, Nodes
<1>2. CASE z < n.len
  BY <1>1, <1>2 DEF Lengthened
<1>3. CASE ~(z < n.len) /\ z + 2 > Capacity(n)
  <2> DEFINE cap == Larger(z + 2, 2 * n.len)
  <2>1. cap \in Nat /\ z + 1 <= cap
    <3>1. z + 2 \in Nat /\ 2 * n.len \in Nat
      BY <1>1
    <3>2. cap \in Nat /\ cap >= z + 2
      BY <3>1, LargerIs
    <3> QED BY <3>2
  <2>2. Lengthened(n, z) = Moved(n, z + 1, cap)
    BY <1>1, <1>3 DEF Lengthened
  <2> HIDE DEF cap
  <2>3. z + 1 \in Nat /\ n.len <= z + 1 /\ z < z + 1
    BY <1>1, <1>3
  <2> QED BY <1>3, <2>1, <2>2, <2>3, MovedNode
<1>4. CASE ~(z < n.len) /\ ~(z + 2 > Capacity(n))
  <2>1. Lengthened(n, z) = [n EXCEPT !.len = z + 1]
    BY <1>1, <1>4 DEF Lengthened
  <2>2. z + 1 \in Nat /\ n.len <= z + 1 /\ z < z + 1 /\ z + 1 <= Len(n.cells)
    BY <1>1, <1>4 DEF Capacity
  <2> QED BY <1>4, <2>1, <2>2, LongerNode
<1> QED
  BY <1>2, <1>3, <1>4

\* A slice that is resized keeps what is below both lengths and has nothing else.
LEMMA ResizedNode ==
    ASSUME NEW n, NodeOK(n), NEW k \in Nat
    PROVE  /\ NodeOK(Resized(n, k))
           /\ Resized(n, k).len = k
           /\ \A z \in Nat : Below(Resized(n, k), z) = IF z < k THEN Below(n, z) ELSE Empty
<1>1. /\ n.len \in Nat /\ n.cells \in Seq(Contents) /\ n.len <= Len(n.cells)
      /\ Len(n.cells) \in Nat /\ Empty \in Contents
      /\ \A i \in 1..Len(n.cells) : i > n.len => n.cells[i] = Empty
  BY DEF NodeOK, Nodes, Contents
<1>2. CASE k < n.len
  <2> DEFINE s == [i \in 1..Len(n.cells) |->
                      IF i \in (k + 1)..n.len THEN Empty ELSE n.cells[i]]
             m == [len |-> k, cells |-> s]
  <2>1. /\ s \in Seq(Contents) /\ Len(s) = Len(n.cells)
        /\ \A i \in 1..Len(n.cells) : s[i] = IF i \in (k + 1)..n.len THEN Empty ELSE n.cells[i]
    BY <1>1
  <2>2. m = Resized(n, k)
    BY <1>2 DEF Resized, Capacity
  <2> HIDE DEF s
  <2>3. \A i \in 1..Len(s) : i > k => s[i] = Empty
    BY <1>1, <1>2, <2>1
  <2>4. /\ NodeOK(m) /\ m.len = k
        /\ \A z \in Nat : Below(m, z) = IF z < k THEN s[z + 1] ELSE Empty
    BY <1>1, <1>2, <2>1, <2>3, NodeOfCells
  <2>5. \A z \in Nat : z < k => s[z + 1] = Below(n, z)
    <3>1. \A z \in Nat : z < k => z + 1 \in 1..Len(n.cells) /\ z + 1 \notin (k + 1)..n.len
      BY <1>1, <1>2
    <3> QED BY <1>1, <1>2, <2>1, <3>1 DEF Below
  <2> QED BY <2>2, <2>4, <2>5
<1>3. ASSUME n.len <= k, NEW z \in Nat PROVE ~(z < k) => Below(n, z) = Empty
  BY <1>1, <1>3 DEF Below
<1>4. CASE ~(k < n.len) /\ k <= Capacity(n)
  <2>1. Resized(n, k) = [n EXCEPT !.len = k]
    BY <1>4 DEF Resized
  <2>2. n.len <= k /\ k <= Len(n.cells)
    BY <1>1, <1>4 DEF Capacity
  <2> QED BY <1>3, <2>1, <2>2, LongerNode
<1>5. CASE ~(k < n.len) /\ ~(k <= Capacity(n))
  <2> DEFINE cap == Larger(2 * Capacity(n), k)
  <2>1. cap \in Nat /\ k <= cap
    <3>1. 2 * Capacity(n) \in Nat
      BY <1>1 DEF Capacity
    <3>2. cap \in Nat /\ cap >= k
      BY <3>1, LargerIs
    <3> QED BY <3>2
  <2>2. Resized(n, k) = Moved(n, k, cap)
    BY <1>5 DEF Resized
  <2> HIDE DEF cap
  <2>3. n.len <= k
    BY <1>1, <1>5
  <2> QED BY <1>3, <2>1, <2>2, <2>3, MovedNode
<1> QED
  BY <1>2, <1>4, <1>5

\* New slices have nothing below their length.
LEMMA EmptyNode ==
    ASSUME NEW len \in Nat, NEW cap \in Nat, len <= cap
    PROVE  LET n == [len |-> len, cells |-> EmptyCells(cap)]
           IN  NodeOK(n) /\ n.len = len /\ \A z \in Nat : Below(n, z) = Empty
<1> DEFINE s == EmptyCells(cap)
<1>1. s \in Seq(Contents) /\ Len(s) = cap /\ \A i \in 1..cap : s[i] = Empty
  BY DEF EmptyCells, Contents
<1> HIDE DEF s
<1>2. \A z \in Nat : z < len => z + 1 \in 1..cap
  OBVIOUS
<1>3. LET n == [len |-> len, cells |-> s]
      IN  NodeOK(n) /\ n.len = len /\ \A z \in Nat : Below(n, z) = Empty
  BY <1>1, <1>2, NodeOfCells
<1> QED
  BY <1>3 DEF s

LEMMA NewNodes ==
    /\ NodeOK(NewFieldState) /\ \A z \in Nat : Below(NewFieldState, z) = Empty
    /\ \A n \in Nat : /\ NodeOK(NewCollection(n)) /\ NewCollection(n).len = n
                      /\ \A z \in Nat : Below(NewCollection(n), z) = Empty
    /\ LET root == [len |-> 0, cells |-> EmptyCells(2 * Cells)]
       IN  NodeOK(root) /\ \A z \in Nat : Below(root, z) = Empty
<1>1. Cells \in Nat /\ 2 * Cells \in Nat /\ Cells <= 2 * Cells /\ 0 <= 2 * Cells
  BY CellsAssumption
<1>2. ASSUME NEW n \in Nat
      PROVE  Larger(2 * n, Cells) \in Nat /\ n <= Larger(2 * n, Cells)
  <2>1. 2 * n \in Nat /\ n <= 2 * n
    OBVIOUS
  <2>2. Larger(2 * n, Cells) \in Nat /\ Larger(2 * n, Cells) >= 2 * n
    BY <1>1, <2>1, LargerIs
  <2> QED BY <2>1, <2>2
<1> QED
  BY <1>1, <1>2, EmptyNode DEF NewFieldState, NewCollection

\* A cell below the length is written.
LEMMA WrittenNode ==
    ASSUME NEW n, NodeOK(n), NEW z \in Nat, z < n.len, NEW x \in Contents,
           NEW m, m = [n EXCEPT !.cells[z + 1] = x]
    PROVE  /\ NodeOK(m) /\ m.len = n.len
           /\ \A y \in Nat : Below(m, y) = IF y = z THEN x ELSE Below(n, y)
<1> DEFINE s == [n.cells EXCEPT ![z + 1] = x]
<1>1. /\ n.len \in Nat /\ n.cells \in Seq(Contents) /\ n.len <= Len(n.cells)
      /\ Len(n.cells) \in Nat
      /\ \A i \in 1..Len(n.cells) : i > n.len => n.cells[i] = Empty
  BY DEF NodeOK, Nodes
<1>2. z + 1 \in 1..Len(n.cells)
  BY <1>1
<1>3. /\ s \in Seq(Contents) /\ Len(s) = Len(n.cells)
      /\ \A i \in 1..Len(n.cells) : s[i] = IF i = z + 1 THEN x ELSE n.cells[i]
  BY <1>1, <1>2, ExceptSeq
<1>4. m \in Nodes /\ m.len = n.len /\ m.cells = s
  <2>1. m = [len |-> n.len, cells |-> s]
    BY DEF NodeOK, Nodes
  <2> HIDE DEF s
  <2>2. [len |-> n.len, cells |-> s] \in Nodes
    BY <1>1, <1>3 DEF Nodes
  <2>3. /\ [len |-> n.len, cells |-> s].len = n.len
        /\ [len |-> n.len, cells |-> s].cells = s
    OBVIOUS
  <2> QED BY Zenon, <2>1, <2>2, <2>3
<1> HIDE DEF s
<1>5. NodeOK(m)
  BY <1>1, <1>2, <1>3, <1>4 DEF NodeOK
<1>6. ASSUME NEW y \in Nat PROVE Below(m, y) = IF y = z THEN x ELSE Below(n, y)
  <2>1. y < n.len => y + 1 \in 1..Len(n.cells)
    BY <1>1
  <2> QED BY <1>1, <1>3, <1>4, <2>1 DEF Below
<1> QED
  BY <1>4, <1>5, <1>6

-----------------------------------------------------------------------------
(***************************************************************************)
(* Paths and what is before an index of one.                               *)
(***************************************************************************)
LEMMA BeforeIs ==
    ASSUME NEW p \in Seq(Nat), NEW i \in 1..(Len(p) + 1)
    PROVE  /\ Before(p, i) \in Seq(Nat)
           /\ Len(Before(p, i)) = i - 1
           /\ \A j \in 1..(i - 1) : Before(p, i)[j] = p[j]
<1>1. Len(p) \in Nat /\ i - 1 \in Int /\ 1 \in Int
  OBVIOUS
<1>2. \A j \in 1..(i - 1) : p[j] \in Nat
  BY <1>1
<1>3. /\ SubSeq(p, 1, i - 1) \in Seq(Nat)
      /\ Len(SubSeq(p, 1, i - 1)) = IF 1 <= i - 1 THEN (i - 1) - 1 + 1 ELSE 0
      /\ \A j \in 1..((i - 1) - 1 + 1) : SubSeq(p, 1, i - 1)[j] = p[1 + j - 1]
  BY <1>1, <1>2, SubSeqProperties
<1>4. \A j \in 1..(i - 1) : j \in 1..((i - 1) - 1 + 1) /\ 1 + j - 1 = j
  BY <1>1
<1> HIDE DEF Before
<1> QED
  BY <1>1, <1>3, <1>4 DEF Before

LEMMA SamePath ==
    ASSUME NEW p \in Seq(Nat), NEW q \in Seq(Nat), Len(p) = Len(q),
           \A i \in 1..Len(p) : p[i] = q[i]
    PROVE  p = q
BY SeqEqual

\* What is before an index that is before another.
LEMMA BeforeBefore ==
    ASSUME NEW p \in Seq(Nat), NEW i \in 1..(Len(p) + 1), NEW j \in 1..i
    PROVE  Before(Before(p, i), j) = Before(p, j)
<1>1. Len(p) \in Nat /\ j \in 1..(Len(p) + 1)
  OBVIOUS
<1>2. /\ Before(p, i) \in Seq(Nat) /\ Len(Before(p, i)) = i - 1
      /\ \A k \in 1..(i - 1) : Before(p, i)[k] = p[k]
  BY BeforeIs
<1>3. /\ Before(p, j) \in Seq(Nat) /\ Len(Before(p, j)) = j - 1
      /\ \A k \in 1..(j - 1) : Before(p, j)[k] = p[k]
  BY <1>1, BeforeIs
<1> DEFINE b == Before(p, i)
<1> HIDE DEF b
<1>4. b \in Seq(Nat) /\ j \in 1..(Len(b) + 1)
  BY <1>1, <1>2 DEF b
<1>5. /\ Before(b, j) \in Seq(Nat) /\ Len(Before(b, j)) = j - 1
      /\ \A k \in 1..(j - 1) : Before(b, j)[k] = b[k]
  BY <1>4, BeforeIs
<1>6. \A k \in 1..(j - 1) : k \in 1..(i - 1)
  OBVIOUS
<1>7. \A k \in 1..(j - 1) : Before(b, j)[k] = Before(p, j)[k]
  BY <1>2, <1>3, <1>5, <1>6 DEF b
<1> QED
  BY <1>3, <1>5, <1>7, SamePath DEF b

LEMMA WholePath ==
    ASSUME NEW p \in Seq(Nat)
    PROVE  Before(p, Len(p) + 1) = p
<1> DEFINE n == Len(p) + 1
<1>1. Len(p) \in Nat /\ n \in 1..(Len(p) + 1) /\ n - 1 = Len(p)
  OBVIOUS
<1> HIDE DEF n
<1>2. /\ Before(p, n) \in Seq(Nat) /\ Len(Before(p, n)) = n - 1
      /\ \A k \in 1..(n - 1) : Before(p, n)[k] = p[k]
  BY <1>1, BeforeIs
<1>3. Before(p, n) = p
  BY <1>1, <1>2, SamePath
<1> QED
  BY <1>3 DEF n

\* A path that goes on from another.
LEMMA AppendIs ==
    ASSUME NEW p \in Seq(Nat), NEW z \in Nat
    PROVE  /\ Append(p, z) \in Seq(Nat) /\ Append(p, z) # <<>>
           /\ Len(Append(p, z)) = Len(p) + 1
           /\ \A i \in 1..Len(p) : Append(p, z)[i] = p[i]
           /\ Append(p, z)[Len(p) + 1] = z
           /\ \A i \in 1..(Len(p) + 1) : Before(Append(p, z), i) = Before(p, i)
<1> DEFINE q == Append(p, z)
<1>1. /\ q \in Seq(Nat) /\ q # <<>> /\ Len(q) = Len(p) + 1
      /\ \A i \in 1..Len(p) : q[i] = p[i]
      /\ q[Len(p) + 1] = z
  BY AppendProperties
<1> HIDE DEF q
<1>2. ASSUME NEW i \in 1..(Len(p) + 1) PROVE Before(q, i) = Before(p, i)
  <2>1. Len(p) \in Nat /\ i \in 1..(Len(q) + 1)
    BY <1>1
  <2>2. /\ Before(p, i) \in Seq(Nat) /\ Len(Before(p, i)) = i - 1
        /\ \A k \in 1..(i - 1) : Before(p, i)[k] = p[k]
    BY BeforeIs
  <2>3. /\ Before(q, i) \in Seq(Nat) /\ Len(Before(q, i)) = i - 1
        /\ \A k \in 1..(i - 1) : Before(q, i)[k] = q[k]
    BY <1>1, <2>1, BeforeIs
  <2>4. \A k \in 1..(i - 1) : k \in 1..Len(p)
    BY <2>1
  <2>5. \A k \in 1..(i - 1) : Before(q, i)[k] = Before(p, i)[k]
    BY <1>1, <2>2, <2>3, <2>4
  <2> QED BY <2>2, <2>3, <2>5, SamePath
<1> QED
  BY <1>1, <1>2 DEF q

\* A path is what is before its last index, and that index.
LEMMA PathIsAppend ==
    ASSUME NEW p \in Seq(Nat), NEW i \in 1..Len(p)
    PROVE  Append(Before(p, i), p[i]) = Before(p, i + 1)
<1> DEFINE b == Before(p, i)
           q == Append(b, p[i])
<1>1. Len(p) \in Nat /\ i \in 1..(Len(p) + 1) /\ i + 1 \in 1..(Len(p) + 1) /\ p[i] \in Nat
  OBVIOUS
<1>2. b \in Seq(Nat) /\ Len(b) = i - 1 /\ \A k \in 1..(i - 1) : b[k] = p[k]
  BY <1>1, BeforeIs
<1>3. /\ Before(p, i + 1) \in Seq(Nat) /\ Len(Before(p, i + 1)) = i + 1 - 1
      /\ \A k \in 1..(i + 1 - 1) : Before(p, i + 1)[k] = p[k]
  BY SMTT(60), <1>1, BeforeIs
<1> HIDE DEF b
<1>4. /\ q \in Seq(Nat) /\ Len(q) = Len(b) + 1
      /\ \A k \in 1..Len(b) : q[k] = b[k]
      /\ q[Len(b) + 1] = p[i]
  BY <1>1, <1>2, AppendIs
<1> HIDE DEF q
<1>5. Len(b) + 1 = i /\ i + 1 - 1 = i /\ Len(q) = i
  BY <1>1, <1>2, <1>4
<1>6. ASSUME NEW k \in 1..Len(q) PROVE q[k] = Before(p, i + 1)[k]
  <2>1. CASE k = i
    BY <1>3, <1>4, <1>5, <2>1
  <2>2. CASE k # i
    <3>1. k \in 1..(i - 1) /\ k \in 1..Len(b) /\ k \in 1..(i + 1 - 1)
      BY <1>2, <1>5, <2>2
    <3> QED BY <1>2, <1>3, <1>4, <3>1
  <2> QED BY <2>1, <2>2
<1> QED
  <2>1. Len(q) = Len(Before(p, i + 1))
    BY <1>3, <1>5
  <2>2. q = Before(p, i + 1)
    BY <1>3, <1>4, <1>6, <2>1, SamePath
  <2> QED BY <2>2 DEF q, b

\* The path with a last index.
Above(q) == Before(q, Len(q))
End(q) == q[Len(q)]

LEMMA AboveIs ==
    ASSUME NEW q \in Seq(Nat), q # <<>>
    PROVE  /\ Len(q) \in Nat \ {0} /\ Len(q) \in 1..(Len(q) + 1)
           /\ Above(q) \in Seq(Nat) /\ End(q) \in Nat
           /\ Len(Above(q)) = Len(q) - 1
           /\ \A i \in 1..(Len(q) - 1) : Above(q)[i] = q[i]
           /\ \A i \in 1..Len(q) : Before(Above(q), i) = Before(q, i)
           /\ Append(Above(q), End(q)) = q
<1>1. Len(q) \in Nat \ {0} /\ Len(q) \in 1..(Len(q) + 1) /\ Len(q) \in 1..Len(q)
  BY EmptySeq
<1>2. /\ Above(q) \in Seq(Nat) /\ Len(Above(q)) = Len(q) - 1
      /\ \A i \in 1..(Len(q) - 1) : Above(q)[i] = q[i]
  BY <1>1, BeforeIs DEF Above
<1>3. \A i \in 1..Len(q) : Before(Above(q), i) = Before(q, i)
  BY <1>1, BeforeBefore DEF Above
<1>4. Append(Before(q, Len(q)), q[Len(q)]) = Before(q, Len(q) + 1)
  BY <1>1, PathIsAppend
<1>5. Append(Above(q), End(q)) = q
  BY <1>4, WholePath DEF Above, End
<1>6. End(q) \in Nat
  BY <1>1 DEF End
<1> QED
  BY <1>1, <1>2, <1>3, <1>5, <1>6

\* The paths on the way to a path.
Ways(q) == {Before(q, i) : i \in 1..Len(q)}

LEMMA WaysAre ==
    ASSUME NEW q \in Seq(Nat), NEW p \in Ways(q)
    PROVE  /\ p \in Seq(Nat) /\ Len(p) + 1 \in 1..Len(q) /\ Len(p) \in Nat
           /\ p = Before(q, Len(p) + 1) /\ q[Len(p) + 1] \in Nat
           /\ \A i \in 1..Len(p) : p[i] = q[i] /\ Before(p, i) = Before(q, i)
<1>1. PICK i \in 1..Len(q) : p = Before(q, i)
  BY DEF Ways
<1>2. i \in 1..(Len(q) + 1) /\ Len(q) \in Nat
  OBVIOUS
<1>3. p \in Seq(Nat) /\ Len(p) = i - 1 /\ \A j \in 1..(i - 1) : p[j] = q[j]
  BY <1>1, <1>2, BeforeIs
<1>4. Len(p) + 1 = i
  BY <1>2, <1>3
<1>5. \A j \in 1..i : Before(p, j) = Before(q, j)
  BY <1>1, <1>2, BeforeBefore
<1>6. \A j \in 1..Len(p) : j \in 1..i /\ j \in 1..(i - 1)
  BY <1>2, <1>3
<1> QED
  BY <1>1, <1>2, <1>3, <1>4, <1>5, <1>6

\* A path is on the way to another if it is one's beginning.
LEMMA WaysAreAbove ==
    ASSUME NEW q \in Seq(Nat), NEW p \in Seq(Nat)
    PROVE  p \in Ways(q) <=> IsBelow(q, p)
<1>1. Len(p) \in Nat /\ Len(q) \in Nat
  OBVIOUS
<1>2. Len(p) + 1 - 1 = Len(p)
  BY <1>1
<1>3. Before(q, Len(p) + 1) = SubSeq(q, 1, Len(p))
  BY <1>2 DEF Before
<1>4. ASSUME p \in Ways(q) PROVE IsBelow(q, p)
  <2>1. Len(p) + 1 \in 1..Len(q) /\ p = Before(q, Len(p) + 1)
    BY <1>4, WaysAre
  <2> QED BY <1>1, <1>3, <2>1 DEF IsBelow
<1>5. ASSUME IsBelow(q, p) PROVE p \in Ways(q)
  <2>1. Before(q, Len(p) + 1) = p /\ Len(q) > Len(p)
    BY <1>3, <1>5 DEF IsBelow
  <2>2. Len(p) + 1 \in 1..Len(q)
    BY <1>1, <2>1
  <2> QED BY <2>1, <2>2 DEF Ways
<1> QED
  BY <1>4, <1>5

\* What is above a path that is above another is above that.
LEMMA BelowBelow ==
    ASSUME NEW q \in Seq(Nat), NEW p \in Seq(Nat), NEW r \in Seq(Nat),
           IsBelow(q, p), IsBelow(p, r)
    PROVE  /\ IsBelow(q, r)
           /\ q[Len(r) + 1] = p[Len(r) + 1]
<1>1. p \in Ways(q) /\ r \in Ways(p)
  BY WaysAreAbove
<1>2. /\ Len(p) + 1 \in 1..Len(q) /\ \A i \in 1..Len(p) : p[i] = q[i] /\ Before(p, i) = Before(q, i)
  BY <1>1, WaysAre
<1>3. Len(r) + 1 \in 1..Len(p) /\ r = Before(p, Len(r) + 1)
  BY <1>1, WaysAre
<1>4. r = Before(q, Len(r) + 1) /\ Len(r) + 1 \in 1..Len(q)
  BY <1>2, <1>3
<1>5. r \in Ways(q)
  BY <1>4 DEF Ways
<1> QED
  BY <1>2, <1>3, <1>5, WaysAreAbove

\* Two paths above one are one above the other, or the same.
LEMMA AboveOne ==
    ASSUME NEW q \in Seq(Nat), NEW p \in Seq(Nat), NEW r \in Seq(Nat),
           IsBelow(q, p), IsBelow(q, r)
    PROVE  p = r \/ IsBelow(p, r) \/ IsBelow(r, p)
<1>1. /\ Len(p) + 1 \in 1..Len(q) /\ p = Before(q, Len(p) + 1) /\ Len(p) \in Nat
      /\ \A i \in 1..Len(p) : Before(p, i) = Before(q, i)
  BY WaysAreAbove, WaysAre
<1>2. /\ Len(r) + 1 \in 1..Len(q) /\ r = Before(q, Len(r) + 1) /\ Len(r) \in Nat
      /\ \A i \in 1..Len(r) : Before(r, i) = Before(q, i)
  BY WaysAreAbove, WaysAre
<1>3. CASE Len(p) = Len(r)
  BY <1>1, <1>2, <1>3
<1>4. CASE Len(r) < Len(p)
  <2>1. Len(r) + 1 \in 1..Len(p)
    BY <1>1, <1>2, <1>4
  <2>2. Before(p, Len(r) + 1) = r
    BY <1>1, <1>2, <2>1
  <2>3. r \in Ways(p)
    BY <2>1, <2>2 DEF Ways
  <2> QED BY <2>3, WaysAreAbove
<1>5. CASE Len(p) < Len(r)
  <2>1. Len(p) + 1 \in 1..Len(r)
    BY <1>1, <1>2, <1>5
  <2>2. Before(r, Len(p) + 1) = p
    BY <1>1, <1>2, <2>1
  <2>3. p \in Ways(r)
    BY <2>1, <2>2 DEF Ways
  <2> QED BY <2>3, WaysAreAbove
<1> QED
  BY <1>1, <1>2, <1>3, <1>4, <1>5

-----------------------------------------------------------------------------
(***************************************************************************)
(* The tree. All of it hangs together with the root, and the slices are    *)
(* those the cells lead to.                                                *)
(***************************************************************************)
Hanging(T) ==
    /\ T = [p \in DOMAIN T |-> T[p]]
    /\ <<>> \in DOMAIN T
    /\ \A p \in DOMAIN T : p \in Seq(Nat) /\ NodeOK(T[p])
    /\ \A p \in DOMAIN T : \A i \in 1..Len(p) :
          Before(p, i) \in DOMAIN T /\ Below(T[Before(p, i)], p[i]) = Slice

Leading(T) ==
    \A p \in DOMAIN T : \A z \in Nat : Below(T[p], z) = Slice => Append(p, z) \in DOMAIN T

TreeOK(T) == Hanging(T) /\ Leading(T)

\* What is below index z of the slice at p, if there is one.
At(T, p, z) == IF p \in DOMAIN T THEN Below(T[p], z) ELSE Empty

\* Get looks at one slice only: those above it are there if it is.
LEMMA GetIs ==
    ASSUME NEW T, Hanging(T), NEW q \in Seq(Nat), q # <<>>
    PROVE  Get(T, q) = At(T, Above(q), End(q))
<1> DEFINE Way(i) == /\ Before(q, i) \in DOMAIN T
                     /\ q[i] < T[Before(q, i)].len
                     /\ i < Len(q) => Cell(T[Before(q, i)], q[i]) = Slice
<1>1. /\ Len(q) \in Nat \ {0} /\ Len(q) \in 1..Len(q) /\ End(q) \in Nat
      /\ Len(Above(q)) = Len(q) - 1
      /\ \A i \in 1..(Len(q) - 1) : Above(q)[i] = q[i]
      /\ \A i \in 1..Len(q) : Before(Above(q), i) = Before(q, i)
  BY AboveIs
<1>2. Get(T, q) = IF \A i \in 1..Len(q) : Way(i) THEN Cell(T[Above(q)], End(q)) ELSE Empty
  BY DEF Get, Above, End
<1>3. Way(Len(q)) <=> Above(q) \in DOMAIN T /\ End(q) < T[Above(q)].len
  BY <1>1 DEF Above, End
<1>4. ASSUME Above(q) \in DOMAIN T, NEW i \in 1..Len(q), i # Len(q)
      PROVE  Way(i)
  <2>1. i \in 1..Len(Above(q)) /\ i \in 1..(Len(q) - 1) /\ q[i] \in Nat
    BY <1>1, <1>4
  <2>2. Before(Above(q), i) \in DOMAIN T /\ Below(T[Before(Above(q), i)], Above(q)[i]) = Slice
    BY <1>4, <2>1 DEF Hanging
  <2>3. Before(q, i) \in DOMAIN T /\ Below(T[Before(q, i)], q[i]) = Slice
    BY <1>1, <2>1, <2>2
  <2>4. NodeOK(T[Before(q, i)])
    BY <2>3 DEF Hanging
  <2>5. q[i] < T[Before(q, i)].len /\ Cell(T[Before(q, i)], q[i]) = Slice
    BY <2>1, <2>3, <2>4, CellBelow, CellsAssumption
  <2> QED BY <2>3, <2>5
<1> HIDE DEF Way
<1>5. CASE Above(q) \in DOMAIN T /\ End(q) < T[Above(q)].len
  <2>1. \A i \in 1..Len(q) : Way(i)
    BY <1>3, <1>4, <1>5
  <2>2. NodeOK(T[Above(q)])
    BY <1>5 DEF Hanging
  <2>3. End(q) < Capacity(T[Above(q)])
    <3>1. T[Above(q)].len \in Nat /\ Len(T[Above(q)].cells) \in Nat
          /\ T[Above(q)].len <= Len(T[Above(q)].cells)
      BY <2>2 DEF NodeOK, Nodes
    <3> QED BY <1>1, <1>5, <3>1 DEF Capacity
  <2> QED BY <1>1, <1>2, <1>5, <2>1, <2>2, <2>3, CellBelow DEF At
<1>6. CASE ~(Above(q) \in DOMAIN T /\ End(q) < T[Above(q)].len)
  <2>1. ~Way(Len(q))
    BY <1>3, <1>6
  <2>2. Get(T, q) = Empty
    BY <1>1, <1>2, <2>1
  <2> QED BY <1>6, <2>2 DEF At, Below
<1> QED
  BY <1>5, <1>6

LEMMA GetInContents ==
    ASSUME NEW T, Hanging(T), NEW q \in Seq(Nat), q # <<>>
    PROVE  Get(T, q) \in Contents
<1>1. Get(T, q) = At(T, Above(q), End(q)) /\ End(q) \in Nat
  BY GetIs, AboveIs
<1>2. Empty \in Contents
  BY DEF Contents
<1>3. Above(q) \in DOMAIN T => NodeOK(T[Above(q)])
  BY DEF Hanging
<1> QED
  BY <1>1, <1>2, <1>3, CellBelow DEF At

\* A slice is where a path leads to a slice.
LEMMA SliceIs ==
    ASSUME NEW T, NEW q \in Seq(Nat), q # <<>>
    PROVE  /\ Hanging(T) /\ q \in DOMAIN T => Get(T, q) = Slice
           /\ TreeOK(T) /\ Get(T, q) = Slice => q \in DOMAIN T
<1>1. /\ Len(q) \in 1..Len(q) /\ End(q) \in Nat /\ Append(Above(q), End(q)) = q
  BY AboveIs
<1>2. ASSUME Hanging(T), q \in DOMAIN T PROVE Get(T, q) = Slice
  <2>1. Above(q) \in DOMAIN T /\ Below(T[Above(q)], End(q)) = Slice
    BY <1>1, <1>2 DEF Hanging, Above, End
  <2> QED BY <1>2, <2>1, GetIs DEF At
<1>3. ASSUME TreeOK(T), Get(T, q) = Slice PROVE q \in DOMAIN T
  <2>1. At(T, Above(q), End(q)) = Slice
    BY <1>3, GetIs DEF TreeOK
  <2>2. Above(q) \in DOMAIN T /\ Below(T[Above(q)], End(q)) = Slice
    BY <2>1, CellsAssumption DEF At
  <2>3. Append(Above(q), End(q)) \in DOMAIN T
    BY <1>1, <1>3, <2>2 DEF TreeOK, Leading
  <2> QED BY <1>1, <2>3
<1> QED
  BY <1>2, <1>3

\* The slices are found if every cell that holds one leads to one.
LEMMA LeadingIs ==
    ASSUME NEW T, Hanging(T), \A q \in Seq(Nat) \ {<<>>} : Get(T, q) = Slice => q \in DOMAIN T
    PROVE  TreeOK(T)
<1> SUFFICES ASSUME NEW p \in DOMAIN T, NEW z \in Nat, Below(T[p], z) = Slice
             PROVE  Append(p, z) \in DOMAIN T
  BY DEF TreeOK, Leading
<1>1. p \in Seq(Nat)
  BY DEF Hanging
<1> DEFINE q == Append(p, z)
<1>2. /\ q \in Seq(Nat) /\ q # <<>> /\ Len(q) = Len(p) + 1 /\ Len(p) \in Nat
      /\ q[Len(p) + 1] = z
      /\ \A i \in 1..(Len(p) + 1) : Before(q, i) = Before(p, i)
  BY <1>1, AppendIs
<1> HIDE DEF q
<1>3. End(q) = z
  BY <1>2 DEF End
<1>4. Above(q) = p
  <2>1. Len(p) + 1 \in 1..(Len(p) + 1)
    BY <1>2
  <2>2. Before(q, Len(p) + 1) = Before(p, Len(p) + 1)
    BY <1>2, <2>1
  <2> QED BY <1>1, <1>2, <2>2, WholePath DEF Above
<1>5. Get(T, q) = Slice
  BY <1>2, <1>3, <1>4, GetIs DEF At
<1> QED
  BY <1>2, <1>5 DEF q

\* What is left of a tree whose slices are all well formed hangs together.
LEMMA SweptIs ==
    ASSUME NEW U, <<>> \in DOMAIN U, \A p \in DOMAIN U : p \in Seq(Nat) /\ NodeOK(U[p])
    PROVE  /\ Connected(U) = {p \in DOMAIN U : \A i \in 1..Len(p) :
                                Before(p, i) \in DOMAIN U /\ Below(U[Before(p, i)], p[i]) = Slice}
           /\ DOMAIN Swept(U) = Connected(U)
           /\ \A p \in Connected(U) : Swept(U)[p] = U[p]
           /\ Hanging(Swept(U))
<1> DEFINE Linked(p, i) == Before(p, i) \in DOMAIN U /\ Below(U[Before(p, i)], p[i]) = Slice
           Held(p, i) == /\ Before(p, i) \in DOMAIN U
                         /\ p[i] < Capacity(U[Before(p, i)])
                         /\ Cell(U[Before(p, i)], p[i]) = Slice
<1>1. ASSUME NEW p \in DOMAIN U, NEW i \in 1..Len(p) PROVE Linked(p, i) <=> Held(p, i)
  <2>1. p[i] \in Nat
    OBVIOUS
  <2> QED BY <2>1, CellBelow
<1>2. Connected(U) = {p \in DOMAIN U : \A i \in 1..Len(p) : Held(p, i)}
  BY DEF Connected
<1>3. Connected(U) = {p \in DOMAIN U : \A i \in 1..Len(p) : Linked(p, i)}
  <2> HIDE DEF Linked, Held
  <2> QED BY <1>1, <1>2
<1>4. DOMAIN Swept(U) = Connected(U) /\ \A p \in Connected(U) : Swept(U)[p] = U[p]
  BY DEF Swept
<1>5. Swept(U) = [p \in DOMAIN Swept(U) |-> Swept(U)[p]]
  BY DEF Swept
<1>6. <<>> \in Connected(U)
  BY <1>3
<1>7. ASSUME NEW p \in Connected(U), NEW i \in 1..Len(p)
      PROVE  Before(p, i) \in Connected(U) /\ Below(U[Before(p, i)], p[i]) = Slice
  <2>1. /\ p \in DOMAIN U /\ p \in Seq(Nat) /\ \A j \in 1..Len(p) : Linked(p, j)
    BY <1>3
  <2>2. Before(p, i) \in Ways(p)
    BY DEF Ways
  <2>3. /\ Len(Before(p, i)) + 1 \in 1..Len(p)
        /\ \A j \in 1..Len(Before(p, i)) :
              Before(p, i)[j] = p[j] /\ Before(Before(p, i), j) = Before(p, j)
    BY <2>1, <2>2, WaysAre
  <2>4. \A j \in 1..Len(Before(p, i)) : j \in 1..Len(p)
    BY <2>1, <2>3
  <2>5. \A j \in 1..Len(Before(p, i)) : Linked(Before(p, i), j)
    BY <2>1, <2>3, <2>4
  <2> QED BY <1>3, <2>1, <2>5
<1> HIDE DEF Linked
<1>8. Hanging(Swept(U))
  <2>1. Connected(U) \subseteq DOMAIN U
    BY <1>3
  <2> QED BY <1>4, <1>5, <1>6, <1>7, <2>1 DEF Hanging
<1> QED
  BY <1>3, <1>4, <1>8 DEF Linked

\* A tree that hangs together is not changed by sweeping it.
LEMMA SweptWhole ==
    ASSUME NEW U, U = [p \in DOMAIN U |-> U[p]], Connected(U) = DOMAIN U
    PROVE  Swept(U) = U
BY DEF Swept

\* What a path leads through when it is set.
Written(T, path, x, p, z) ==
    IF p \in Ways(path) /\ z = path[Len(p) + 1]
    THEN IF Len(p) + 1 < Len(path) THEN Slice ELSE Stored(At(T, p, z), x)
    ELSE At(T, p, z)

\* set changes what is on the way and at the end of the way, and nothing else; slices grow only
\* to hold the index of the path.
LEMMA SetTree ==
    ASSUME NEW T, TreeOK(T), NEW path \in Seq(Nat), path # <<>>, NEW x \in Contents
    PROVE  LET N == Set(T, path, x)
           IN  /\ Hanging(N)
               /\ DOMAIN N = DOMAIN T \cup Ways(path)
               /\ \A p \in Seq(Nat), z \in Nat : At(N, p, z) = Written(T, path, x, p, z)
               /\ \A p \in DOMAIN T :
                     (p \in Ways(path) => path[Len(p) + 1] < T[p].len) => N[p].len = T[p].len
<1> DEFINE ways == Ways(path)
           old(p) == IF p \in DOMAIN T THEN T[p] ELSE NewFieldState
           at(p) == path[Len(p) + 1]
           node(p) == Lengthened(old(p), at(p))
           what(p) == IF Len(p) + 1 < Len(path) THEN Slice ELSE Stored(node(p).cells[at(p) + 1], x)
           set(p) == [node(p) EXCEPT !.cells[at(p) + 1] = what(p)]
           U == [p \in DOMAIN T \cup ways |-> IF p \in ways THEN set(p) ELSE T[p]]
<1>1. Set(T, path, x) = Swept(U)
  BY DEF Set, Ways
<1>2. Len(path) \in Nat \ {0}
  BY EmptySeq
<1>3. Hanging(T) /\ Leading(T)
  BY DEF TreeOK
<1>4. \A p \in DOMAIN T : p \in Seq(Nat) /\ NodeOK(T[p])
  BY <1>3 DEF Hanging
<1>5. ASSUME NEW p \in ways
      PROVE  /\ p \in Seq(Nat) /\ Len(p) \in Nat /\ at(p) \in Nat
             /\ NodeOK(U[p])
             /\ \A z \in Nat : Below(U[p], z) = Written(T, path, x, p, z)
             /\ p \in DOMAIN T /\ at(p) < T[p].len => U[p].len = T[p].len
  <2>1. p \in Seq(Nat) /\ Len(p) \in Nat /\ at(p) \in Nat
    BY WaysAre
  <2>2. NodeOK(old(p)) /\ \A z \in Nat : Below(old(p), z) = At(T, p, z)
    BY <1>4, NewNodes DEF At
  <2>3. p \in DOMAIN T => old(p) = T[p]
    OBVIOUS
  <2> DEFINE o == old(p)
             a == at(p)
             n == Lengthened(o, a)
             w == IF Len(p) + 1 < Len(path) THEN Slice ELSE Stored(n.cells[a + 1], x)
  <2>4. U[p] = [n EXCEPT !.cells[a + 1] = w]
    OBVIOUS
  <2> HIDE DEF U, old
  <2>5. /\ NodeOK(n) /\ a < n.len /\ (a < o.len => n = o)
        /\ \A z \in Nat : Below(n, z) = Below(o, z)
    <3> HIDE DEF a, o
    <3>1. a \in Nat /\ NodeOK(o)
      BY <2>1, <2>2 DEF a, o
    <3> QED BY <3>1, LengthenedNode
  <2> HIDE DEF n
  <2>6. n.cells[a + 1] = At(T, p, a) /\ At(T, p, a) \in Contents
    <3>1. Below(n, a) = n.cells[a + 1]
      BY <2>5 DEF Below
    <3>2. Below(n, a) \in Contents
      BY <2>1, <2>5, CellBelow
    <3> QED BY <2>1, <2>2, <2>5, <3>1, <3>2
  <2>7. w \in Contents /\ w = Written(T, path, x, p, a)
    BY <2>1, <2>6 DEF Contents, Stored, Written
  <2> HIDE DEF w
  <2>8. /\ NodeOK(U[p]) /\ U[p].len = n.len
        /\ \A y \in Nat : Below(U[p], y) = IF y = a THEN w ELSE Below(n, y)
    <3>1. a \in Nat /\ NodeOK(n) /\ a < n.len /\ w \in Contents
      BY <2>1, <2>5, <2>7
    <3> HIDE DEF a
    <3> QED BY <2>4, <3>1, WrittenNode
  <2>9. \A z \in Nat : z # a => Written(T, path, x, p, z) = At(T, p, z)
    BY DEF Written
  <2>10. \A z \in Nat : Below(U[p], z) = Written(T, path, x, p, z)
    BY <2>2, <2>4, <2>5, <2>7, <2>8, <2>9
  <2>11. p \in DOMAIN T /\ at(p) < T[p].len => U[p].len = T[p].len
    BY <2>3, <2>4, <2>5, <2>8
  <2> QED BY <2>1, <2>4, <2>8, <2>10, <2>11
<1>6. DOMAIN U = DOMAIN T \cup ways /\ U = [p \in DOMAIN U |-> U[p]]
      /\ \A p \in DOMAIN T : p \notin ways => U[p] = T[p]
  OBVIOUS
<1> HIDE DEF U, at, ways
<1>7. ASSUME NEW p \in DOMAIN U, p \notin ways
      PROVE  /\ p \in DOMAIN T /\ NodeOK(U[p])
             /\ \A z \in Nat : Below(U[p], z) = Written(T, path, x, p, z)
  BY <1>4, <1>6, <1>7 DEF Written, At, ways
<1>8. \A p \in DOMAIN U : /\ p \in Seq(Nat) /\ NodeOK(U[p])
                          /\ \A z \in Nat : Below(U[p], z) = Written(T, path, x, p, z)
  BY <1>4, <1>5, <1>7
<1>9. <<>> \in DOMAIN U
  BY <1>3, <1>6 DEF Hanging
<1>10. ASSUME NEW p \in DOMAIN U, NEW i \in 1..Len(p)
       PROVE  Before(p, i) \in DOMAIN U /\ Below(U[Before(p, i)], p[i]) = Slice
  <2>1. CASE p \in ways
    <3>1. /\ p \in Seq(Nat) /\ Len(p) + 1 \in 1..Len(path) /\ Len(p) \in Nat
          /\ p[i] = path[i] /\ Before(p, i) = Before(path, i)
      BY <2>1, WaysAre DEF ways
    <3>2. i \in 1..Len(path) /\ i < Len(path) /\ p[i] \in Nat
      BY <1>2, <3>1
    <3>3. Before(p, i) \in ways
      BY <3>1, <3>2 DEF ways, Ways
    <3>4. i \in 1..(Len(path) + 1)
      BY <3>2
    <3>5. Len(Before(path, i)) = i - 1
      BY <3>4, BeforeIs
    <3>6. Len(Before(p, i)) + 1 = i
      BY <3>1, <3>5
    <3>7. Written(T, path, x, Before(p, i), p[i]) = Slice
      BY <3>1, <3>2, <3>3, <3>6 DEF Written, ways
    <3> QED BY <1>6, <1>8, <3>2, <3>3, <3>7
  <2>2. CASE p \notin ways
    <3>1. p \in DOMAIN T /\ p \in Seq(Nat)
      BY <1>7, <1>8, <2>2
    <3>2. Before(p, i) \in DOMAIN T /\ Below(T[Before(p, i)], p[i]) = Slice /\ p[i] \in Nat
      BY SMTT(60), <1>3, <3>1 DEF Hanging
    <3>3. At(T, Before(p, i), p[i]) = Slice
      BY <3>2 DEF At
    <3>4. Written(T, path, x, Before(p, i), p[i]) = Slice
      BY <3>3 DEF Written, Stored
    <3> QED BY <1>6, <1>8, <3>2, <3>4
  <2> QED BY <2>1, <2>2
<1>11. Connected(U) = DOMAIN U
  BY <1>8, <1>9, <1>10, SweptIs
<1>12. Swept(U) = U
  BY <1>6, <1>11, SweptWhole
<1>13. Hanging(U)
  BY <1>6, <1>8, <1>9, <1>10 DEF Hanging
<1>14. ASSUME NEW p \in Seq(Nat), NEW z \in Nat
       PROVE  At(U, p, z) = Written(T, path, x, p, z)
  <2>1. CASE p \in DOMAIN U
    BY <1>8, <2>1 DEF At
  <2>2. CASE p \notin DOMAIN U
    BY <1>6, <2>2 DEF At, Written, ways
  <2> QED BY <2>1, <2>2
<1>15. ASSUME NEW p \in DOMAIN T, p \in ways => at(p) < T[p].len
       PROVE  U[p].len = T[p].len
  BY <1>5, <1>6, <1>15
<1> QED
  BY <1>1, <1>6, <1>12, <1>13, <1>14, <1>15 DEF ways, at

\* The paths on the way to a path and the path itself.
LEMMA WaysEnd ==
    ASSUME NEW path \in Seq(Nat), NEW q \in Seq(Nat), q # <<>>
    PROVE  /\ q \in Ways(path) \/ q = path <=>
                 Above(q) \in Ways(path) /\ End(q) = path[Len(Above(q)) + 1]
           /\ q \in Ways(path) => Len(Above(q)) + 1 < Len(path)
           /\ q = path => Len(Above(q)) + 1 = Len(path)
           /\ path \notin Ways(path)
<1>1. /\ Len(q) \in Nat \ {0} /\ Len(q) \in 1..Len(q) /\ Above(q) \in Seq(Nat)
      /\ Len(Above(q)) = Len(q) - 1
      /\ Append(Above(q), End(q)) = q
  BY AboveIs
<1>2. Len(Above(q)) + 1 = Len(q) /\ Len(path) \in Nat
  BY <1>1
<1>3. ASSUME q \in Ways(path)
      PROVE  /\ Above(q) \in Ways(path) /\ End(q) = path[Len(q)] /\ Len(q) < Len(path)
  <2>1. Len(q) + 1 \in 1..Len(path) /\ q[Len(q)] = path[Len(q)]
        /\ Before(q, Len(q)) = Before(path, Len(q))
    BY <1>1, <1>3, WaysAre
  <2>2. Len(q) \in 1..Len(path) /\ Len(q) < Len(path)
    BY <1>1, <1>2, <2>1
  <2> QED BY <2>1, <2>2 DEF Above, End, Ways
<1>4. ASSUME q = path
      PROVE  Above(q) \in Ways(path) /\ End(q) = path[Len(q)]
  BY <1>1, <1>4 DEF Above, End, Ways
<1>5. ASSUME Above(q) \in Ways(path), End(q) = path[Len(q)]
      PROVE  q \in Ways(path) \/ q = path
  <2>1. Len(q) \in 1..Len(path) /\ Above(q) = Before(path, Len(q))
    BY <1>2, <1>5, WaysAre
  <2>2. q = Before(path, Len(q) + 1)
    BY <1>1, <1>5, <2>1, PathIsAppend
  <2>3. CASE Len(q) = Len(path)
    BY <2>2, <2>3, WholePath
  <2>4. CASE Len(q) # Len(path)
    <3>1. Len(q) + 1 \in 1..Len(path)
      BY <1>2, <2>1, <2>4
    <3> QED BY <2>2, <3>1 DEF Ways
  <2> QED BY <2>3, <2>4
<1>6. path \notin Ways(path)
  <2> SUFFICES ASSUME path \in Ways(path) PROVE FALSE
    OBVIOUS
  <2>1. Len(path) + 1 \in 1..Len(path)
    BY WaysAre
  <2> QED BY <1>2, <2>1
<1> QED
  BY <1>2, <1>3, <1>4, <1>5, <1>6

\* What is found after a path was set.
LEMMA SetGets ==
    ASSUME NEW T, TreeOK(T), NEW path \in Seq(Nat), path # <<>>, NEW x \in Contents
    PROVE  LET N == Set(T, path, x)
           IN  /\ \A q \in Seq(Nat) \ {<<>>} :
                     Get(N, q) = IF q \in Ways(path) THEN Slice
                                 ELSE IF q = path THEN Stored(Get(T, q), x)
                                 ELSE Get(T, q)
               /\ x # Slice => TreeOK(N)
<1> DEFINE N == Set(T, path, x)
<1>1. /\ Hanging(N) /\ DOMAIN N = DOMAIN T \cup Ways(path)
      /\ \A p \in Seq(Nat), z \in Nat : At(N, p, z) = Written(T, path, x, p, z)
  BY SetTree
<1> HIDE DEF N
<1>2. ASSUME NEW q \in Seq(Nat) \ {<<>>}
      PROVE  Get(N, q) = IF q \in Ways(path) THEN Slice
                         ELSE IF q = path THEN Stored(Get(T, q), x)
                         ELSE Get(T, q)
  <2>1. Above(q) \in Seq(Nat) /\ End(q) \in Nat
    BY AboveIs
  <2>2. Get(N, q) = Written(T, path, x, Above(q), End(q))
    BY <1>1, <2>1, GetIs
  <2>3. Get(T, q) = At(T, Above(q), End(q))
    BY GetIs DEF TreeOK
  <2>4. /\ q \in Ways(path) \/ q = path <=>
              Above(q) \in Ways(path) /\ End(q) = path[Len(Above(q)) + 1]
        /\ q \in Ways(path) => Len(Above(q)) + 1 < Len(path)
        /\ q = path => Len(Above(q)) + 1 = Len(path)
        /\ path \notin Ways(path)
    BY WaysEnd
  <2>5. Len(path) \in Nat
    OBVIOUS
  <2> QED BY <2>2, <2>3, <2>4, <2>5 DEF Written
<1>3. ASSUME x # Slice PROVE TreeOK(N)
  <2>1. ASSUME NEW q \in Seq(Nat) \ {<<>>}, Get(N, q) = Slice PROVE q \in DOMAIN N
    <3>1. q \in Ways(path) \/ Get(T, q) = Slice
      BY <1>2, <1>3, <2>1 DEF Stored
    <3>2. Get(T, q) = Slice => q \in DOMAIN T
      BY SliceIs
    <3> QED BY <1>1, <3>1, <3>2
  <2> QED BY <1>1, <2>1, LeadingIs
<1> QED
  BY <1>2, <1>3 DEF N

-----------------------------------------------------------------------------
\* The paths through an index of a collection that its length n leaves out.
Cut(q, c, n) == IsBelow(q, c) /\ q[Len(c) + 1] >= n

LEMMA WaysOfAbove ==
    ASSUME NEW q \in Seq(Nat), q # <<>>
    PROVE  Ways(q) = Ways(Above(q)) \cup {Above(q)}
<1>1. /\ Len(q) \in Nat \ {0} /\ Len(q) \in 1..Len(q) /\ Len(Above(q)) = Len(q) - 1
      /\ \A i \in 1..Len(q) : Before(Above(q), i) = Before(q, i)
  BY AboveIs
<1>2. 1..Len(q) = (1..Len(Above(q))) \cup {Len(q)}
  BY <1>1
<1> QED
  BY <1>1, <1>2 DEF Ways, Above

\* A path is left out if what is above it is, or if it is one of the indexes left out.
LEMMA CutAbove ==
    ASSUME NEW q \in Seq(Nat), q # <<>>, NEW c \in Seq(Nat), NEW n \in Nat
    PROVE  Cut(q, c, n) <=> Cut(Above(q), c, n) \/ (Above(q) = c /\ End(q) >= n)
<1>1. /\ Len(q) \in Nat \ {0} /\ Above(q) \in Seq(Nat) /\ Len(Above(q)) = Len(q) - 1
      /\ \A i \in 1..(Len(q) - 1) : Above(q)[i] = q[i]
  BY AboveIs
<1>2. IsBelow(q, c) <=> IsBelow(Above(q), c) \/ Above(q) = c
  BY <1>1, WaysOfAbove, WaysAreAbove
<1>3. IsBelow(Above(q), c) => q[Len(c) + 1] = Above(q)[Len(c) + 1]
  <2> SUFFICES ASSUME IsBelow(Above(q), c) PROVE q[Len(c) + 1] = Above(q)[Len(c) + 1]
    OBVIOUS
  <2>1. c \in Ways(Above(q))
    BY <1>1, WaysAreAbove
  <2>2. Len(c) + 1 \in 1..Len(Above(q))
    BY <1>1, <2>1, WaysAre
  <2> QED BY <1>1, <2>2
<1>4. Above(q) = c => q[Len(c) + 1] = End(q) /\ ~IsBelow(Above(q), c)
  <2> SUFFICES ASSUME Above(q) = c
               PROVE  q[Len(c) + 1] = End(q) /\ ~IsBelow(Above(q), c)
    OBVIOUS
  <2>1. Len(c) + 1 = Len(q)
    BY <1>1
  <2> QED BY <1>1, <2>1 DEF End, IsBelow
<1> QED
  BY <1>2, <1>3, <1>4 DEF Cut

LEMMA NotCut ==
    ASSUME NEW q \in Seq(Nat), NEW c \in Seq(Nat), NEW n \in Nat, q = c \/ q \in Ways(c)
    PROVE  ~Cut(q, c, n)
<1>1. Len(q) \in Nat /\ Len(c) \in Nat /\ Len(q) <= Len(c)
  <2>1. q \in Ways(c) => Len(q) + 1 \in 1..Len(c)
    BY WaysAre
  <2> QED BY <2>1
<1> QED
  BY <1>1 DEF Cut, IsBelow

\* The length of a collection was known.
LEMMA ResizedTree ==
    ASSUME NEW T, TreeOK(T), NEW c \in Seq(Nat), c # <<>>, NEW n \in Nat, Get(T, c) = Slice
    PROVE  LET N == SetLength(T, c, n)
           IN  /\ TreeOK(N)
               /\ \A q \in Seq(Nat) \ {<<>>} :
                     Get(N, q) = IF Cut(q, c, n) THEN Empty ELSE Get(T, q)
               /\ c \in DOMAIN N /\ N[c].len = n
               /\ \A p \in DOMAIN T \cap DOMAIN N : p # c => N[p].len = T[p].len
<1> DEFINE U == [T EXCEPT ![c] = Resized(@, n)]
           N == Swept(U)
<1>1. Hanging(T) /\ c \in DOMAIN T
  BY SliceIs DEF TreeOK
<1>2. /\ \A p \in DOMAIN T : p \in Seq(Nat) /\ NodeOK(T[p])
      /\ <<>> \in DOMAIN T
      /\ \A p \in DOMAIN T : \A i \in 1..Len(p) :
            Before(p, i) \in DOMAIN T /\ Below(T[Before(p, i)], p[i]) = Slice
  BY <1>1 DEF Hanging
<1>3. SetLength(T, c, n) = N
  BY DEF SetLength
<1>4. DOMAIN U = DOMAIN T /\ U[c] = Resized(T[c], n) /\ \A p \in DOMAIN T : p # c => U[p] = T[p]
  BY <1>1
<1> HIDE DEF U
<1>5. /\ NodeOK(U[c]) /\ U[c].len = n
      /\ \A z \in Nat : Below(U[c], z) = IF z < n THEN Below(T[c], z) ELSE Empty
  <2>1. NodeOK(T[c])
    BY <1>1, <1>2
  <2> DEFINE r == Resized(T[c], n)
  <2>2. NodeOK(r) /\ r.len = n
        /\ \A z \in Nat : Below(r, z) = IF z < n THEN Below(T[c], z) ELSE Empty
    BY <2>1, ResizedNode
  <2>3. U[c] = r
    BY <1>4
  <2> HIDE DEF r
  <2> QED BY <2>2, <2>3
<1>6. \A p \in DOMAIN U : p \in Seq(Nat) /\ NodeOK(U[p])
  BY <1>2, <1>4, <1>5
<1>7. /\ Connected(U) = {p \in DOMAIN U : \A i \in 1..Len(p) :
                             Before(p, i) \in DOMAIN U /\ Below(U[Before(p, i)], p[i]) = Slice}
      /\ DOMAIN N = Connected(U) /\ \A p \in Connected(U) : N[p] = U[p]
      /\ Hanging(N)
  BY <1>2, <1>4, <1>6, SweptIs
<1>8. ASSUME NEW p \in DOMAIN T
      PROVE  p \in Connected(U) <=> ~Cut(p, c, n)
  <2>1. p \in Seq(Nat) /\ Len(p) \in Nat
    BY <1>2
  <2>2. ASSUME NEW i \in 1..Len(p)
        PROVE  /\ Before(p, i) \in DOMAIN U
               /\ Below(U[Before(p, i)], p[i]) = Slice <=> ~(Before(p, i) = c /\ p[i] >= n)
    <3>1. /\ Before(p, i) \in DOMAIN T /\ Below(T[Before(p, i)], p[i]) = Slice
          /\ p[i] \in Nat
      BY SMTT(60), <1>2, <2>1
    <3> QED BY <1>4, <1>5, <3>1, CellsAssumption
  <2>3. p \in Connected(U) <=> \A i \in 1..Len(p) : ~(Before(p, i) = c /\ p[i] >= n)
    BY <1>4, <1>7, <2>2
  <2>4. ASSUME Cut(p, c, n)
        PROVE  \E i \in 1..Len(p) : Before(p, i) = c /\ p[i] >= n
    <3>1. c \in Ways(p)
      BY <2>1, <2>4, WaysAreAbove DEF Cut
    <3>2. Len(c) + 1 \in 1..Len(p) /\ c = Before(p, Len(c) + 1)
      BY <2>1, <3>1, WaysAre
    <3> QED BY <2>4, <3>2 DEF Cut
  <2>5. ASSUME NEW i \in 1..Len(p), Before(p, i) = c, p[i] >= n
        PROVE  Cut(p, c, n)
    <3>1. c \in Ways(p) /\ i \in 1..(Len(p) + 1)
      BY <2>1, <2>5 DEF Ways
    <3>2. Len(c) = i - 1
      BY <2>1, <2>5, <3>1, BeforeIs
    <3>3. Len(c) + 1 = i
      BY <3>2
    <3> QED BY <2>1, <2>5, <3>1, <3>3, WaysAreAbove DEF Cut
  <2> QED BY <2>3, <2>4, <2>5
<1>9. \A p : p \in DOMAIN N <=> p \in DOMAIN T /\ ~Cut(p, c, n)
  BY <1>4, <1>7, <1>8
<1>10. ~Cut(c, c, n)
  BY NotCut
<1>11. c \in DOMAIN N /\ N[c].len = n /\ \A p \in DOMAIN T \cap DOMAIN N : p # c => N[p].len = T[p].len
  BY <1>1, <1>4, <1>5, <1>7, <1>9, <1>10
<1>12. ASSUME NEW p \in DOMAIN N, NEW z \in Nat
       PROVE  Below(N[p], z) = IF p = c /\ z >= n THEN Empty ELSE Below(T[p], z)
  <2>1. N[p] = U[p] /\ p \in DOMAIN T
    BY <1>7, <1>9
  <2> QED BY <1>4, <1>5, <2>1
<1> HIDE DEF N
<1>13. ASSUME NEW q \in Seq(Nat) \ {<<>>}
       PROVE  Get(N, q) = IF Cut(q, c, n) THEN Empty ELSE Get(T, q)
  <2>1. Above(q) \in Seq(Nat) /\ End(q) \in Nat
    BY AboveIs
  <2>2. Get(N, q) = At(N, Above(q), End(q)) /\ Get(T, q) = At(T, Above(q), End(q))
    BY <1>1, <1>7, GetIs
  <2>3. Cut(q, c, n) <=> Cut(Above(q), c, n) \/ (Above(q) = c /\ End(q) >= n)
    BY CutAbove
  <2>4. CASE Above(q) \in DOMAIN N
    BY <1>9, <1>12, <2>1, <2>2, <2>3, <2>4 DEF At
  <2>5. CASE Above(q) \notin DOMAIN N
    BY <1>9, <2>2, <2>3, <2>5 DEF At
  <2> QED BY <2>4, <2>5
<1>14. ASSUME NEW q \in Seq(Nat) \ {<<>>}, Get(N, q) = Slice PROVE q \in DOMAIN N
  <2>1. ~Cut(q, c, n) /\ Get(T, q) = Slice
    BY <1>13, <1>14, CellsAssumption
  <2>2. q \in DOMAIN T
    BY <2>1, SliceIs
  <2> QED BY <1>9, <2>1, <2>2
<1>15. TreeOK(N)
  BY <1>7, <1>14, LeadingIs
<1> QED
  BY <1>3, <1>11, <1>13, <1>15

\* The length of a collection is told for the first time.
LEMMA CollectedTree ==
    ASSUME NEW T, TreeOK(T), NEW c \in Seq(Nat), c # <<>>, NEW n \in Nat, Get(T, c) # Slice
    PROVE  LET N == SetLength(T, c, n)
           IN  /\ TreeOK(N)
               /\ \A q \in Seq(Nat) \ {<<>>} :
                     /\ Get(N, q) = IF q = c \/ q \in Ways(c) THEN Slice ELSE Get(T, q)
                     /\ IsBelow(q, c) => Get(T, q) = Empty
               /\ c \in DOMAIN N /\ N[c].len = n
               /\ \A p \in DOMAIN T :
                     (p \in Ways(c) => c[Len(p) + 1] < T[p].len) => N[p].len = T[p].len
<1> DEFINE P == Set(T, c, Slice)
           N == [p \in DOMAIN P \cup {c} |-> IF p \in DOMAIN P THEN P[p] ELSE NewCollection(n)]
<1>1. Hanging(T) /\ c \notin DOMAIN T
  BY SliceIs DEF TreeOK
<1>2. SetLength(T, c, n) = N
  BY DEF SetLength
<1>3. Slice \in Contents
  BY DEF Contents
<1>4. /\ Hanging(P) /\ DOMAIN P = DOMAIN T \cup Ways(c)
      /\ \A p \in DOMAIN T :
            (p \in Ways(c) => c[Len(p) + 1] < T[p].len) => P[p].len = T[p].len
  BY <1>3, SetTree
<1>5. \A q \in Seq(Nat) \ {<<>>} :
         Get(P, q) = IF q = c \/ q \in Ways(c) THEN Slice ELSE Get(T, q)
  <2>1. \A q \in Seq(Nat) \ {<<>>} :
           Get(P, q) = IF q \in Ways(c) THEN Slice
                       ELSE IF q = c THEN Stored(Get(T, q), Slice)
                       ELSE Get(T, q)
    BY <1>3, SetGets
  <2> QED BY <2>1 DEF Stored
<1>6. c \notin DOMAIN P
  BY <1>1, <1>4, WaysEnd
<1> HIDE DEF P
<1>7. /\ DOMAIN N = DOMAIN P \cup {c} /\ N[c] = NewCollection(n)
      /\ \A p \in DOMAIN P : N[p] = P[p]
      /\ N = [p \in DOMAIN N |-> N[p]]
  BY <1>6
<1> HIDE DEF N
<1>8. NodeOK(N[c]) /\ N[c].len = n /\ \A z \in Nat : Below(N[c], z) = Empty
  BY <1>7, NewNodes
<1>9. Hanging(N)
  <2>1. <<>> \in DOMAIN N /\ \A p \in DOMAIN N : p \in Seq(Nat) /\ NodeOK(N[p])
    BY <1>4, <1>7, <1>8 DEF Hanging
  <2>2. ASSUME NEW p \in DOMAIN P, NEW i \in 1..Len(p)
        PROVE  Before(p, i) \in DOMAIN N /\ Below(N[Before(p, i)], p[i]) = Slice
    BY <1>4, <1>7 DEF Hanging
  <2>3. ASSUME NEW i \in 1..Len(c)
        PROVE  Before(c, i) \in DOMAIN N /\ Below(N[Before(c, i)], c[i]) = Slice
    <3>1. /\ Len(c) \in Nat \ {0} /\ Len(Above(c)) = Len(c) - 1
          /\ \A j \in 1..(Len(c) - 1) : Above(c)[j] = c[j]
          /\ \A j \in 1..Len(c) : Before(Above(c), j) = Before(c, j)
      BY AboveIs
    <3>2. At(P, Above(c), End(c)) = Slice
      BY <1>4, <1>5, GetIs
    <3>3. Above(c) \in DOMAIN P /\ Below(P[Above(c)], End(c)) = Slice
      BY <3>2, CellsAssumption DEF At
    <3>4. CASE i = Len(c)
      BY <1>7, <3>3, <3>4 DEF Above, End
    <3>5. CASE i # Len(c)
      <4>1. i \in 1..Len(Above(c)) /\ i \in 1..(Len(c) - 1)
        BY <3>1, <3>5
      <4>2. Before(Above(c), i) \in DOMAIN N /\ Below(N[Before(Above(c), i)], Above(c)[i]) = Slice
        BY <2>2, <3>3, <4>1
      <4> QED BY <3>1, <4>1, <4>2
    <3> QED BY <3>4, <3>5
  <2>4. \A p \in DOMAIN N : p = c \/ p \in DOMAIN P
    BY <1>7
  <2> QED BY <1>7, <2>1, <2>2, <2>3, <2>4 DEF Hanging
<1>10. ASSUME NEW q \in Seq(Nat) \ {<<>>}, IsBelow(q, c) PROVE Get(T, q) = Empty
  <2>1. Above(q) \in Seq(Nat) /\ c \in Ways(Above(q)) \cup {Above(q)}
    BY <1>10, AboveIs, WaysAreAbove, WaysOfAbove
  <2>2. Above(q) \notin DOMAIN T
    <3>1. CASE c \in Ways(Above(q))
      <4>1. Len(c) + 1 \in 1..Len(Above(q)) /\ c = Before(Above(q), Len(c) + 1)
        BY <2>1, <3>1, WaysAre
      <4> QED BY <1>1, <4>1 DEF Hanging
    <3> QED BY <1>1, <2>1, <3>1
  <2> QED BY <1>1, <2>2, GetIs DEF At
<1>11. ASSUME NEW q \in Seq(Nat) \ {<<>>}
       PROVE  Get(N, q) = IF q = c \/ q \in Ways(c) THEN Slice ELSE Get(T, q)
  <2>1. Above(q) \in Seq(Nat) /\ End(q) \in Nat
    BY AboveIs
  <2>2. Get(N, q) = At(N, Above(q), End(q)) /\ Get(P, q) = At(P, Above(q), End(q))
    BY <1>4, <1>9, GetIs
  <2>3. CASE Above(q) # c
    <3>1. Get(N, q) = Get(P, q)
      BY <1>7, <2>2, <2>3 DEF At
    <3> QED BY <1>5, <3>1
  <2>4. CASE Above(q) = c
    <3>1. Get(N, q) = Empty /\ Get(P, q) = Empty
      BY <1>6, <1>7, <1>8, <2>1, <2>2, <2>4 DEF At
    <3> QED BY <1>5, <3>1
  <2> QED BY <2>3, <2>4
<1>12. ASSUME NEW q \in Seq(Nat) \ {<<>>}, Get(N, q) = Slice PROVE q \in DOMAIN N
  <2>1. q = c \/ q \in Ways(c) \/ Get(T, q) = Slice
    BY <1>11, <1>12
  <2>2. Get(T, q) = Slice => q \in DOMAIN T
    BY SliceIs
  <2> QED BY <1>4, <1>7, <2>1, <2>2
<1>13. TreeOK(N)
  BY <1>9, <1>12, LeadingIs
<1> QED
  BY <1>2, <1>4, <1>7, <1>8, <1>10, <1>11, <1>13

-----------------------------------------------------------------------------
(***************************************************************************)
(* The server's values and lengths, and the tree that follows them.        *)
(***************************************************************************)
FieldsOK(v, l, t) ==
    /\ TreeOK(t)
    /\ l \in [Collections -> Lengths]
    /\ \A d \in Collections : l[d] # 0 => Exists(d, l)
    /\ \A q \in DOMAIN v : q \in Scalars \cup Flags /\ Exists(q, l) /\ v[q] \in Values
    /\ \A p \in Scalars : Get(t, p) = IF p \in DOMAIN v THEN v[p] ELSE Empty
    /\ \A c \in Collections : IF Get(t, c) = Slice THEN t[c].len = l[c] ELSE l[c] = 0

LEMMA ClassPathIs ==
    ASSUME NEW p \in ClassPaths
    PROVE  p \in Seq(Nat) /\ p \in Seq(Nat) \ {<<>>} /\ p # <<>>
BY ClassAssumption

LEMMA IndexBelow ==
    ASSUME NEW p \in Seq(Nat), NEW c \in Seq(Nat), IsBelow(p, c)
    PROVE  p[Len(c) + 1] \in Nat
BY WaysAreAbove, WaysAre

\* A collection above a field that is there is there.
LEMMA ExistsAbove ==
    ASSUME NEW l, NEW p \in ClassPaths, Exists(p, l), NEW c \in Collections, IsBelow(p, c)
    PROVE  Exists(c, l)
<1> SUFFICES ASSUME NEW e \in Collections, IsBelow(c, e) PROVE c[Len(e) + 1] < l[e]
  BY DEF Exists, ClassPaths
<1>1. p \in Seq(Nat) /\ c \in Seq(Nat) /\ e \in Seq(Nat)
  BY ClassPathIs DEF ClassPaths
<1>2. IsBelow(p, e) /\ p[Len(e) + 1] = c[Len(e) + 1]
  BY <1>1, BelowBelow
<1> QED
  BY <1>2 DEF Exists

\* A collection above a field that is there has its slice, with the server's length.
LEMMA SliceAbove ==
    ASSUME NEW v, NEW l, NEW t, FieldsOK(v, l, t), NEW p \in ClassPaths, Exists(p, l),
           NEW c \in Collections, c \in Ways(p)
    PROVE  Get(t, c) = Slice /\ c \in DOMAIN t /\ p[Len(c) + 1] < t[c].len
<1>1. p \in Seq(Nat) /\ c \in Seq(Nat) /\ c # <<>> /\ p[Len(c) + 1] \in Nat
  BY ClassPathIs, WaysAre DEF ClassPaths
<1>2. p[Len(c) + 1] < l[c]
  BY <1>1, WaysAreAbove DEF Exists
<1>3. l[c] # 0
  BY <1>1, <1>2
<1>4. Get(t, c) = Slice /\ t[c].len = l[c]
  BY <1>3 DEF FieldsOK
<1>5. c \in DOMAIN t
  BY <1>1, <1>4, SliceIs DEF FieldsOK
<1> QED
  BY <1>2, <1>4, <1>5

\* A scalar or a flag is set.
LEMMA ValueSet ==
    ASSUME NEW v, NEW l, NEW t, FieldsOK(v, l, t),
           NEW p \in Scalars \cup Flags, Exists(p, l), NEW x \in Values
    PROVE  FieldsOK([q \in DOMAIN v \cup {p} |-> IF q = p THEN x ELSE v[q]], l, Set(t, p, x))
<1> DEFINE w == [q \in DOMAIN v \cup {p} |-> IF q = p THEN x ELSE v[q]]
           u == Set(t, p, x)
<1>1. p \in ClassPaths /\ p \in Seq(Nat) /\ p # <<>> /\ x \in Contents /\ x # Slice
  BY ClassPathIs, ClassAssumption DEF ClassPaths, Contents
<1>2. TreeOK(t)
  BY DEF FieldsOK
<1>3. /\ \A q \in Seq(Nat) \ {<<>>} :
            Get(u, q) = IF q \in Ways(p) THEN Slice
                        ELSE IF q = p THEN Stored(Get(t, q), x)
                        ELSE Get(t, q)
      /\ TreeOK(u)
  BY <1>1, <1>2, SetGets
<1>4. \A d \in DOMAIN t : (d \in Ways(p) => p[Len(d) + 1] < t[d].len) => u[d].len = t[d].len
  BY <1>1, <1>2, SetTree
<1>5. DOMAIN w = DOMAIN v \cup {p} /\ w[p] = x /\ \A q \in DOMAIN v : q # p => w[q] = v[q]
  OBVIOUS
<1> HIDE DEF w, u
<1>6. ASSUME NEW q \in Scalars
      PROVE  Get(u, q) = IF q \in DOMAIN w THEN w[q] ELSE Empty
  <2>1. q \in ClassPaths /\ q \in Seq(Nat) \ {<<>>} /\ q \in Seq(Nat)
    BY ClassPathIs DEF ClassPaths
  <2>2. q \notin Ways(p)
    BY <1>1, <2>1, WaysAreAbove, ClassAssumption
  <2>3. Get(t, q) = IF q \in DOMAIN v THEN v[q] ELSE Empty
    BY DEF FieldsOK
  <2>4. Get(t, q) # Slice
    <3>1. q \in DOMAIN v => v[q] \in Values
      BY DEF FieldsOK
    <3> QED BY <2>3, <3>1, CellsAssumption, ClassAssumption
  <2>5. CASE q = p
    BY <1>3, <1>5, <2>1, <2>2, <2>4, <2>5 DEF Stored
  <2>6. CASE q # p
    <3>1. Get(u, q) = Get(t, q)
      BY <1>3, <2>1, <2>2, <2>6
    <3> QED BY <1>5, <2>3, <2>6, <3>1
  <2> QED BY <2>5, <2>6
<1>7. ASSUME NEW c \in Collections
      PROVE  IF Get(u, c) = Slice THEN u[c].len = l[c] ELSE l[c] = 0
  <2>1. c \in ClassPaths /\ c \in Seq(Nat) \ {<<>>} /\ c \in Seq(Nat)
    BY ClassPathIs DEF ClassPaths
  <2>2. c # p
    BY ClassAssumption
  <2>3. IF Get(t, c) = Slice THEN t[c].len = l[c] ELSE l[c] = 0
    BY DEF FieldsOK
  <2>4. CASE c \in Ways(p)
    <3>1. Get(t, c) = Slice /\ c \in DOMAIN t /\ p[Len(c) + 1] < t[c].len
      BY <1>1, <2>4, SliceAbove
    <3>2. u[c].len = t[c].len
      BY <1>4, <3>1
    <3> QED BY <1>3, <2>1, <2>3, <2>4, <3>1, <3>2
  <2>5. CASE c \notin Ways(p)
    <3>1. Get(u, c) = Get(t, c)
      BY <1>3, <2>1, <2>2, <2>5
    <3>2. Get(t, c) = Slice => c \in DOMAIN t
      BY <1>2, <2>1, SliceIs
    <3> QED BY <1>4, <2>3, <2>5, <3>1, <3>2
  <2> QED BY <2>4, <2>5
<1>8. \A q \in DOMAIN w : q \in Scalars \cup Flags /\ Exists(q, l) /\ w[q] \in Values
  BY <1>5 DEF FieldsOK
<1>9. l \in [Collections -> Lengths] /\ \A d \in Collections : l[d] # 0 => Exists(d, l)
  BY DEF FieldsOK
<1>10. FieldsOK(w, l, u)
  BY <1>3, <1>6, <1>7, <1>8, <1>9 DEF FieldsOK
<1> QED
  BY <1>10 DEF w, u

\* The lengths when collection c gets length n.
LengthsWith(l, c, n) ==
    [d \in Collections |-> IF d = c THEN n
                           ELSE IF Exists(d, [l EXCEPT ![c] = n]) THEN l[d] ELSE 0]

\* What a length leaves out is not there, and all else is as it was.
LEMMA LengthsAre ==
    ASSUME NEW l \in [Collections -> Lengths], \A d \in Collections : l[d] # 0 => Exists(d, l),
           NEW c \in Collections, NEW n \in Lengths, Exists(c, l)
    PROVE  LET m == LengthsWith(l, c, n)
           IN  /\ m \in [Collections -> Lengths]
               /\ m[c] = n
               /\ \A d \in Collections : d # c => m[d] = IF Cut(d, c, n) THEN 0 ELSE l[d]
               /\ \A d \in Collections : m[d] # 0 => Exists(d, m)
               /\ \A q \in ClassPaths : Exists(q, l) => (Exists(q, m) <=> ~Cut(q, c, n))
<1> DEFINE k == [l EXCEPT ![c] = n]
           m == LengthsWith(l, c, n)
<1>1. n \in Nat /\ 0 \in Lengths /\ \A d \in Collections : l[d] \in Nat
  BY BoundsAssumption DEF Lengths
<1>2. \A d \in Collections : k[d] = IF d = c THEN n ELSE l[d]
  OBVIOUS
<1>3. \A q \in ClassPaths : q \in Seq(Nat)
  BY ClassPathIs
<1>4. Collections \subseteq ClassPaths
  BY DEF ClassPaths
<1>5. /\ m \in [Collections -> Lengths] /\ m[c] = n
      /\ \A d \in Collections : d # c => m[d] = IF Exists(d, k) THEN l[d] ELSE 0
  BY <1>1 DEF LengthsWith
<1> HIDE DEF k, m
<1>6. ASSUME NEW q \in ClassPaths, Cut(q, c, n)
      PROVE  ~Exists(q, k) /\ ~Exists(q, m)
  <2>1. IsBelow(q, c) /\ q[Len(c) + 1] >= n /\ q[Len(c) + 1] \in Nat
    BY <1>3, <1>4, <1>6, IndexBelow DEF Cut
  <2>2. ~(q[Len(c) + 1] < k[c]) /\ ~(q[Len(c) + 1] < m[c])
    BY <1>1, <1>2, <1>5, <2>1
  <2> QED BY <2>1, <2>2 DEF Exists
<1>7. ASSUME NEW q \in ClassPaths, Exists(q, l), ~Cut(q, c, n), IsBelow(q, c)
      PROVE  q[Len(c) + 1] < n
  <2>1. q[Len(c) + 1] \in Nat
    BY <1>3, <1>4, <1>7, IndexBelow
  <2> QED BY <1>1, <1>7, <2>1 DEF Cut
<1>8. ASSUME NEW q \in ClassPaths, Exists(q, l), ~Cut(q, c, n)
      PROVE  Exists(q, k)
  BY <1>2, <1>7, <1>8 DEF Exists
<1>9. ASSUME NEW d \in Collections, d # c
      PROVE  m[d] = IF Cut(d, c, n) THEN 0 ELSE l[d]
  BY <1>4, <1>5, <1>6, <1>8, <1>9
<1>10. ASSUME NEW q \in ClassPaths, Exists(q, l), ~Cut(q, c, n)
       PROVE  Exists(q, m)
  <2> SUFFICES ASSUME NEW e \in Collections, IsBelow(q, e) PROVE q[Len(e) + 1] < m[e]
    BY DEF Exists
  <2>1. CASE e = c
    BY <1>5, <1>7, <1>10, <2>1
  <2>2. CASE e # c
    <3>1. ~Cut(e, c, n)
      <4> SUFFICES ASSUME Cut(e, c, n) PROVE FALSE
        OBVIOUS
      <4>1. IsBelow(q, c) /\ q[Len(c) + 1] = e[Len(c) + 1]
        BY <1>3, <1>4, BelowBelow DEF Cut
      <4> QED BY <1>10, <4>1 DEF Cut
    <3>2. q[Len(e) + 1] < l[e]
      BY <1>10 DEF Exists
    <3> QED BY <1>9, <2>2, <3>1, <3>2
  <2> QED BY <2>1, <2>2
<1>11. ASSUME NEW d \in Collections, m[d] # 0 PROVE Exists(d, m)
  <2>1. CASE d = c
    <3>1. ~Cut(c, c, n)
      BY <1>1, <1>3, <1>4, NotCut
    <3> QED BY <1>4, <1>10, <2>1, <3>1
  <2>2. CASE d # c
    BY <1>4, <1>9, <1>10, <1>11, <2>2
  <2> QED BY <2>1, <2>2
<1> QED
  BY <1>5, <1>6, <1>9, <1>10, <1>11 DEF m

\* A collection gets a length.
LEMMA LengthSet ==
    ASSUME NEW v, NEW l, NEW t, FieldsOK(v, l, t),
           NEW c \in Collections, Exists(c, l), NEW n \in Lengths
    PROVE  LET m == LengthsWith(l, c, n)
           IN  FieldsOK([q \in {q \in DOMAIN v : Exists(q, m)} |-> v[q]], m, SetLength(t, c, n))
<1> DEFINE m == LengthsWith(l, c, n)
           w == [q \in {q \in DOMAIN v : Exists(q, m)} |-> v[q]]
           u == SetLength(t, c, n)
<1>1. c \in ClassPaths /\ c \in Seq(Nat) /\ c # <<>> /\ n \in Nat /\ n \in Lengths
  BY ClassPathIs, BoundsAssumption DEF ClassPaths, Lengths
<1>2. /\ TreeOK(t) /\ l \in [Collections -> Lengths]
      /\ \A d \in Collections : l[d] # 0 => Exists(d, l)
      /\ \A q \in DOMAIN v : q \in Scalars \cup Flags /\ Exists(q, l) /\ v[q] \in Values
      /\ \A p \in Scalars : Get(t, p) = IF p \in DOMAIN v THEN v[p] ELSE Empty
      /\ \A d \in Collections : IF Get(t, d) = Slice THEN t[d].len = l[d] ELSE l[d] = 0
  BY DEF FieldsOK
<1>3. /\ m \in [Collections -> Lengths] /\ m[c] = n
      /\ \A d \in Collections : d # c => m[d] = IF Cut(d, c, n) THEN 0 ELSE l[d]
      /\ \A d \in Collections : m[d] # 0 => Exists(d, m)
      /\ \A q \in ClassPaths : Exists(q, l) => (Exists(q, m) <=> ~Cut(q, c, n))
  BY <1>1, <1>2, LengthsAre
<1>4. Collections \subseteq ClassPaths /\ Scalars \subseteq ClassPaths /\ Flags \subseteq ClassPaths
      /\ \A q \in ClassPaths : q \in Seq(Nat) /\ q \in Seq(Nat) \ {<<>>} /\ q # <<>>
  BY ClassPathIs DEF ClassPaths
<1>5. DOMAIN w = {q \in DOMAIN v : Exists(q, m)} /\ \A q \in DOMAIN w : w[q] = v[q]
  OBVIOUS
<1> HIDE DEF m, w
<1>6. ASSUME NEW q \in ClassPaths, q \in DOMAIN v
      PROVE  q \in DOMAIN w <=> ~Cut(q, c, n)
  BY <1>2, <1>3, <1>5, <1>6
<1>7. \A q \in DOMAIN w : q \in Scalars \cup Flags /\ Exists(q, m) /\ w[q] \in Values
  BY <1>2, <1>5
\* What the tree holds, whether the length was known or not.
<1>8. /\ TreeOK(u) /\ Get(u, c) = Slice /\ u[c].len = n
      /\ \A p \in Scalars : Get(u, p) = IF Cut(p, c, n) THEN Empty ELSE Get(t, p)
      /\ \A d \in Collections \ {c} :
            /\ Get(u, d) = IF Cut(d, c, n) THEN Empty ELSE Get(t, d)
            /\ Get(u, d) = Slice => u[d].len = t[d].len
  <2>1. CASE Get(t, c) = Slice
    <3>1. /\ TreeOK(u) /\ c \in DOMAIN u /\ u[c].len = n
          /\ \A q \in Seq(Nat) \ {<<>>} : Get(u, q) = IF Cut(q, c, n) THEN Empty ELSE Get(t, q)
          /\ \A p \in DOMAIN t \cap DOMAIN u : p # c => u[p].len = t[p].len
      BY <1>1, <1>2, <2>1, ResizedTree
    <3> HIDE DEF u
    <3>2. Get(u, c) = Slice
      BY <1>1, <3>1, SliceIs DEF TreeOK
    <3>3. ASSUME NEW d \in Collections \ {c}, Get(u, d) = Slice PROVE u[d].len = t[d].len
      <4>1. d \in Seq(Nat) \ {<<>>} /\ d \in Seq(Nat) /\ d # <<>>
        BY <1>4
      <4>2. Get(t, d) = Slice
        BY <3>1, <3>3, <4>1, CellsAssumption
      <4>3. d \in DOMAIN u /\ d \in DOMAIN t
        BY <1>2, <3>1, <3>3, <4>1, <4>2, SliceIs
      <4> QED BY <3>1, <4>3
    <3> QED BY <1>4, <3>1, <3>2, <3>3
  <2>2. CASE Get(t, c) # Slice
    <3>1. /\ TreeOK(u) /\ c \in DOMAIN u /\ u[c].len = n
          /\ \A q \in Seq(Nat) \ {<<>>} :
                /\ Get(u, q) = IF q = c \/ q \in Ways(c) THEN Slice ELSE Get(t, q)
                /\ IsBelow(q, c) => Get(t, q) = Empty
          /\ \A p \in DOMAIN t :
                (p \in Ways(c) => c[Len(p) + 1] < t[p].len) => u[p].len = t[p].len
      BY <1>1, <1>2, <2>2, CollectedTree
    <3> HIDE DEF u
    <3>2. ASSUME NEW q \in ClassPaths, q \notin Ways(c), q # c
          PROVE  Get(u, q) = IF Cut(q, c, n) THEN Empty ELSE Get(t, q)
      BY <1>4, <3>1, <3>2 DEF Cut
    <3>3. \A p \in Scalars : p \notin Ways(c) /\ p # c
      BY <1>1, <1>4, WaysAreAbove, ClassAssumption
    <3>4. ASSUME NEW d \in Collections \ {c}
          PROVE  /\ Get(u, d) = IF Cut(d, c, n) THEN Empty ELSE Get(t, d)
                 /\ Get(u, d) = Slice => u[d].len = t[d].len
      <4>1. CASE d \in Ways(c)
        <5>1. Get(t, d) = Slice /\ d \in DOMAIN t /\ c[Len(d) + 1] < t[d].len
          BY <1>1, <4>1, SliceAbove
        <5>2. ~Cut(d, c, n) /\ Get(u, d) = Slice
          BY <1>1, <1>4, <3>1, <4>1, NotCut
        <5> QED BY <3>1, <5>1, <5>2
      <4>2. CASE d \notin Ways(c)
        <5>1. Get(u, d) = IF Cut(d, c, n) THEN Empty ELSE Get(t, d)
          BY <1>4, <3>2, <4>2
        <5>2. Get(u, d) = Slice => d \in DOMAIN t
          BY <1>2, <1>4, <5>1, SliceIs, CellsAssumption
        <5> QED BY <3>1, <4>2, <5>1, <5>2
      <4> QED BY <4>1, <4>2
    <3>5. Get(u, c) = Slice
      BY <1>1, <3>1
    <3> QED BY <1>4, <3>1, <3>2, <3>3, <3>4, <3>5
  <2> QED BY <2>1, <2>2
<1> HIDE DEF u
<1>9. ASSUME NEW p \in Scalars
      PROVE  Get(u, p) = IF p \in DOMAIN w THEN w[p] ELSE Empty
  <2>1. DOMAIN w \subseteq DOMAIN v
    BY <1>5
  <2>2. p \in DOMAIN v => (p \in DOMAIN w <=> ~Cut(p, c, n))
    BY <1>4, <1>6
  <2> QED BY <1>2, <1>5, <1>8, <2>1, <2>2
<1>10. ASSUME NEW d \in Collections
       PROVE  IF Get(u, d) = Slice THEN u[d].len = m[d] ELSE m[d] = 0
  BY <1>2, <1>3, <1>8, CellsAssumption
<1>11. FieldsOK(w, m, u)
  BY <1>3, <1>7, <1>8, <1>9, <1>10 DEF FieldsOK
<1> QED
  BY <1>11 DEF m, w, u

-----------------------------------------------------------------------------
\* The fields follow the server in every step. What the parser reads is what the server wrote
\* because the path is (AppliedAsMeant).
LEMMA FieldStep ==
    ASSUME PathInvariant, FieldsOK(value, length, tree), NEW op, Applicable(fp, op), ReadField(op)
    PROVE  FieldsOK(value, length, tree)' /\ meant' \in ClassPaths /\ notified' = Handled(meant')
<1> DEFINE path == Meant(meant, op)
           at == Active(Applied(fp, op))
<1>1. at = path
  BY AppliedAsMeant DEF PathInvariant
<1>2. PICK x \in IF path \in Collections THEN Lengths ELSE Values :
         /\ ServerSets(path, x)
         /\ tree' = IF at \in Collections THEN SetLength(tree, at, x) ELSE Set(tree, at, x)
  BY DEF ReadField
<1>3. Exists(path, length) /\ meant' = path /\ notified' = Handled(at)
  BY DEF ReadField
<1>4. path \in ClassPaths
  BY <1>3 DEF Exists
<1> HIDE DEF path, at
<1>5. CASE path \in Collections
  <2>1. x \in Lengths /\ ServerSets(path, x) /\ tree' = SetLength(tree, path, x)
    BY <1>1, <1>2, <1>5
  <2>2. /\ length' = LengthsWith(length, path, x)
        /\ value' = [q \in {q \in DOMAIN value : Exists(q, LengthsWith(length, path, x))} |->
                        value[q]]
    BY <1>5, <2>1 DEF ServerSets, LengthsWith
  <2>3. FieldsOK(value', length', tree')
    BY <1>3, <1>5, <2>1, <2>2, LengthSet
  <2> QED BY <1>1, <1>3, <1>4, <2>3 DEF FieldsOK, TreeOK, Hanging, Leading, Exists, Get, Cell
<1>6. CASE path \notin Collections
  <2>1. x \in Values /\ ServerSets(path, x) /\ tree' = Set(tree, path, x)
    BY <1>1, <1>2, <1>6
  <2>2. /\ length' = length
        /\ value' = [q \in DOMAIN value \cup {path} |-> IF q = path THEN x ELSE value[q]]
    BY <1>6, <2>1 DEF ServerSets
  <2>3. path \in Scalars \cup Flags
    BY <1>4, <1>6 DEF ClassPaths
  <2>4. FieldsOK(value', length', tree')
    BY <1>3, <2>1, <2>2, <2>3, ValueSet
  <2> QED BY <1>1, <1>3, <1>4, <2>4 DEF FieldsOK, TreeOK, Hanging, Leading, Exists, Get, Cell
<1> QED
  BY <1>5, <1>6

-----------------------------------------------------------------------------
(***************************************************************************)
(* Flat keys. The key is the value of a function defined by recursion, so  *)
(* that there is such a function has to be proved, by induction; another   *)
(* induction takes two equal keys apart, digit by digit.                   *)
(***************************************************************************)
\* A set of numbers with 0 in it, and with each number below a bound the next.
LEMMA UpTo ==
    ASSUME NEW N \in Nat, NEW S, 0 \in S, \A n \in 0..(N - 1) : n \in S => n + 1 \in S
    PROVE  \A n \in 0..N : n \in S
<1> SUFFICES ASSUME NEW k \in 0..N, k \notin S PROVE FALSE
  OBVIOUS
<1> DEFINE Missing == {n \in 0..N : n \notin S}
<1>0. Missing \subseteq Nat /\ Missing # {}
  OBVIOUS
<1>1. IsWellFoundedOn(OpToRel(<, Nat), Nat)
  BY NatLessThanWellFounded
<1>2. PICK m \in Missing : \A y \in Missing : ~(<<y, m>> \in OpToRel(<, Nat))
  <2> HIDE DEF Missing
  <2> QED BY <1>0, <1>1, WFMin
<1>3. m \in 0..N /\ m \notin S /\ m - 1 \in 0..(N - 1) /\ (m - 1) + 1 = m
  <2>1. m \in 0..N /\ m \notin S /\ m # 0
    BY <1>2
  <2> QED BY <2>1
<1>4. m - 1 \notin Missing
  <2> HIDE DEF Missing
  <2>1. \A y \in Missing : ~(y < m)
    BY <1>0, <1>2 DEF OpToRel
  <2> QED BY <1>3, <2>1
<1> QED
  BY <1>3, <1>4

Digit(p, i) == IF i <= Len(p) THEN p[i] ELSE 0

\* f packs the digits of p below h, up to n of them.
Packs(f, p, h, n) ==
    f = [i \in 0..n |-> IF i = 0 THEN h ELSE KeyRadix * f[i - 1] + Digit(p, KeyIndexes + 1 - i)]

LEMMA PackedIs ==
    ASSUME NEW p, NEW h
    PROVE  \E f : Packs(f, p, h, KeyIndexes) /\ Packed(p, h) = f[KeyIndexes]
<1> DEFINE d(i) == Digit(p, KeyIndexes + 1 - i)
           Some == {n \in 0..KeyIndexes : \E f : Packs(f, p, h, n)}
           packed == CHOOSE f : Packs(f, p, h, KeyIndexes)
<1>1. KeyIndexes \in Nat
  BY KeyAssumption
<1>2. 0 \in Some
  <2>1. Packs([i \in 0..0 |-> h], p, h, 0)
    BY DEF Packs
  <2> QED BY <1>1, <2>1
<1>3. ASSUME NEW n \in 0..(KeyIndexes - 1), n \in Some PROVE n + 1 \in Some
  <2>1. PICK f : Packs(f, p, h, n)
    BY <1>3
  <2> DEFINE g == [i \in 0..(n + 1) |-> IF i = n + 1 THEN KeyRadix * f[n] + d(n + 1) ELSE f[i]]
  <2>2. ASSUME NEW i \in 0..(n + 1)
        PROVE  g[i] = IF i = 0 THEN h ELSE KeyRadix * g[i - 1] + d(i)
    <3> HIDE DEF d
    <3>1. CASE i = n + 1
      <4>1. i # 0 /\ i - 1 = n /\ n \in 0..(n + 1) /\ n # n + 1
        BY <1>1, <3>1
      <4>2. g[n] = f[n]
        BY <4>1
      <4> QED BY <3>1, <4>1, <4>2
    <3>2. CASE i # n + 1
      <4>1. i \in 0..n /\ (i # 0 => i - 1 \in 0..(n + 1) /\ i - 1 # n + 1)
        BY <1>1, <3>2
      <4>2. f[i] = IF i = 0 THEN h ELSE KeyRadix * f[i - 1] + d(i)
        BY <2>1, <4>1 DEF Packs, d
      <4>3. g[i] = f[i] /\ (i # 0 => g[i - 1] = f[i - 1])
        BY <3>2, <4>1
      <4> QED BY <4>1, <4>2, <4>3
    <3> QED BY <3>1, <3>2
  <2>3. Packs(g, p, h, n + 1)
    <3>1. g = [i \in 0..(n + 1) |-> g[i]]
      OBVIOUS
    <3> HIDE DEF g
    <3> QED BY <2>2, <3>1 DEF Packs, d
  <2>4. n + 1 \in 0..KeyIndexes
    BY <1>1
  <2> HIDE DEF g
  <2> QED BY <2>3, <2>4
<1>4. KeyIndexes \in Some
  <2> HIDE DEF Some
  <2>1. \A n \in 0..KeyIndexes : n \in Some
    BY <1>1, <1>2, <1>3, UpTo
  <2> QED BY <1>1, <2>1
<1>5. Packs(packed, p, h, KeyIndexes)
  BY <1>4
<1>6. Packed(p, h) = packed[KeyIndexes]
  BY DEF Packed, Packs, Digit
<1> HIDE DEF packed
<1> QED
  BY <1>5, <1>6

\* A number has one lowest digit and one rest.
LEMMA DigitIs ==
    ASSUME NEW b \in Nat \ {0}, NEW x \in Nat, NEW y \in Nat,
           NEW d \in 0..(b - 1), NEW e \in 0..(b - 1), b * x + d = b * y + e
    PROVE  x = y /\ d = e
<1>1. ASSUME NEW u \in Nat, NEW w \in Nat, u < w PROVE b * u + b <= b * w
  <2>1. w - u - 1 \in Nat /\ w = u + 1 + (w - u - 1)
    BY <1>1
  <2>2. PICK k \in Nat : w = u + 1 + k
    BY <2>1
  <2>3. b * w = b * u + b + b * k /\ b * k \in Nat /\ b * u \in Nat
    BY <2>2
  <2> QED BY <2>3
<1>2. ~(x < y)
  <2> SUFFICES ASSUME x < y PROVE FALSE
    OBVIOUS
  <2>1. b * x + b <= b * y /\ b * x \in Nat /\ b * y \in Nat
    BY <1>1
  <2> QED BY <2>1
<1>3. ~(y < x)
  <2> SUFFICES ASSUME y < x PROVE FALSE
    OBVIOUS
  <2>1. b * y + b <= b * x /\ b * x \in Nat /\ b * y \in Nat
    BY <1>1
  <2> QED BY <2>1
<1>4. x = y
  BY <1>2, <1>3
<1>5. b * x \in Nat
  OBVIOUS
<1> QED
  BY <1>4, <1>5

LEMMA DigitsSmall ==
    ASSUME NEW p \in Seq(Nat), HasFlatKey(p), NEW i \in 1..KeyIndexes
    PROVE  Digit(p, i) \in 0..(KeyRadix - 1)
<1>1. KeyRadix \in Nat \ {0} /\ KeyIndexes \in Nat /\ Len(p) \in Nat
  BY KeyAssumption
<1>2. i <= Len(p) => i \in 1..Len(p)
  BY <1>1
<1> QED
  BY <1>1, <1>2 DEF HasFlatKey, Digit

\* What is packed of the digits is a number.
LEMMA PackedNat ==
    ASSUME NEW p \in Seq(Nat), HasFlatKey(p), NEW h \in Nat, NEW f, Packs(f, p, h, KeyIndexes)
    PROVE  \A n \in 0..KeyIndexes : f[n] \in Nat
<1> DEFINE S == {n \in 0..KeyIndexes : f[n] \in Nat}
<1>1. KeyRadix \in Nat \ {0} /\ KeyIndexes \in Nat
  BY KeyAssumption
<1>2. 0 \in S
  BY <1>1 DEF Packs
<1>3. ASSUME NEW n \in 0..(KeyIndexes - 1), n \in S PROVE n + 1 \in S
  <2>1. /\ n + 1 \in 0..KeyIndexes /\ n + 1 # 0 /\ (n + 1) - 1 = n
        /\ KeyIndexes + 1 - (n + 1) \in 1..KeyIndexes
    BY <1>1
  <2>2. f[n + 1] = KeyRadix * f[n] + Digit(p, KeyIndexes + 1 - (n + 1))
    BY <2>1 DEF Packs
  <2>3. Digit(p, KeyIndexes + 1 - (n + 1)) \in Nat
    BY <1>1, <2>1, DigitsSmall
  <2>4. KeyRadix * f[n] \in Nat
    BY <1>1, <1>3
  <2>5. f[n + 1] \in Nat
    BY <2>2, <2>3, <2>4
  <2> QED BY <2>1, <2>5
<1> HIDE DEF S
<1>4. \A n \in 0..KeyIndexes : n \in S
  BY <1>1, <1>2, <1>3, UpTo
<1> QED
  BY <1>4 DEF S

\* Two paths have the same key only if they are the same (fpFlatKey).
LEMMA KeysDiffer ==
    ASSUME NEW p \in Seq(Nat), p # <<>>, NEW q \in Seq(Nat), q # <<>>,
           FlatKey(p) # {}, FlatKey(p) = FlatKey(q)
    PROVE  p = q
<1>1. KeyRadix \in Nat \ {0} /\ KeyIndexes \in Nat
  BY KeyAssumption
<1>2. /\ HasFlatKey(p) /\ HasFlatKey(q)
      /\ Packed(p, Len(p) - 1) = Packed(q, Len(q) - 1)
  BY DEF FlatKey
<1>3. Len(p) - 1 \in Nat /\ Len(q) - 1 \in Nat /\ Len(p) \in Nat /\ Len(q) \in Nat
  BY AboveIs
<1>4. PICK f : Packs(f, p, Len(p) - 1, KeyIndexes) /\ Packed(p, Len(p) - 1) = f[KeyIndexes]
  BY PackedIs
<1>5. PICK g : Packs(g, q, Len(q) - 1, KeyIndexes) /\ Packed(q, Len(q) - 1) = g[KeyIndexes]
  BY PackedIs
<1>6. /\ \A n \in 0..KeyIndexes : f[n] \in Nat
      /\ \A n \in 0..KeyIndexes : g[n] \in Nat
  BY <1>2, <1>3, <1>4, <1>5, PackedNat
<1>7. ASSUME NEW n \in 1..KeyIndexes, f[n] = g[n]
      PROVE  f[n - 1] = g[n - 1] /\ Digit(p, KeyIndexes + 1 - n) = Digit(q, KeyIndexes + 1 - n)
  <2> DEFINE d == Digit(p, KeyIndexes + 1 - n)
             e == Digit(q, KeyIndexes + 1 - n)
  <2>1. /\ n \in 0..KeyIndexes /\ n # 0 /\ n - 1 \in 0..KeyIndexes
        /\ KeyIndexes + 1 - n \in 1..KeyIndexes
    BY <1>1
  <2>2. f[n] = KeyRadix * f[n - 1] + d /\ g[n] = KeyRadix * g[n - 1] + e
    BY <1>4, <1>5, <2>1 DEF Packs
  <2>3. d \in 0..(KeyRadix - 1) /\ e \in 0..(KeyRadix - 1)
    BY <1>2, <2>1, DigitsSmall
  <2>4. f[n - 1] \in Nat /\ g[n - 1] \in Nat
    BY <1>6, <2>1
  <2> HIDE DEF d, e
  <2>5. KeyRadix * f[n - 1] + d = KeyRadix * g[n - 1] + e
    BY <1>7, <2>2
  <2>6. f[n - 1] = g[n - 1] /\ d = e
    <3> DEFINE x == f[n - 1]
               y == g[n - 1]
    <3>1. x \in Nat /\ y \in Nat /\ KeyRadix * x + d = KeyRadix * y + e
      BY <2>4, <2>5
    <3> HIDE DEF x, y
    <3>2. x = y /\ d = e
      BY <1>1, <2>3, <3>1, DigitIs
    <3> QED BY <3>2 DEF x, y
  <2> QED BY <2>6 DEF d, e
<1> DEFINE S == {j \in 0..KeyIndexes : f[KeyIndexes - j] = g[KeyIndexes - j]}
<1>8. 0 \in S
  <2>1. f[KeyIndexes] = g[KeyIndexes] /\ KeyIndexes - 0 = KeyIndexes
    BY <1>1, <1>2, <1>4, <1>5
  <2> QED BY <1>1, <2>1
<1>9. ASSUME NEW j \in 0..(KeyIndexes - 1), j \in S PROVE j + 1 \in S
  <2>1. /\ KeyIndexes - j \in 1..KeyIndexes /\ j + 1 \in 0..KeyIndexes
        /\ (KeyIndexes - j) - 1 = KeyIndexes - (j + 1)
    BY <1>1
  <2> QED BY <1>7, <1>9, <2>1
<1>10. \A j \in 0..KeyIndexes : j \in S
  <2> HIDE DEF S
  <2> QED BY <1>1, <1>8, <1>9, UpTo
<1>11. ASSUME NEW n \in 0..KeyIndexes PROVE f[n] = g[n]
  <2>1. KeyIndexes - n \in 0..KeyIndexes /\ KeyIndexes - (KeyIndexes - n) = n
    BY <1>1
  <2>2. KeyIndexes - n \in S
    BY <1>10, <2>1
  <2> QED BY <2>1, <2>2
<1>12. Len(p) = Len(q)
  <2>1. 0 \in 0..KeyIndexes
    BY <1>1
  <2>2. f[0] = Len(p) - 1 /\ g[0] = Len(q) - 1
    BY <1>4, <1>5, <2>1 DEF Packs
  <2> QED BY <1>3, <1>11, <2>1, <2>2
<1>13. ASSUME NEW i \in 1..Len(p) PROVE p[i] = q[i]
  <2>1. /\ Len(p) <= KeyIndexes
        /\ KeyIndexes + 1 - i \in 1..KeyIndexes /\ KeyIndexes + 1 - i \in 0..KeyIndexes
        /\ KeyIndexes + 1 - (KeyIndexes + 1 - i) = i
    BY <1>1, <1>2, <1>3 DEF HasFlatKey
  <2>2. Digit(p, i) = Digit(q, i)
    BY <1>7, <1>11, <2>1
  <2> QED BY <1>3, <1>12, <2>2 DEF Digit
<1> QED
  BY <1>12, <1>13, SamePath

LEMMA HandledIs ==
    ASSUME NEW p \in ClassPaths
    PROVE  Handled(p) = {p}
<1>1. \A q \in ClassPaths : q \in Seq(Nat) /\ q # <<>>
  BY ClassPathIs
<1>2. ASSUME FlatKey(p) # {}, NEW q \in ClassPaths, FlatKey(q) = FlatKey(p) PROVE q = p
  BY <1>1, <1>2, KeysDiffer
<1> QED
  BY <1>2 DEF Handled

-----------------------------------------------------------------------------
\* What holds in every state: the path, the fields, and whose handlers were called.
IInv ==
    /\ PathInvariant
    /\ FieldsOK(value, length, tree)
    /\ HandlersOfTheField

LEMMA FieldsInit == Init => IInv
<1> SUFFICES ASSUME Init PROVE IInv
  OBVIOUS
<1>1. PathInvariant /\ meant = <<-1>> /\ notified = {}
  BY PathInit DEF Init
<1>2. HandlersOfTheField
  <2>1. <<-1>> \notin Seq(Nat)
    OBVIOUS
  <2>2. meant \notin ClassPaths
    BY <1>1, <2>1, ClassPathIs
  <2> QED BY <1>1, <2>2 DEF HandlersOfTheField
<1>3. DOMAIN tree = {<<>>} /\ tree = [p \in DOMAIN tree |-> tree[p]]
      /\ tree[<<>>] = [len |-> 0, cells |-> EmptyCells(2 * Cells)]
  BY DEF Init, NewTree
<1>4. NodeOK(tree[<<>>]) /\ \A z \in Nat : Below(tree[<<>>], z) = Empty
  BY <1>3, NewNodes
<1>5. Hanging(tree) /\ Leading(tree)
  <2>1. <<>> \in Seq(Nat) /\ Len(<<>>) = 0 /\ 1..0 = {}
    OBVIOUS
  <2> QED BY <1>3, <1>4, <2>1, CellsAssumption DEF Hanging, Leading
<1>6. ASSUME NEW q \in ClassPaths PROVE Get(tree, q) = Empty
  <2>1. q \in Seq(Nat) /\ q # <<>> /\ End(q) \in Nat
    BY ClassPathIs, AboveIs
  <2>2. Get(tree, q) = At(tree, Above(q), End(q))
    BY <1>5, <2>1, GetIs
  <2> QED BY <1>3, <1>4, <2>1, <2>2 DEF At
<1>7. /\ length = [c \in Collections |-> 0] /\ DOMAIN value = {}
  BY DEF Init
<1>8. 0 \in Lengths
  BY BoundsAssumption DEF Lengths
<1>9. FieldsOK(value, length, tree)
  BY <1>5, <1>6, <1>7, <1>8, CellsAssumption DEF FieldsOK, TreeOK, ClassPaths
<1> QED
  BY <1>1, <1>2, <1>9 DEF IInv

LEMMA FieldsStep == IInv /\ [Next]_vars => IInv'
<1> SUFFICES ASSUME IInv, [Next]_vars PROVE IInv'
  OBVIOUS
<1>1. PathInvariant /\ FieldsOK(value, length, tree) /\ HandlersOfTheField
  BY DEF IInv
<1>2. PathInvariant'
  BY <1>1, PathStep
<1>3. CASE \E op : Applicable(fp, op) /\ ReadField(op)
  <2>1. /\ FieldsOK(value, length, tree)'
        /\ meant' \in ClassPaths /\ notified' = Handled(meant')
    BY <1>1, <1>3, FieldStep
  <2>2. notified' = {meant'}
    BY <2>1, HandledIs
  <2> QED BY <1>2, <2>1, <2>2 DEF IInv, HandlersOfTheField
<1>4. CASE FieldPathEncodeFinish
  <2>1. meant' = <<-1>> /\ notified' = {} /\ UNCHANGED <<value, length, tree>>
    BY <1>4 DEF FieldPathEncodeFinish
  <2>2. <<-1>> \notin Seq(Nat)
    OBVIOUS
  <2>3. meant' \notin ClassPaths
    BY <2>1, <2>2, ClassPathIs
  <2>4. HandlersOfTheField'
    BY <2>1, <2>3 DEF HandlersOfTheField, ClassPaths
  <2>5. FieldsOK(value, length, tree)'
    BY <1>1, <2>1 DEF FieldsOK, TreeOK, Hanging, Leading, Exists, Get, Cell
  <2> QED BY <1>2, <2>4, <2>5 DEF IInv
<1>5. CASE UNCHANGED vars
  <2>1. FieldsOK(value, length, tree)'
    BY <1>1, <1>5 DEF vars, FieldsOK, TreeOK, Hanging, Leading, Exists, Get, Cell
  <2>2. HandlersOfTheField'
    BY <1>1, <1>5 DEF vars, HandlersOfTheField
  <2> QED BY <1>2, <2>1, <2>2 DEF IInv
<1> QED
  BY <1>1, <1>3, <1>4, <1>5, FieldsAreRead

\* What the properties of an entity's fields rest on holds in every state (readFields).
THEOREM InductiveInvariant == Spec => []IInv
BY FieldsInit, FieldsStep, PTL DEF Spec

\* The shape of the path and of the tree of slices (fieldPath, fieldState).
THEOREM TypeCorrect == Spec => []TypeOK
<1>1. IInv => TypeOK
  <2> SUFFICES ASSUME IInv PROVE TypeOK
    OBVIOUS
  <2>1. fp \in Paths /\ ZeroBehind(fp) /\ TreeOK(tree)
    BY DEF IInv, PathInvariant, FieldsOK
  <2>2. fp.last \in Positions /\ \A i \in Positions : i > fp.last => fp.path[i] = 0
    BY <2>1 DEF Paths, ZeroBehind
  <2>3. ASSUME NEW p \in DOMAIN tree
        PROVE  /\ tree[p].len <= Capacity(tree[p])
               /\ \A i \in 1..Capacity(tree[p]) :
                     /\ tree[p].cells[i] = Slice => Append(p, i - 1) \in DOMAIN tree
                     /\ i > tree[p].len => tree[p].cells[i] = Empty
    <3>1. NodeOK(tree[p]) /\ \A z \in Nat : Below(tree[p], z) = Slice => Append(p, z) \in DOMAIN tree
      BY <2>1 DEF TreeOK, Hanging, Leading
    <3>2. tree[p].len <= Capacity(tree[p])
          /\ \A i \in 1..Capacity(tree[p]) : i > tree[p].len => tree[p].cells[i] = Empty
      BY <3>1 DEF NodeOK, Capacity
    <3>3. ASSUME NEW i \in 1..Capacity(tree[p]), tree[p].cells[i] = Slice
          PROVE  Append(p, i - 1) \in DOMAIN tree
      <4>1. Capacity(tree[p]) \in Nat
        BY <3>1 DEF NodeOK, Nodes, Capacity
      <4>2. i - 1 \in Nat /\ i - 1 < Capacity(tree[p]) /\ (i - 1) + 1 = i
        BY <4>1
      <4>3. Below(tree[p], i - 1) = Slice
        BY <3>1, <3>3, <4>2, CellBelow DEF Cell
      <4> QED BY <3>1, <4>2, <4>3
    <3> QED BY <3>2, <3>3
  <2> QED BY <2>1, <2>2, <2>3 DEF TypeOK, TreeOK, Hanging
<1> QED
  BY <1>1, InductiveInvariant, PTL

\* An entity has the server's values and lengths after every field, whatever slices had to be
\* made, made longer or shortened for them (fieldState, readFields).
THEOREM EntityFollows == Spec => []FieldsFollow
<1>1. IInv => FieldsFollow
  BY DEF IInv, FieldsOK, FieldsFollow
<1> QED
  BY <1>1, InductiveInvariant, PTL

\* A value is given to the handlers of its field and to no others, for every class and every
\* width of the flat keys (dispatchUpdate, fpFlatKey).
THEOREM HandlersAreTheFields == Spec => []HandlersOfTheField
<1>1. IInv => HandlersOfTheField
  BY DEF IInv
<1> QED
  BY <1>1, InductiveInvariant, PTL
=============================================================================
