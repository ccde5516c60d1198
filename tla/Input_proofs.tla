------------------------------ MODULE Input_proofs ------------------------------
(***************************************************************************)
(* What the parser is given to read: the bytes of a live broadcast         *)
(* (CSTVReader) and the entries of string tables (StringTables).           *)
(*                                                                         *)
(* CSTVReader is proved for every broadcast, every size of slice and every *)
(* timeout: whatever the caller, the server and the network do, the bytes  *)
(* come once and in their order.  Broadcast is defined by recursion, so    *)
(* what it is has to be proved by induction: the theorem of                *)
(* WellFoundedInduction on minimal elements of sets gives the least number *)
(* for which it would not hold.                                            *)
(*                                                                         *)
(* StringTables is proved for all names, formats, keys, values and lists,  *)
(* and for every length of the history.                                    *)
(***************************************************************************)
EXTENDS CSTVReader, StringTables, SequenceTheorems, WellFoundedInduction, TLAPS

---------------------------------------------------------------------------
(* A set of numbers that has 0, and with each number that is less than a   *)
(* bound the next, has all numbers up to the bound.                        *)
LEMMA UpTo ==
  ASSUME NEW N \in Nat, NEW T, 0 \in T, \A n \in 0 .. N - 1 : n \in T => n + 1 \in T
  PROVE  \A n \in 0 .. N : n \in T
<1> SUFFICES ASSUME NEW k \in 0 .. N, k \notin T PROVE FALSE
  OBVIOUS
<1> DEFINE Out == {n \in 0 .. N : n \notin T}
<1>1. Out \subseteq Nat /\ Out # {}
  OBVIOUS
<1>2. IsWellFoundedOn(OpToRel(<, Nat), Nat)
  BY NatLessThanWellFounded
<1>3. PICK m \in Out : \A y \in Out : ~ (<<y, m>> \in OpToRel(<, Nat))
  BY <1>1, <1>2, WFMin
<1>4. m \in 0 .. N /\ m \notin T /\ m # 0
  BY <1>3
<1>5. m - 1 \in 0 .. N - 1 /\ (m - 1) + 1 = m
  BY <1>4
<1>6. m - 1 \notin Out
  <2> HIDE DEF Out
  <2>1. \A y \in Out : ~(y < m)
    BY <1>1, <1>3 DEF OpToRel
  <2> QED
    BY <1>4, <2>1
<1>7. m - 1 \in T
  BY <1>5, <1>6
<1> QED
  BY <1>4, <1>5, <1>7

(* The numbers up to which there is such a function as Broadcast.          *)
Is(f, n) == f = [d \in 0 .. n |-> IF d = 0 THEN Opening ELSE f[d - 1] \o Deltas[d]]
Steps(N) == {n \in 0 .. N : \E f : Is(f, n)}

(* The recursive equation of Broadcast.                                    *)
LEMMA BroadcastIs ==
  /\ Broadcast[0] = Opening
  /\ \A d \in 1 .. Len(Deltas) : Broadcast[d] = Broadcast[d - 1] \o Deltas[d]
<1> DEFINE N == Len(Deltas)
<1>1. N \in Nat
  BY ReaderAssumption
<1>2. 0 \in Steps(N)
  <2>1. Is([d \in 0 .. 0 |-> Opening], 0)
    BY DEF Is
  <2> QED
    BY <1>1, <2>1 DEF Steps
<1>3. ASSUME NEW n \in 0 .. N - 1, n \in Steps(N) PROVE n + 1 \in Steps(N)
  <2>1. PICK f : Is(f, n)
    BY <1>3 DEF Steps
  <2> DEFINE g == [d \in 0 .. n + 1 |-> IF d = n + 1 THEN f[n] \o Deltas[n + 1] ELSE f[d]]
  <2>2. ASSUME NEW d \in 0 .. n + 1
        PROVE  g[d] = IF d = 0 THEN Opening ELSE g[d - 1] \o Deltas[d]
    <3>1. CASE d = n + 1
      <4>1. d # 0 /\ d - 1 = n /\ n \in 0 .. n + 1 /\ n # n + 1
        BY <1>1, <3>1
      <4>2. g[n] = f[n]
        BY <4>1
      <4> QED
        BY <3>1, <4>1, <4>2
    <3>2. CASE d # n + 1
      <4>1. d \in 0 .. n
        BY <1>1, <3>2
      <4>2. f[d] = IF d = 0 THEN Opening ELSE f[d - 1] \o Deltas[d]
        BY <2>1, <4>1 DEF Is
      <4>3. d # 0 => d - 1 \in 0 .. n + 1 /\ d - 1 # n + 1
        BY <1>1, <4>1
      <4>4. d # 0 => g[d - 1] = f[d - 1]
        BY <4>3
      <4> QED
        BY <3>2, <4>2, <4>4
    <3> QED
      BY <3>1, <3>2
  <2>3. g = [d \in 0 .. n + 1 |-> g[d]]
    OBVIOUS
  <2> HIDE DEF g
  <2>4. Is(g, n + 1)
    BY <2>2, <2>3 DEF Is
  <2> QED
    BY <1>1, <2>4 DEF Steps
<1>4. N \in Steps(N)
  <2> HIDE DEF N
  <2>1. \A n \in 0 .. N : n \in Steps(N)
    BY <1>1, <1>2, <1>3, UpTo
  <2> QED
    BY <1>1, <2>1
<1>5. \E f : Is(f, N)
  BY <1>4 DEF Steps
<1>6. Is(Broadcast, N)
  BY <1>5 DEF Broadcast, Is
<1> HIDE DEF Broadcast
<1>7. \A d \in 0 .. N : Broadcast[d] = IF d = 0 THEN Opening ELSE Broadcast[d - 1] \o Deltas[d]
  BY <1>6 DEF Is
<1> HIDE DEF N
<1>8. 0 \in 0 .. N /\ \A d \in 1 .. N : d \in 0 .. N /\ d # 0
  BY <1>1
<1>9. \A d \in 1 .. N : Broadcast[d] = Broadcast[d - 1] \o Deltas[d]
  BY <1>7, <1>8
<1> QED
  BY <1>7, <1>8, <1>9 DEF N

---------------------------------------------------------------------------
(* Read takes a prefix of the buffer and leaves the rest.                  *)
LEMMA Split ==
  ASSUME NEW S, NEW s \in Seq(S), NEW n \in Nat
  PROVE  LET k == IF n < Len(s) THEN n ELSE Len(s)
         IN  /\ SubSeq(s, 1, k) \in Seq(S) /\ SubSeq(s, k + 1, Len(s)) \in Seq(S)
             /\ Len(SubSeq(s, 1, k)) = k
             /\ SubSeq(s, 1, k) \o SubSeq(s, k + 1, Len(s)) = s
<1> DEFINE k == IF n < Len(s) THEN n ELSE Len(s)
<1>1. Len(s) \in Nat /\ \A i \in 1 .. Len(s) : s[i] \in S
  BY LenProperties
<1>2. k \in 0 .. Len(s)
  BY <1>1
<1> HIDE DEF k
<1>3. SubSeq(s, 1, k) \in Seq(S) /\ Len(SubSeq(s, 1, k)) = k
  <2>1. \A i \in 1 .. k : s[i] \in S
    BY <1>1, <1>2
  <2>2. k \in Int
    BY <1>1, <1>2
  <2> QED
    BY <1>1, <1>2, <2>1, <2>2, SubSeqProperties
<1>4. SubSeq(s, k + 1, Len(s)) \in Seq(S)
  <2>1. \A i \in k + 1 .. Len(s) : s[i] \in S
    BY <1>1, <1>2
  <2>2. k + 1 \in Int /\ Len(s) \in Int
    BY <1>1, <1>2
  <2> QED
    BY <2>1, <2>2, SubSeqProperties
<1>5. SubSeq(s, 1, k) \o SubSeq(s, k + 1, Len(s)) = s
  <2>1. /\ 1 \in 1 .. Len(s) + 1 /\ k \in 1 - 1 .. Len(s) /\ Len(s) \in k .. Len(s)
    BY <1>1, <1>2
  <2>2. SubSeq(s, 1, k) \o SubSeq(s, k + 1, Len(s)) = SubSeq(s, 1, Len(s))
    BY <2>1, ConcatAdjacentSubSeq
  <2> QED
    BY <2>2, SubSeqFull
<1> QED
  BY <1>3, <1>4, <1>5 DEF k

(* The types, with the size of the slice.                                  *)
TypeInv == TypeOK /\ size \in Nat

(* A Read that reported no error has read something.                       *)
ReadSomething == pc = "outside" /\ ret.err = "nil" /\ size > 0 => ret.n > 0

(* The inductive invariant.                                                *)
IInv == TypeInv /\ Contiguous /\ ReadSomething

(* The broadcast is a sequence of bytes.                                   *)
LEMMA DeltasTyped ==
  /\ Opening \in Seq(Bytes) /\ Len(Deltas) \in Nat
  /\ \A d \in 1 .. Len(Deltas) : Deltas[d] \in Seq(Bytes)
BY ReaderAssumption, LenProperties, ElementOfSeq

(* Concatenation of bytes.                                                 *)
LEMMA Concat ==
  \A a, b \in Seq(Bytes) :
    /\ a \o b \in Seq(Bytes) /\ Len(a \o b) = Len(a) + Len(b)
    /\ \A c \in Seq(Bytes) : (a \o b) \o c = a \o (b \o c)
BY ConcatProperties, ConcatAssociative

(* The invariant holds at the start.                                       *)
LEMMA InitInv == Init => IInv
<1> SUFFICES ASSUME Init PROVE IInv
  OBVIOUS
<1>1. TypeInv
  <2>1. ret \in [n : Nat, err : {"nil", "EOF", "error"}]
    BY DEF Init
  <2>2. << >> \in Seq(Bytes) /\ Len(<< >>) = 0
    BY EmptySeq
  <2>3. {buf, p, delivered} \subseteq Seq(Bytes) /\ Len(p) <= size /\ size \in Nat
    BY <2>2, DeltasTyped DEF Init
  <2>4. /\ pc \in {"outside", "fetching", "sleeping"} /\ torn \in BOOLEAN
        /\ frag \in 0 .. published /\ published \in 0 .. Len(Deltas)
        /\ nFails \in 0 .. 6 /\ backoff \in Nat
    <3>1. published = 0 /\ frag = 0 /\ nFails = 0 /\ backoff = 16 /\ Len(Deltas) \in Nat
      BY DeltasTyped DEF Init, Second
    <3>2. pc \in {"outside", "fetching", "sleeping"} /\ torn \in BOOLEAN
      BY Zenon DEF Init
    <3>3. /\ frag \in 0 .. published /\ published \in 0 .. Len(Deltas)
          /\ nFails \in 0 .. 6 /\ backoff \in Nat
      BY <3>1
    <3> QED
      BY <3>2, <3>3
  <2> QED
    BY <2>1, <2>3, <2>4 DEF TypeInv, TypeOK
<1>2. Contiguous
  <2>1. << >> \o << >> \o Opening = Opening
    BY DeltasTyped, ConcatEmptySeq, EmptySeq
  <2> QED
    BY <2>1, BroadcastIs DEF Init, Contiguous
<1> QED
  BY <1>1, <1>2 DEF IInv, ReadSomething, Init

(* Read of what is buffered moves bytes from the buffer to the caller.     *)
LEMMA ReadInv ==
  ASSUME IInv, NEW n \in Sizes, Read(n)
  PROVE  IInv'
<1>1. /\ pc = "outside" /\ size' = n /\ nFails' = 0 /\ backoff' = Second
      /\ frag' = frag /\ published' = published /\ torn' = torn
  BY DEF Read
<1>2. n \in Nat
  BY ReaderAssumption
<1>3. /\ buf \in Seq(Bytes) /\ p \in Seq(Bytes) /\ delivered \in Seq(Bytes) /\ Len(buf) \in Nat
      /\ frag \in 0 .. published /\ published \in 0 .. Len(Deltas) /\ torn \in BOOLEAN
      /\ ret \in [n : Nat, err : {"nil", "EOF", "error"}]
  BY LenProperties DEF IInv, TypeInv, TypeOK
<1>4. ~torn => delivered \o << >> \o buf = Broadcast[frag]
  BY <1>1 DEF IInv, Contiguous
<1>5. CASE buf = << >> /\ n > 0
  <2>1. pc' = "fetching" /\ p' = << >> /\ buf' = buf /\ ret' = ret /\ delivered' = delivered
    BY <1>5 DEF Read
  <2>2. TypeInv'
    BY <1>1, <1>2, <1>3, <2>1 DEF TypeInv, TypeOK, Second
  <2> QED
    BY <1>1, <1>4, <2>1, <2>2 DEF IInv, Contiguous, ReadSomething
<1>6. CASE ~(buf = << >> /\ n > 0)
  <2> DEFINE k == IF n < Len(buf) THEN n ELSE Len(buf)
  <2>1. /\ p' = SubSeq(buf, 1, k) /\ buf' = SubSeq(buf, k + 1, Len(buf))
        /\ pc' = "outside" /\ ret' = [n |-> Len(p'), err |-> "nil"]
        /\ delivered' = delivered \o p'
    BY <1>6 DEF Read, Take, Drop, Return
  <2>2. /\ p' \in Seq(Bytes) /\ buf' \in Seq(Bytes) /\ Len(p') = k /\ p' \o buf' = buf
    BY <1>2, <1>3, <2>1, Split
  <2>3. k \in Nat /\ k <= n /\ (n > 0 => k > 0)
    <3>1. n > 0 => Len(buf) # 0
      BY <1>3, <1>6, EmptySeq
    <3> QED
      BY <1>2, <1>3, <3>1
  <2> HIDE DEF k
  <2>4. delivered' \in Seq(Bytes)
    BY <1>3, <2>1, <2>2, Concat
  <2>5. TypeInv'
    <3>1. ret' \in [n : Nat, err : {"nil", "EOF", "error"}]
      BY <2>1, <2>2, <2>3
    <3> QED
      <4>1. Len(p') <= size' /\ size' \in Nat
        BY <1>1, <1>2, <2>2, <2>3
      <4>2. {buf', p', delivered'} \subseteq Seq(Bytes)
        BY <2>2, <2>4
      <4>3. nFails' \in 0 .. 6 /\ backoff' \in Nat
        BY <1>1 DEF Second
      <4> QED
        BY <1>1, <1>3, <2>1, <3>1, <4>1, <4>2, <4>3 DEF TypeInv, TypeOK
  <2>6. delivered' \o << >> \o buf' = delivered \o << >> \o buf
    <3>1. delivered' \o << >> = delivered \o p' /\ delivered \o << >> = delivered
      BY <1>3, <2>1, <2>4, ConcatEmptySeq
    <3>2. (delivered \o p') \o buf' = delivered \o (p' \o buf')
      BY ZenonT(60), <1>3, <2>2, Concat
    <3> QED
      BY <2>2, <3>1, <3>2
  <2>7. Contiguous'
    BY <1>1, <1>4, <2>1, <2>6 DEF Contiguous
  <2>8. ReadSomething'
    BY <1>1, <1>2, <2>1, <2>2, <2>3 DEF ReadSomething
  <2> QED
    BY <2>5, <2>7, <2>8 DEF IInv
<1> QED
  BY <1>5, <1>6

(* A Read that returns with an error delivers what it had read.            *)
LEMMA ReturnInv ==
  ASSUME IInv, pc # "outside", NEW err \in {"EOF", "error"}, Return(p, err),
         frag' = frag, size' = size, p' = p, published' = published,
         nFails' \in 0 .. 6, backoff' \in Nat, torn' \in BOOLEAN, buf' \in Seq(Bytes),
         ~torn' => ~torn /\ buf' = buf
  PROVE  IInv'
<1>1. /\ p \in Seq(Bytes) /\ delivered \in Seq(Bytes) /\ buf \in Seq(Bytes)
      /\ frag \in 0 .. published /\ published \in 0 .. Len(Deltas) /\ Len(p) <= size
      /\ size \in Nat
  BY DEF IInv, TypeInv, TypeOK
<1>2. pc' = "outside" /\ ret' = [n |-> Len(p), err |-> err] /\ delivered' = delivered \o p
  BY DEF Return
<1>3. delivered' \in Seq(Bytes) /\ Len(p) \in Nat
  BY <1>1, <1>2, Concat, LenProperties
<1>4. TypeInv'
  <2>1. ret' \in [n : Nat, err : {"nil", "EOF", "error"}]
    BY <1>2, <1>3
  <2> QED
    BY <1>1, <1>2, <1>3, <2>1 DEF TypeInv, TypeOK
<1>5. Contiguous'
  <2>1. delivered' \o << >> = delivered \o p
    BY <1>2, <1>3, ConcatEmptySeq
  <2> QED
    BY <1>2, <2>1 DEF IInv, Contiguous
<1>6. ReadSomething'
  BY <1>2 DEF ReadSomething
<1> QED
  BY <1>4, <1>5, <1>6 DEF IInv

(* A fragment is the next of the broadcast; what p does not take of it     *)
(* stays buffered.                                                         *)
LEMMA FetchedInv ==
  ASSUME IInv, Fetched
  PROVE  IInv'
<1> DEFINE d == Deltas[frag + 1]
           all == buf \o d
           space == size - Len(p)
           k == IF space < Len(all) THEN space ELSE Len(all)
<1>1. /\ buf \in Seq(Bytes) /\ p \in Seq(Bytes) /\ delivered \in Seq(Bytes)
      /\ frag \in 0 .. published /\ published \in 0 .. Len(Deltas) /\ Len(p) <= size
      /\ Len(p) \in Nat /\ size \in Nat /\ nFails \in 0 .. 6 /\ torn \in BOOLEAN
      /\ ret \in [n : Nat, err : {"nil", "EOF", "error"}]
  BY LenProperties DEF IInv, TypeInv, TypeOK
<1>2. /\ pc = "fetching" /\ frag < published
      /\ p' = p \o SubSeq(all, 1, k) /\ buf' = SubSeq(all, k + 1, Len(all))
      /\ frag' = frag + 1 /\ backoff' = Second /\ size' = size /\ nFails' = nFails
      /\ published' = published /\ torn' = torn
  BY DEF Fetched, Space, Advance
<1>3. frag + 1 \in 1 .. Len(Deltas) /\ frag + 1 \in 0 .. published
  BY <1>1, <1>2, DeltasTyped
<1>4. d \in Seq(Bytes) /\ space \in Nat
  BY <1>1, <1>3, DeltasTyped
<1>5. all \in Seq(Bytes) /\ Len(all) \in Nat
  BY <1>1, <1>4, Concat, LenProperties
<1>6. k \in Nat /\ k <= space
  BY <1>4, <1>5
<1>7. Broadcast[frag + 1] = Broadcast[frag] \o d
  <2>1. (frag + 1) - 1 = frag
    BY <1>1, DeltasTyped
  <2> QED
    BY <1>3, <2>1, BroadcastIs
<1> DEFINE a == SubSeq(all, 1, k)
           b == SubSeq(all, k + 1, Len(all))
<1> HIDE DEF d, all, space
<1>8. a \in Seq(Bytes) /\ b \in Seq(Bytes) /\ Len(a) = k /\ a \o b = all
  BY <1>4, <1>5, Split
<1> HIDE DEF a, b, k
<1>9. p' = p \o a /\ buf' = b
  BY <1>2 DEF a, b
<1>10. p' \in Seq(Bytes) /\ Len(p') = Len(p) + k /\ Len(p') <= size /\ Len(p') \in Nat
  <2>1. p' \in Seq(Bytes) /\ Len(p') = Len(p) + k
    BY <1>1, <1>8, <1>9, Concat
  <2> QED
    BY <1>1, <1>6, <2>1 DEF space
<1>11. ~torn => delivered \o p' \o buf' = Broadcast[frag + 1]
  <2>1. delivered \o (p \o a) = (delivered \o p) \o a /\ delivered \o p \in Seq(Bytes)
    BY ZenonT(60), <1>1, <1>8, Concat
  <2>2. ((delivered \o p) \o a) \o b = (delivered \o p) \o (a \o b)
    BY <1>8, <2>1, Concat
  <2>3. (delivered \o p) \o (buf \o d) = ((delivered \o p) \o buf) \o d
    BY <1>1, <1>4, <2>1, Concat
  <2>4. ~torn => delivered \o p \o buf = Broadcast[frag]
    BY <1>2 DEF IInv, Contiguous
  <2> QED
    BY <1>7, <1>8, <1>9, <2>1, <2>2, <2>3, <2>4 DEF all
<1>12. CASE Len(p') = size
  <2>1. pc' = "outside" /\ ret' = [n |-> Len(p'), err |-> "nil"] /\ delivered' = delivered \o p'
    BY <1>12 DEF Fetched, Filled, Return
  <2>2. delivered' \in Seq(Bytes)
    BY <1>1, <1>10, <2>1, Concat
  <2>3. TypeInv'
    <3>1. ret' \in [n : Nat, err : {"nil", "EOF", "error"}]
      BY <1>10, <2>1
    <3> QED
      BY <1>1, <1>2, <1>3, <1>8, <1>9, <1>10, <2>1, <2>2, <3>1 DEF TypeInv, TypeOK, Second
  <2>4. Contiguous'
    <3>1. delivered' \o << >> = delivered \o p'
      BY <2>1, <2>2, ConcatEmptySeq
    <3> QED
      BY <1>2, <1>11, <2>1, <3>1 DEF Contiguous
  <2>5. ReadSomething'
    BY <1>2, <1>12, <2>1 DEF ReadSomething
  <2> QED
    BY <2>3, <2>4, <2>5 DEF IInv
<1>13. CASE Len(p') # size
  <2>1. pc' = pc /\ ret' = ret /\ delivered' = delivered
    BY <1>13 DEF Fetched, Filled
  <2>2. TypeInv'
    BY <1>1, <1>2, <1>3, <1>8, <1>9, <1>10, <2>1 DEF TypeInv, TypeOK, Second
  <2>3. Contiguous' /\ ReadSomething'
    BY <1>2, <1>11, <2>1 DEF Contiguous, ReadSomething
  <2> QED
    BY <2>2, <2>3 DEF IInv
<1> QED
  BY <1>12, <1>13

(* Giving up returns what was read, with an error.                         *)
LEMMA WakeInv ==
  ASSUME IInv, Wake
  PROVE  IInv'
<1>1. /\ pc = "sleeping" /\ frag' = frag /\ buf' = buf /\ size' = size /\ p' = p
      /\ published' = published /\ torn' = torn
      /\ backoff' = Cap((backoff * 3) \div 2)
      /\ nFails' = IF nFails > 5 THEN nFails ELSE nFails + 1
  BY DEF Wake
<1>2. backoff \in Nat /\ nFails \in 0 .. 6 /\ torn \in BOOLEAN /\ buf \in Seq(Bytes)
  BY DEF IInv, TypeInv, TypeOK
<1>3. nFails' \in 0 .. 6 /\ backoff' \in Nat
  BY <1>1, <1>2, ReaderAssumption DEF Cap
<1>4. CASE GivesUp
  <2>1. Return(p, "EOF")
    BY <1>4 DEF Wake, EndOfStream
  <2> QED
    BY <1>1, <1>2, <1>3, <2>1, ReturnInv
<1>5. CASE ~GivesUp
  <2>1. pc' = "fetching" /\ ret' = ret /\ delivered' = delivered
    BY <1>5 DEF Wake
  <2> QED
    BY <1>1, <1>3, <2>1 DEF IInv, TypeInv, TypeOK, Contiguous, ReadSomething
<1> QED
  BY <1>4, <1>5

(* Every step keeps the invariant.                                         *)
LEMMA StepInv == IInv /\ [Next]_vars => IInv'
<1> SUFFICES ASSUME IInv, [Next]_vars PROVE IInv'
  OBVIOUS
<1> USE DEF IInv, TypeInv
<1>1. CASE Publish
  BY SMTT(60), <1>1, DeltasTyped DEF Publish, TypeOK, Contiguous, ReadSomething
<1>2. ASSUME NEW n \in Sizes, Read(n) PROVE IInv'
  BY <1>2, ReadInv
<1>3. CASE GetFails
  BY <1>3, ReturnInv DEF GetFails, TypeOK
<1>4. CASE NotOK
  BY <1>4 DEF NotOK, TypeOK, Contiguous, ReadSomething
<1>5. CASE Fetched
  BY <1>5, FetchedInv
<1>6. CASE CutOff
  <2> DEFINE d == Deltas[frag + 1]
  <2>1. PICK n \in 0 .. Len(d) - 1 : buf' = buf \o SubSeq(d, 1, n) /\ torn' = (n > 0)
    BY <1>6 DEF CutOff
  <2>2. d \in Seq(Bytes) /\ Len(d) \in Nat /\ buf \in Seq(Bytes)
    <3>1. frag + 1 \in 1 .. Len(Deltas)
      BY <1>6, DeltasTyped DEF CutOff, TypeOK
    <3> QED
      BY <3>1, DeltasTyped, LenProperties DEF TypeOK
  <2> HIDE DEF d
  <2>3. n \in Nat /\ n <= Len(d)
    BY <2>1, <2>2
  <2>4. \A i \in 1 .. n : d[i] \in Bytes
    <3>1. \A i \in 1 .. n : i \in 1 .. Len(d)
      BY <2>2, <2>3
    <3> QED
      BY <2>2, <3>1, ElementOfSeq
  <2>5. SubSeq(d, 1, n) \in Seq(Bytes)
    BY <2>3, <2>4, SubSeqProperties
  <2>6. buf' \in Seq(Bytes) /\ torn' \in BOOLEAN
    BY <2>1, <2>2, <2>5, Concat
  <2>7. ~torn' => buf' = buf
    <3>1. ~torn' => n < 1
      <4>1. n > 0 => torn'
        BY <2>1
      <4> QED
        BY <2>3, <4>1
    <3>2. ~torn' => SubSeq(d, 1, n) = << >>
      BY <2>3, <3>1, SubSeqEmpty
    <3> QED
      BY <2>1, <2>2, <3>2, ConcatEmptySeq
  <2> QED
    BY <1>6, <2>6, <2>7, ReturnInv DEF CutOff, TypeOK
<1>7. CASE Wake
  BY <1>7, WakeInv
<1>8. CASE UNCHANGED vars
  BY <1>8 DEF vars, TypeOK, Contiguous, ReadSomething
<1> QED
  BY <1>1, <1>2, <1>3, <1>4, <1>5, <1>6, <1>7, <1>8 DEF Next, Response

(* The inductive invariant holds in every reachable state.                 *)
THEOREM InductiveInvariant == Spec => []IInv
BY InitInv, StepInv, PTL DEF Spec

(* Read never writes behind its slice, and the reader is never ahead of    *)
(* the server (Reader.Read).                                               *)
THEOREM TypeCorrect == Spec => []TypeOK
<1>1. IInv => TypeOK
  BY DEF IInv, TypeInv
<1> QED
  BY InductiveInvariant, <1>1, PTL

(* No byte of the broadcast is lost, repeated or out of place, whatever    *)
(* fails (Reader.Read), as long as no body was cut off.                    *)
THEOREM ReadsAreContiguous == Spec => []Contiguous
<1>1. IInv => Contiguous
  BY DEF IInv
<1> QED
  BY InductiveInvariant, <1>1, PTL

(* A Read without an error into a slice that is not empty has read         *)
(* something, and all of the slice if it had to fetch (Reader.Read): only  *)
(* Fetched ends a fetching Read without an error.                          *)
THEOREM ReadsMakeProgress == Spec => Progress
<1> DEFINE Step == pc' = "outside" /\ ret'.err = "nil" /\ size' > 0 =>
                     ret'.n > 0 /\ (pc # "outside" => ret'.n = size')
<1>1. ASSUME IInv, IInv', Next PROVE Step
  <2>1. pc' = "outside" /\ ret'.err = "nil" /\ size' > 0 => ret'.n > 0
    BY <1>1 DEF IInv, ReadSomething
  <2>2. CASE pc = "outside"
    BY <2>1, <2>2
  <2>3. CASE pc # "outside" /\ Fetched
    <3>1. Filled => ret' = [n |-> Len(p'), err |-> "nil"] /\ size' = size
      BY <2>3 DEF Fetched, Return
    <3>2. ~Filled => pc' = pc
      BY <2>3 DEF Fetched
    <3> QED BY <2>1, <2>3, <3>1, <3>2 DEF Filled
  <2>4. CASE pc # "outside" /\ Wake
    BY <2>4 DEF Wake, Return, EndOfStream
  <2>5. CASE pc # "outside" /\ (Publish \/ NotOK)
    BY <2>5 DEF Publish, NotOK
  <2>6. CASE GetFails \/ CutOff
    BY <2>6 DEF GetFails, CutOff, Return
  <2>7. ASSUME NEW n \in Sizes, Read(n) PROVE pc = "outside"
    BY <2>7 DEF Read
  <2> QED
    BY <1>1, <2>2, <2>3, <2>4, <2>5, <2>6, <2>7 DEF Next, Response
<1>2. IInv /\ IInv' /\ [Next]_vars => [Step]_vars
  BY <1>1
<1> QED
  BY <1>2, InductiveInvariant, PTL DEF Spec, Progress

---------------------------------------------------------------------------
(* The string tables.  What the parser reads of them is what the server    *)
(* wrote.  EntriesAsWritten and ContentsFollow are not inductive: that an  *)
(* entry is read as written rests on the index before it and on the        *)
(* history, and the history on all keys of the list; that a value is not   *)
(* garbled rests on the format that handleUpdateStringTable finds by the   *)
(* table's number, so on the parser's list of tables.  TablesIInv says     *)
(* these too.                                                              *)

\* The keys an entry may have.
AllKeys == ClassKeys \cup OtherKeys \cup {NoKey}

\* The parser has the server's tables in their order, and reads a list as it was written.
TablesInv ==
    /\ stringTables = tables
    /\ open.format = open.writtenAs

\* The parser counts indexes as the server does.
EntryInv ==
    /\ index = IF entry = NoEntry THEN -1 ELSE entry.sent[1]
    /\ entry # NoEntry => entry.sent[1] \in Int
    /\ entry.read = entry.sent

\* The history holds the last keys that were written.
KeysInv ==
    /\ written \in Seq(Seq(Nat))
    /\ keys = Recent(written, History)

\* The contents are the server's.
ContentsInv ==
    /\ classBaselines = baselineOf
    /\ rawPlayers = infoOf
    /\ baselineOf \in [ClassKeys -> Values \cup {Empty}]
    /\ infoOf \in [Slots -> Values \cup {Empty}]

\* The inductive invariant.
TablesIInv == TablesInv /\ EntryInv /\ KeysInv /\ ContentsInv

\* Remembering a key keeps the history the last keys of the list (parseStringTable): the
\* oldest key goes only when there are more than the history holds.
LEMMA HistoryOfRecent ==
  ASSUME NEW S, NEW list \in Seq(S), NEW key \in S, History \in Nat \ {0}
  PROVE  Remembered(Recent(list, History), key) = Recent(Append(list, key), History)
<1> DEFINE n == Len(list)
           h == History
           m == n - h + 1
           more == Append(list, key)
<1>1. n \in Nat /\ h \in Nat \ {0} /\ m \in Int
  BY LenProperties
<1>2. more \in Seq(S) /\ Len(more) = n + 1 /\ more[n + 1] = key /\ more = list \o <<key>>
  BY AppendProperties, AppendIsConcat
<1>3. <<key>> \in Seq(S)
  OBVIOUS
<1> HIDE DEF n, h, m, more
<1>4. CASE n < h
  <2>1. SubSeq(list, 1, n) = list /\ SubSeq(more, 1, n + 1) = more
    BY <1>2, SubSeqFull DEF n
  <2>2. Recent(list, h) = list
    <3>1. Smaller(h, n) = n
      BY <1>1, <1>4 DEF Smaller
    <3>2. n - n + 1 = 1
      BY <1>1
    <3> QED
      BY <2>1, <3>1, <3>2 DEF Recent, n
  <2>3. Recent(more, h) = more
    <3>1. Smaller(h, n + 1) = n + 1
      BY <1>1, <1>4 DEF Smaller
    <3>2. (n + 1) - (n + 1) + 1 = 1
      BY <1>1
    <3> QED
      BY <1>2, <2>1, <3>1, <3>2 DEF Recent
  <2>4. ~(Len(more) > h)
    BY <1>1, <1>2, <1>4
  <2> QED
    BY <2>2, <2>3, <2>4 DEF Remembered, h, more
<1>5. CASE n >= h
  <2>1. m \in 1..n /\ m \in 1..(n + 1) /\ n \in 1..n /\ n + 1 \in m..(n + 1)
    BY <1>1, <1>5 DEF m
  <2> DEFINE recent == SubSeq(list, m, n)
             longer == SubSeq(more, m, n + 1)
  <2>2. Recent(list, h) = recent
    <3>1. Smaller(h, n) = h
      BY <1>1, <1>5 DEF Smaller
    <3> QED
      BY <3>1 DEF Recent, n, m
  <2>3. Append(recent, key) = longer
    <3>1. recent = SubSeq(more, m, n)
      BY <1>2, <1>3, <2>1, SubSeqOfConcat1 DEF n
    <3>2. longer = SubSeq(more, m, (n + 1) - 1) \o <<more[n + 1]>>
      BY <1>2, <2>1, SubSeqRecursiveSecond
    <3>3. (n + 1) - 1 = n
      BY <1>1
    <3>4. recent \in Seq(S)
      BY <1>1, <2>1 DEF n
    <3> QED
      BY ZenonT(60), <1>2, <3>1, <3>2, <3>3, <3>4, AppendIsConcat
  <2>4. Len(longer) > h
    BY <1>1, <1>2, <2>1, SubSeqProperties DEF m
  <2>5. Tail(longer) = SubSeq(more, m + 1, n + 1)
    BY <1>2, <2>1, HeadTailOfSubSeq
  <2>6. Recent(more, h) = SubSeq(more, m + 1, n + 1)
    <3>1. Smaller(h, n + 1) = h
      BY <1>1, <1>5 DEF Smaller
    <3>2. (n + 1) - h + 1 = m + 1
      BY <1>1 DEF m
    <3> QED
      BY <1>2, <3>1, <3>2 DEF Recent
  <2> HIDE DEF recent, longer
  <2> QED
    BY <2>2, <2>3, <2>4, <2>5, <2>6 DEF Remembered, h, more
<1> QED
  BY <1>1, <1>4, <1>5

\* A key told as the beginning of an earlier one and a rest is read as it is: the place in
\* the parser's history is the place in the server's.
LEMMA KeyIsRead ==
  ASSUME NEW key \in Seq(Nat), KeysInv, NEW form \in Forms(key), form[1] # -1
  PROVE  KeyRead(keys, form[1], form[2], SubSeq(key, form[2] + 1, Len(key))) = key
<1> DEFINE recent == Recent(written, History)
           pos == form[1]
           shared == form[2]
<1>1. /\ pos \in Nat /\ shared \in 0..Len(key)
      /\ pos < Len(recent)
      /\ shared <= Len(recent[pos + 1])
      /\ SubSeq(recent[pos + 1], 1, shared) = SubSeq(key, 1, shared)
  BY DEF Forms
<1>2. keys = recent /\ Len(key) \in Nat
  BY DEF KeysInv
<1> HIDE DEF recent, pos, shared
<1>3. Smaller(shared, Len(recent[pos + 1])) = shared
  BY <1>1, <1>2 DEF Smaller
<1>4. SubSeq(key, 1, shared) \o SubSeq(key, shared + 1, Len(key)) = key
  <2>1. 1 \in 1..(Len(key) + 1) /\ shared \in (1 - 1)..Len(key) /\ Len(key) \in shared..Len(key)
    BY <1>1, <1>2
  <2> QED
    BY <2>1, ConcatAdjacentSubSeq, SubSeqFull
<1>5. ~(pos >= Len(keys))
  <2>1. Len(recent) \in Nat
    BY StringTablesAssumption DEF recent, Recent, KeysInv, Smaller
  <2> QED
    BY <1>1, <1>2, <2>1
<1> QED
  BY <1>1, <1>2, <1>3, <1>4, <1>5 DEF KeyRead, pos, shared

\* One entry is read with the server's index, key and value, in whichever form it is told.
LEMMA EntryIsRead ==
  ASSUME TablesIInv, NEW i \in Slots, NEW key \in AllKeys, NEW form \in Forms(key),
         NEW value, ReadEntry(i, key, form, value)
  PROVE  /\ entry' = [sent |-> <<i, key>>, read |-> <<i, key>>]
         /\ index' = i
         /\ keys' = IF key = NoKey THEN keys ELSE Remembered(keys, key)
         /\ classBaselines' = IF open.name = BaselineTable /\ key \in ClassKeys
                              THEN [classBaselines EXCEPT ![key] = value] ELSE classBaselines
         /\ rawPlayers' = IF open.name = UserInfoTable
                          THEN [rawPlayers EXCEPT ![i] = InfoFrom(@, value)] ELSE rawPlayers
<1> DEFINE last == IF entry = NoEntry THEN -1 ELSE entry.sent[1]
           readIndex == IndexRead(i = last + 1, i - 1)
           rest == SubSeq(key, form[2] + 1, Len(key))
           readKey == IF form[1] = -1 THEN key ELSE KeyRead(keys, form[1], form[2], rest)
           readValue == IF value = Empty \/ open.format = open.writtenAs THEN value ELSE Garbage
<1>1. readIndex = i
  <2>1. i \in Int /\ index = last
    BY StringTablesAssumption DEF TablesIInv, EntryInv
  <2>2. i - 1 + 1 = i
    BY <2>1
  <2> HIDE DEF last
  <2> QED BY <2>1, <2>2 DEF IndexRead
<1>2. readKey = key
  <2>1. key \in Seq(Nat)
    <3>1. NoKey \in Seq(Nat)
      BY EmptySeq DEF NoKey
    <3> QED
      BY <3>1, StringTablesAssumption DEF AllKeys
  <2> QED
    BY <2>1, KeyIsRead DEF TablesIInv
<1>3. readValue = value
  BY DEF TablesIInv, TablesInv
<1>4. /\ entry' = [sent |-> <<i, key>>, read |-> <<readIndex, readKey>>]
      /\ index' = readIndex
      /\ keys' = IF key = NoKey THEN keys ELSE Remembered(keys, readKey)
      /\ classBaselines' = IF open.name = BaselineTable /\ readKey \in ClassKeys
                           THEN [classBaselines EXCEPT ![readKey] = readValue]
                           ELSE classBaselines
      /\ rawPlayers' = IF open.name = UserInfoTable
                       THEN [rawPlayers EXCEPT ![readIndex] = InfoFrom(@, readValue)]
                       ELSE rawPlayers
  BY DEF ReadEntry
<1> HIDE DEF last, readIndex, rest, readKey, readValue
<1> QED
  BY <1>1, <1>2, <1>3, <1>4

-----------------------------------------------------------------------------
\* The invariant holds before the first message.
LEMMA TablesInitInv == TablesInit => TablesIInv
<1> SUFFICES ASSUME TablesInit PROVE TablesIInv
  OBVIOUS
<1>1. Recent(<<>>, History) = <<>>
  <2>1. Smaller(History, 0) = 0
    BY StringTablesAssumption DEF Smaller
  <2> QED
    BY <2>1 DEF Recent
<1>2. KeysInv
  BY <1>1, EmptySeq DEF TablesInit, KeysInv
<1>3. TablesInv /\ EntryInv
  BY DEF TablesInit, TablesInv, EntryInv, NoList, NoEntry
<1>4. ContentsInv
  BY DEF TablesInit, ContentsInv
<1> QED
  BY <1>2, <1>3, <1>4 DEF TablesIInv

\* A list begins with no history and with no index.
LEMMA NoListInv ==
  ASSUME index' = -1, keys' = <<>>, written' = <<>>, entry' = NoEntry
  PROVE  EntryInv' /\ KeysInv'
<1>1. Recent(<<>>, History) = <<>>
  <2>1. Smaller(History, 0) = 0
    BY StringTablesAssumption DEF Smaller
  <2> QED
    BY <2>1 DEF Recent
<1>2. KeysInv'
  BY <1>1, EmptySeq DEF KeysInv
<1>3. EntryInv'
  BY DEF EntryInv, NoEntry
<1> QED
  BY <1>2, <1>3

\* handleCreateStringTable keeps the invariant.
LEMMA CreateInv ==
  ASSUME TablesIInv, NEW name, NEW format, CreateStringTable(name, format)
  PROVE  TablesIInv'
<1>1. stringTables' = tables'
  BY DEF CreateStringTable, TablesIInv, TablesInv
<1>2. ContentsInv'
  BY DEF CreateStringTable, TablesIInv, ContentsInv
<1>3. (open.format = open.writtenAs)' /\ EntryInv' /\ KeysInv'
  <2>1. CASE name = OtherTable
    BY <2>1 DEF CreateStringTable, TablesIInv, TablesInv, EntryInv, KeysInv
  <2>2. CASE name # OtherTable
    BY <2>2, NoListInv DEF CreateStringTable, BeginList
  <2> QED
    BY <2>1, <2>2
<1> QED
  BY <1>1, <1>2, <1>3 DEF TablesIInv, TablesInv

\* handleUpdateStringTable finds the table that the server means, and its format.
LEMMA UpdateInv ==
  ASSUME TablesIInv, NEW id, UpdateStringTable(id)
  PROVE  TablesIInv'
<1>1. stringTables' = tables'
  BY DEF UpdateStringTable, TablesIInv, TablesInv
<1>2. ContentsInv'
  BY DEF UpdateStringTable, TablesIInv, ContentsInv
<1>3. (open.format = open.writtenAs)' /\ EntryInv' /\ KeysInv'
  <2>1. CASE id > Len(stringTables) \/ UpdatedTable(id).name = OtherTable
    BY <2>1 DEF UpdateStringTable, TablesIInv, TablesInv, EntryInv, KeysInv
  <2>2. CASE ~(id > Len(stringTables) \/ UpdatedTable(id).name = OtherTable)
    BY <2>2, NoListInv DEF UpdateStringTable, BeginList, UpdatedTable, TablesIInv, TablesInv
  <2> QED
    BY <2>1, <2>2
<1> QED
  BY <1>1, <1>2, <1>3 DEF TablesIInv, TablesInv

\* An entry (parseStringTable, processStringTable) keeps the invariant.
LEMMA EntryReadInv ==
  ASSUME TablesIInv, NEW i \in Slots, NEW key \in AllKeys,
         NEW value \in Values \cup {Empty}, NEW form \in Forms(key),
         ReadEntry(i, key, form, value)
  PROVE  TablesIInv'
<1>1. TablesInv'
  BY DEF ReadEntry, TablesIInv, TablesInv
<1>2. EntryInv'
  <2>1. i \in Int
    BY StringTablesAssumption
  <2>2. entry' # NoEntry /\ entry'.sent = <<i, key>> /\ entry'.read = entry'.sent
    BY EntryIsRead DEF NoEntry
  <2> QED
    BY <2>1, <2>2, EntryIsRead DEF EntryInv
<1>3. KeysInv'
  <2>1. CASE key = NoKey
    BY <2>1, EntryIsRead DEF ReadEntry, TablesIInv, KeysInv
  <2>2. CASE key # NoKey
    <3>1. key \in Seq(Nat)
      BY <2>2, StringTablesAssumption DEF AllKeys
    <3>2. written' = Append(written, key) /\ keys' = Remembered(keys, key)
      BY <2>2, EntryIsRead DEF ReadEntry
    <3> QED
      BY <3>1, <3>2, HistoryOfRecent, StringTablesAssumption, AppendProperties DEF TablesIInv, KeysInv
  <2> QED
    BY <2>1, <2>2
<1>4. ContentsInv'
  <2>1. /\ baselineOf' = IF open.name = BaselineTable /\ key \in ClassKeys
                         THEN [baselineOf EXCEPT ![key] = value] ELSE baselineOf
        /\ infoOf' = IF open.name = UserInfoTable
                     THEN [infoOf EXCEPT ![i] = InfoFrom(@, value)] ELSE infoOf
    BY DEF ReadEntry
  <2>2. classBaselines' = baselineOf' /\ rawPlayers' = infoOf'
    BY <2>1, EntryIsRead DEF TablesIInv, ContentsInv
  <2>3. baselineOf' \in [ClassKeys -> Values \cup {Empty}]
    BY <2>1 DEF TablesIInv, ContentsInv
  <2>4. infoOf' \in [Slots -> Values \cup {Empty}]
    BY <2>1 DEF TablesIInv, ContentsInv, InfoFrom
  <2> QED
    BY <2>2, <2>3, <2>4 DEF ContentsInv
<1> QED
  BY <1>1, <1>2, <1>3, <1>4 DEF TablesIInv

\* So does the end of a list, whether it was read to its end or not,
LEMMA EndInv ==
  ASSUME TablesIInv, EndList
  PROVE  TablesIInv'
<1>1. TablesInv'
  BY DEF EndList, TablesIInv, TablesInv, NoList
<1>2. EntryInv' /\ KeysInv'
  BY NoListInv DEF EndList
<1>3. ContentsInv'
  BY DEF EndList, TablesIInv, ContentsInv
<1> QED
  BY <1>1, <1>2, <1>3 DEF TablesIInv

\* and handleStringTables, which repeats what is known already.
LEMMA DumpInv ==
  ASSUME TablesIInv, StringTablesDump
  PROVE  TablesIInv'
<1>1. TablesInv' /\ EntryInv' /\ KeysInv'
  BY DEF StringTablesDump, TablesIInv, TablesInv, EntryInv, KeysInv
<1>2. classBaselines' = classBaselines
  BY DEF StringTablesDump, TablesIInv, ContentsInv
<1>3. rawPlayers' = rawPlayers
  BY DEF StringTablesDump, TablesIInv, ContentsInv, InfoFrom
<1>4. ContentsInv'
  BY <1>2, <1>3 DEF StringTablesDump, TablesIInv, ContentsInv
<1> QED
  BY <1>1, <1>4 DEF TablesIInv

\* Every state that can be reached satisfies TablesIInv.
THEOREM TablesInductive == TablesSpec => []TablesIInv
<1>1. TablesIInv /\ [TablesNext]_tablesVars => TablesIInv'
  <2> SUFFICES ASSUME TablesIInv, [TablesNext]_tablesVars
               PROVE  TablesIInv'
    OBVIOUS
  <2>1. CASE TablesNext
    BY <2>1, CreateInv, UpdateInv, EntryReadInv, EndInv, DumpInv DEF TablesNext, AllKeys
  <2>2. CASE UNCHANGED tablesVars
    BY <2>2 DEF tablesVars, TablesIInv, TablesInv, EntryInv, KeysInv, ContentsInv
  <2> QED
    BY <2>1, <2>2
<1> QED
  BY <1>1, TablesInitInv, PTL DEF TablesSpec

\* Every entry is read with the index and the key the server wrote, and the history of keys
\* never differs from the server's (parseStringTable).
THEOREM EntriesReadAsWritten == TablesSpec => []EntriesAsWritten
<1>1. TablesIInv => EntriesAsWritten
  BY DEF TablesIInv, EntryInv, KeysInv, EntriesAsWritten
<1> QED
  BY <1>1, TablesInductive, PTL

\* The baselines and the user info are the server's, whatever tables exist, in whichever
\* order and formats they were created (handleUpdateStringTable, processStringTable).
THEOREM ContentsAreTheServers == TablesSpec => []ContentsFollow
<1>1. TablesIInv => ContentsFollow
  BY DEF TablesIInv, ContentsInv, ContentsFollow
<1> QED
  BY <1>1, TablesInductive, PTL
================================================================================
