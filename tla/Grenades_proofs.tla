---------------------------- MODULE Grenades_proofs ----------------------------
(***************************************************************************)
(* Grenades, proved for any players, bots, kits and numbers of throws and  *)
(* frames.                                                                 *)
(*                                                                         *)
(* ActiveResolve is about lists from which whatever was thrown last goes   *)
(* when any grenade of the type is over.  The invariant counts: the lists  *)
(* of a player and of the bot they control have at least as many grenades  *)
(* as are active or have a deletion coming (StockInv).                     *)
(*                                                                         *)
(* FlashesTold and LiveGrenades need in addition that two flashbangs do    *)
(* not burst in neighbouring frames (BurstsApart): then the head of the    *)
(* queue is the flashbang that burst, if one did, and those behind it are  *)
(* the ones still flying, in the order thrown (QueueInv).                  *)
(***************************************************************************)
EXTENDS Grenades, SequenceTheorems, FiniteSetTheorems, WellFoundedInduction, TLAPS

Stages == {"none", "flying", "effect", "over", "left"}
Thrown == [Players -> [AllTypes -> Seq(Grenades)]]
Delays == [do : {"blind", "decoy"}, who : Players]

(* The types.                                                              *)
Types ==
  /\ mimic \in BOOLEAN /\ kit \subseteq AllTypes
  /\ frame \in Nat \ {0} /\ lastRound \in Nat /\ lastRound <= frame
  /\ stage \in [Grenades -> Stages]
  /\ kind \in [Grenades -> AllTypes \cup {Nil}]
  /\ thrower \in [Grenades -> Players \cup {Nil}]
  /\ toDestroy \subseteq Grenades /\ grenadeProjectiles \subseteq Grenades
  /\ infernos \subseteq Grenades
  /\ thrownGrenades \in Thrown
  /\ delayedEventHandlers \in Seq(Delays)

(* What was thrown has a type and a thrower; flashbangs and HE grenades   *)
(* have no effect that lasts.                                              *)
ThrowsInv ==
  \A g \in Grenades :
    /\ stage[g] = "none" => kind[g] = Nil
    /\ stage[g] # "none" => kind[g] \in AllTypes /\ thrower[g] \in Players
    /\ stage[g] = "effect" => kind[g] \notin {"Flash", "HE"}

(* Projectiles and infernos, but for the flashbangs the queue has lost.    *)
LiveInv ==
  /\ \A g \in Grenades : InFlight(g) => g \in grenadeProjectiles
  /\ \A g \in toDestroy : g \in grenadeProjectiles /\ ~InFlight(g)
  /\ \A g \in grenadeProjectiles : stage[g] # "none" /\ stage[g] # "left"
  /\ \A g \in infernos : stage[g] = "effect" /\ kind[g] \in Fires /\ g \notin toDestroy
  /\ destroyed = [g \in Grenades |->
                    IF stage[g] # "none" /\ g \notin grenadeProjectiles THEN 1 ELSE 0]

(* What is in a player's list of a type is of that type.                   *)
KindsInv ==
  \A p \in Players, t \in AllTypes :
    \A i \in 1 .. Len(thrownGrenades[p][t]) : kind[thrownGrenades[p][t][i]] = t

(* A player and the bot they control, and how many grenades of a type their*)
(* lists have.                                                             *)
Pair(p) == {p, Controls[p]} \ {Nil}
Stock(all, p, t) ==
  Len(all[p][t]) + (IF Controls[p] = Nil THEN 0 ELSE Len(all[Controls[p]][t]))

(* What a player has thrown that will be deleted from the lists: with its  *)
(* projectile, with its fire, by a game event, by one that is delayed.     *)
Bodies(p, t) == {g \in grenadeProjectiles : kind[g] = t /\ thrower[g] = p}
Burning(p) == {g \in Active : kind[g] \in Fires /\ thrower[g] = p}
Told(p, t) == {g \in Active : kind[g] = t /\ EventUser(thrower[g]) \in Pair(p)}
Pending(p) ==
  {i \in 1 .. Len(delayedEventHandlers) :
     delayedEventHandlers[i].do = "decoy" /\ delayedEventHandlers[i].who \in Pair(p)}

NothingThrown ==
  /\ Active = {} /\ grenadeProjectiles = {}
  /\ \A p \in Players, t \in AllTypes : thrownGrenades[p][t] = << >>

Enough(p) ==
  /\ \A t \in {"HE", "Flash"} : Cardinality(Bodies(p, t)) <= Len(thrownGrenades[p][t])
  /\ Cardinality(Burning(p))
       <= Len(thrownGrenades[p]["Molotov"]) + Len(thrownGrenades[p]["Incendiary"])
  /\ Cardinality(Told(p, "Smoke")) <= Stock(thrownGrenades, p, "Smoke")
  /\ Cardinality(Told(p, "Decoy")) + Cardinality(Pending(p)) <= Stock(thrownGrenades, p, "Decoy")

(* The lists suffice for what is active; a round start empties them.       *)
StockInv == IF lastRound = frame THEN NothingThrown ELSE \A p \in Players : Enough(p)

StateInv == Types /\ ThrowsInv /\ LiveInv /\ KindsInv /\ StockInv

---------------------------------------------------------------------------
(* Sets of grenades that grow or shrink by one                             *)
LEMMA Finite == ASSUME NEW S \in SUBSET Grenades PROVE IsFiniteSet(S) /\ Cardinality(S) \in Nat
<1>1. IsFiniteSet(Grenades)
  BY GrenadesAssumption, FS_Interval DEF Grenades
<1> QED
  BY <1>1, FS_Subset, FS_CardinalityType

LEMMA CountSame ==
  ASSUME NEW S \in SUBSET Grenades, NEW T \in SUBSET S
  PROVE  Cardinality(T) <= Cardinality(S)
BY Finite, FS_Subset

LEMMA CountUp ==
  ASSUME NEW S \in SUBSET Grenades, NEW g, NEW T \in SUBSET (S \cup {g})
  PROVE  Cardinality(T) <= Cardinality(S) + 1
<1>1. IsFiniteSet(S) /\ Cardinality(S) \in Nat
  BY Finite
<1>2. IsFiniteSet(S \cup {g}) /\ Cardinality(S \cup {g}) <= Cardinality(S) + 1
  BY SMTT(60), <1>1, FS_AddElement
<1>3. Cardinality(T) <= Cardinality(S \cup {g}) /\ IsFiniteSet(T)
  BY <1>2, FS_Subset
<1>4. Cardinality(T) \in Nat /\ Cardinality(S \cup {g}) \in Nat
  BY <1>2, <1>3, FS_CardinalityType
<1> QED
  BY <1>1, <1>2, <1>3, <1>4

LEMMA CountDown ==
  ASSUME NEW S \in SUBSET Grenades, NEW g \in S, NEW T \in SUBSET (S \ {g})
  PROVE  Cardinality(T) + 1 <= Cardinality(S)
<1>1. IsFiniteSet(S) /\ Cardinality(S) \in Nat
  BY Finite
<1>2. IsFiniteSet(S \ {g}) /\ Cardinality(S \ {g}) = Cardinality(S) - 1
  BY <1>1, FS_RemoveElement
<1>3. Cardinality(T) <= Cardinality(S \ {g}) /\ Cardinality(T) \in Nat
  BY <1>2, FS_Subset, FS_CardinalityType
<1> QED
  BY <1>1, <1>2, <1>3

(* A player does not control themselves; whose events a player's grenades  *)
(* are told with is the player or controls them, and so is in no pair that *)
(* the player is not in.                                                   *)
LEMMA PairIs ==
  ASSUME NEW p \in Players
  PROVE  /\ Controls[p] \in Players \cup {Nil} /\ Controls[p] # p
         /\ p \in Pair(p) /\ Pair(p) \subseteq Players
BY GrenadesAssumption, ControlsAssumption DEF Pair

LEMMA EventUserIs ==
  ASSUME NEW p \in Players
  PROVE  /\ EventUser(p) \in Players
         /\ EventUser(p) = p \/ Controls[EventUser(p)] = p
BY DEF EventUser

LEMMA PairsAreClosed ==
  ASSUME NEW p \in Players, NEW q \in Players, EventUser(q) \in Pair(p)
  PROVE  q \in Pair(p)
<1>1. EventUser(q) = q \/ Controls[EventUser(q)] = q
  BY EventUserIs
<1>2. CASE EventUser(q) = p
  BY <1>1, <1>2, PairIs, GrenadesAssumption DEF Pair
<1>3. CASE EventUser(q) = Controls[p] /\ EventUser(q) # p
  <2>1. Controls[p] # Nil /\ Controls[Controls[p]] \in {p, Nil}
    BY <1>3, ControlsAssumption, EventUserIs, GrenadesAssumption
  <2> QED BY <1>1, <1>3, <2>1, PairIs, GrenadesAssumption DEF Pair
<1> QED
  BY <1>2, <1>3 DEF Pair

---------------------------------------------------------------------------
(* The lists: one grenade more, or the last one less                       *)
Added(all, p, t, g) == [all EXCEPT ![p][t] = Append(@, g)]

LEMMA Appended ==
  ASSUME NEW all \in Thrown, NEW p \in Players, NEW t \in AllTypes, NEW g \in Grenades
  PROVE  /\ Added(all, p, t, g) \in Thrown
         /\ \A q \in Players, u \in AllTypes :
              (q # p \/ u # t) => Added(all, p, t, g)[q][u] = all[q][u]
         /\ Len(Added(all, p, t, g)[p][t]) = Len(all[p][t]) + 1
         /\ \A i \in 1 .. Len(all[p][t]) : Added(all, p, t, g)[p][t][i] = all[p][t][i]
         /\ Added(all, p, t, g)[p][t][Len(all[p][t]) + 1] = g
<1> DEFINE new == Added(all, p, t, g)
<1>1. all[p][t] \in Seq(Grenades)
  BY DEF Thrown
<1>2. /\ Append(all[p][t], g) \in Seq(Grenades)
      /\ Len(Append(all[p][t], g)) = Len(all[p][t]) + 1
      /\ \A i \in 1 .. Len(all[p][t]) : Append(all[p][t], g)[i] = all[p][t][i]
      /\ Append(all[p][t], g)[Len(all[p][t]) + 1] = g
  BY <1>1, AppendProperties
<1> DEFINE s == Append(all[p][t], g)
<1>3. new[p][t] = s /\ new \in Thrown
  BY <1>2 DEF Thrown, Added
<1>4. \A q \in Players, u \in AllTypes : (q # p \/ u # t) => new[q][u] = all[q][u]
  BY DEF Thrown, Added
<1> QED
  BY <1>2, <1>3, <1>4

LEMMA Deleted ==
  ASSUME NEW all \in Thrown, NEW p \in Players, NEW t \in AllTypes
  PROVE  /\ DeleteThrownGrenade(all, p, t) \in Thrown
         /\ \A q \in Players, u \in AllTypes :
              (q # p \/ u # t) => DeleteThrownGrenade(all, p, t)[q][u] = all[q][u]
         /\ Len(all[p][t]) \in Nat /\ Len(DeleteThrownGrenade(all, p, t)[p][t]) \in Nat
         /\ Len(DeleteThrownGrenade(all, p, t)[p][t]) <= Len(all[p][t])
         /\ Len(all[p][t]) <= Len(DeleteThrownGrenade(all, p, t)[p][t]) + 1
         /\ \A i \in 1 .. Len(DeleteThrownGrenade(all, p, t)[p][t]) :
              DeleteThrownGrenade(all, p, t)[p][t][i] = all[p][t][i]
<1> DEFINE new == DeleteThrownGrenade(all, p, t)
<1>1. all[p][t] \in Seq(Grenades) /\ Len(all[p][t]) \in Nat
  BY DEF Thrown
<1>2. CASE all[p][t] = << >>
  BY <1>1, <1>2 DEF DeleteThrownGrenade
<1>3. CASE all[p][t] # << >>
  <2> DEFINE s == all[p][t]
             f == Front(s)
  <2>1. Len(s) # 0
    BY <1>1, <1>3, EmptySeq
  <2>2. /\ f \in Seq(Grenades) /\ Len(f) = Len(s) - 1
        /\ \A i \in 1 .. Len(f) : f[i] = s[i]
    BY <1>1, <2>1 DEF Front
  <2>3. new = [all EXCEPT ![p][t] = f]
    BY <1>3 DEF DeleteThrownGrenade
  <2> HIDE DEF f
  <2>4. new[p][t] = f /\ new \in Thrown
    BY <2>2, <2>3 DEF Thrown
  <2>5. \A q \in Players, u \in AllTypes : (q # p \/ u # t) => new[q][u] = all[q][u]
    BY <2>3 DEF Thrown
  <2> QED BY <1>1, <2>1, <2>2, <2>4, <2>5
<1> QED
  BY <1>2, <1>3

LEMMA StockIs ==
  ASSUME NEW all \in Thrown, NEW p \in Players, NEW t \in AllTypes
  PROVE  /\ Len(all[p][t]) \in Nat
         /\ Controls[p] = Nil => Stock(all, p, t) = Len(all[p][t])
         /\ Controls[p] # Nil => /\ Controls[p] \in Players /\ Len(all[Controls[p]][t]) \in Nat
                                 /\ Stock(all, p, t) = Len(all[p][t]) + Len(all[Controls[p]][t])
         /\ Stock(all, p, t) \in Nat
<1>1. \A q \in Players : Len(all[q][t]) \in Nat
  BY DEF Thrown
<1>2. CASE Controls[p] = Nil
  <2>1. Stock(all, p, t) = Len(all[p][t]) + 0
    BY <1>2 DEF Stock
  <2> QED BY <1>1, <1>2, <2>1
<1>3. CASE Controls[p] # Nil
  <2>1. Stock(all, p, t) = Len(all[p][t]) + Len(all[Controls[p]][t])
    BY <1>3 DEF Stock
  <2>2. Controls[p] \in Players
    BY <1>3, PairIs
  <2>3. Len(all[p][t]) \in Nat /\ Len(all[Controls[p]][t]) \in Nat
    BY <1>1, <2>2
  <2> DEFINE own == Len(all[p][t])
             bots == Len(all[Controls[p]][t])
  <2>4. own + bots \in Nat
    <3>1. own \in Nat /\ bots \in Nat
      BY <2>3
    <3> HIDE DEF own, bots
    <3> QED BY <3>1
  <2> QED BY <1>3, <2>1, <2>2, <2>3, <2>4
<1> QED
  BY <1>2, <1>3

LEMMA StockAppended ==
  ASSUME NEW all \in Thrown, NEW p \in Players, NEW t \in AllTypes, NEW g \in Grenades,
         NEW q \in Players, NEW u \in AllTypes
  PROVE  /\ Stock(all, q, u) <= Stock(Added(all, p, t, g), q, u)
         /\ u = t /\ p \in Pair(q) => Stock(Added(all, p, t, g), q, u) = Stock(all, q, u) + 1
<1> DEFINE new == Added(all, p, t, g)
<1>1. /\ new \in Thrown
      /\ \A r \in Players, v \in AllTypes : (r # p \/ v # t) => new[r][v] = all[r][v]
      /\ Len(new[p][t]) = Len(all[p][t]) + 1
  BY Appended
<1>2. \A r \in Players : Len(all[r][u]) \in Nat /\ Len(all[r][u]) <= Len(new[r][u])
  <2> SUFFICES ASSUME NEW r \in Players
               PROVE  Len(all[r][u]) \in Nat /\ Len(all[r][u]) <= Len(new[r][u])
    OBVIOUS
  <2>1. Len(all[r][u]) \in Nat
    BY StockIs
  <2> QED BY <1>1, <2>1
<1> HIDE DEF new
<1>3. Controls[q] # q
  BY PairIs
<1>4. CASE Controls[q] = Nil
  <2>1. Stock(all, q, u) = Len(all[q][u]) /\ Stock(new, q, u) = Len(new[q][u])
    BY <1>1, <1>4, StockIs
  <2>2. p \in Pair(q) => p = q
    BY <1>4 DEF Pair
  <2> QED BY <1>1, <1>2, <2>1, <2>2 DEF new
<1>5. CASE Controls[q] # Nil
  <2> DEFINE own == Len(all[q][u])
             bots == Len(all[Controls[q]][u])
             newOwn == Len(new[q][u])
             newBots == Len(new[Controls[q]][u])
  <2>1. /\ Stock(all, q, u) = own + bots /\ Stock(new, q, u) = newOwn + newBots
        /\ Controls[q] \in Players
    <3>1. Controls[q] \in Players
      BY <1>5, PairIs
    <3> QED BY <1>5, <3>1 DEF Stock
  <2>2. /\ own \in Nat /\ bots \in Nat /\ newOwn \in Nat /\ newBots \in Nat
    BY <1>1, <2>1, StockIs
  <2>3. own <= newOwn /\ bots <= newBots
    BY <1>2, <2>1
  <2>4. u = t /\ p = q => newOwn = own + 1 /\ newBots = bots
    BY <1>1, <1>3, <2>1
  <2>5. u = t /\ p = Controls[q] => newOwn = own /\ newBots = bots + 1
    BY <1>1, <1>3, <2>1
  <2>6. p \in Pair(q) => p = q \/ p = Controls[q]
    BY DEF Pair
  <2> HIDE DEF own, bots, newOwn, newBots
  <2>7. own + bots <= newOwn + newBots
    BY <2>2, <2>3
  <2>8. u = t /\ p \in Pair(q) => newOwn + newBots = own + bots + 1
    BY <2>2, <2>4, <2>5, <2>6
  <2> QED BY <2>1, <2>7, <2>8 DEF new
<1> QED
  BY <1>4, <1>5

LEMMA StockDeleted ==
  ASSUME NEW all \in Thrown, NEW p \in Players, NEW t \in AllTypes,
         NEW q \in Players, NEW u \in AllTypes
  PROVE  /\ Stock(all, q, u) <= Stock(DeleteThrownGrenade(all, p, t), q, u) + 1
         /\ u # t \/ p \notin Pair(q) =>
              Stock(DeleteThrownGrenade(all, p, t), q, u) = Stock(all, q, u)
<1> DEFINE new == DeleteThrownGrenade(all, p, t)
<1>1. /\ new \in Thrown
      /\ \A r \in Players, v \in AllTypes : (r # p \/ v # t) => new[r][v] = all[r][v]
      /\ Len(all[p][t]) <= Len(new[p][t]) + 1
  BY Deleted
<1> HIDE DEF new
<1>2. \A r \in Players : Len(all[r][u]) \in Nat /\ Len(new[r][u]) \in Nat
  BY <1>1, StockIs
<1>3. Controls[q] # q
  BY PairIs
<1>4. CASE Controls[q] = Nil
  <2>1. Stock(all, q, u) = Len(all[q][u]) /\ Stock(new, q, u) = Len(new[q][u])
    BY <1>2, <1>4 DEF Stock
  <2>2. q \in Pair(q)
    BY PairIs
  <2>3. CASE u # t \/ p # q
    <3>1. new[q][u] = all[q][u]
      BY <1>1, <2>3
    <3> QED BY <1>2, <2>1, <3>1 DEF new
  <2>4. CASE u = t /\ p = q
    BY <1>1, <1>2, <2>1, <2>2, <2>4 DEF new
  <2> QED BY <2>3, <2>4
<1>5. CASE Controls[q] # Nil
  <2> DEFINE own == Len(all[q][u])
             bots == Len(all[Controls[q]][u])
             newOwn == Len(new[q][u])
             newBots == Len(new[Controls[q]][u])
  <2>1. /\ Stock(all, q, u) = own + bots /\ Stock(new, q, u) = newOwn + newBots
        /\ Controls[q] \in Players
    <3>1. Controls[q] \in Players
      BY <1>5, PairIs
    <3> QED BY <1>5, <3>1 DEF Stock
  <2>2. /\ own \in Nat /\ bots \in Nat /\ newOwn \in Nat /\ newBots \in Nat
    BY <1>1, <2>1, StockIs
  <2>3. u # t \/ p # q => newOwn = own
    BY <1>1
  <2>4. u # t \/ p # Controls[q] => newBots = bots
    BY <1>1, <2>1
  <2>5. u = t /\ p = q => own <= newOwn + 1
    BY <1>1
  <2>6. u = t /\ p = Controls[q] => bots <= newBots + 1
    BY <1>1
  <2>7. q \in Pair(q) /\ Controls[q] \in Pair(q)
    BY <1>5, PairIs DEF Pair
  <2> HIDE DEF own, bots, newOwn, newBots
  <2>8. own + bots <= newOwn + newBots + 1
    BY <1>3, <2>2, <2>3, <2>4, <2>5, <2>6
  <2>9. u # t \/ p \notin Pair(q) => newOwn + newBots = own + bots
    BY <2>3, <2>4, <2>7
  <2> QED BY <2>1, <2>8, <2>9 DEF new
<1> QED
  BY <1>4, <1>5

---------------------------------------------------------------------------
(* The two recursive functions of the model are defined, and computed step *)
(* by step.                                                                *)
LEMMA UpTo ==
    ASSUME NEW N \in Nat, NEW S, 0 \in S, \A n \in 0..(N - 1) : n \in S => n + 1 \in S
    PROVE  \A n \in 0..N : n \in S
<1> SUFFICES ASSUME NEW k \in 0..N, k \notin S PROVE FALSE
  OBVIOUS
<1> DEFINE Missing == {n \in 0..N : n \notin S}
<1>0. Missing \subseteq Nat /\ Missing # {}
  OBVIOUS
<1>1. IsWellFoundedOn(OpToRel(<, Nat), Nat)
  BY NatLessThanWellFounded
<1>2. PICK m \in Missing : \A y \in Missing : ~(<<y, m>> \in OpToRel(<, Nat))
  <2> HIDE DEF Missing
  <2> QED BY <1>0, <1>1, WFMin
<1>3. m \in 0..N /\ m \notin S /\ m - 1 \in 0..(N - 1) /\ (m - 1) + 1 = m
  <2>1. m \in 0..N /\ m \notin S /\ m # 0
    BY <1>2
  <2> QED BY <2>1
<1>4. m - 1 \notin Missing
  <2> HIDE DEF Missing
  <2>1. \A y \in Missing : ~(y < m)
    BY <1>0, <1>2 DEF OpToRel
  <2> QED BY <1>3, <2>1
<1> QED
  BY <1>3, <1>4

(* A function of this form exists: the first value, and a step to the next.*)
Iterates(f, a, step, n) ==
  f = [i \in 0 .. n |-> IF i = 0 THEN a ELSE step[i][f[i - 1]]]

LEMMA Iterated ==
  ASSUME NEW D, NEW a \in D, NEW N \in Nat, NEW step \in [1 .. N -> [D -> D]]
  PROVE  \E f \in [0 .. N -> D] : Iterates(f, a, step, N)
<1> DEFINE Some == {n \in 0 .. N : \E f \in [0 .. n -> D] : Iterates(f, a, step, n)}
<1>1. 0 \in Some
  <2> DEFINE f == [i \in 0 .. 0 |-> a]
  <2>1. f \in [0 .. 0 -> D] /\ Iterates(f, a, step, 0)
    BY DEF Iterates
  <2> QED BY <2>1
<1>2. ASSUME NEW n \in 0 .. (N - 1), n \in Some PROVE n + 1 \in Some
  <2>1. PICK f \in [0 .. n -> D] : Iterates(f, a, step, n)
    BY <1>2
  <2>2. n \in 0 .. n /\ n + 1 \in 1 .. N /\ n + 1 \in 0 .. N
    OBVIOUS
  <2>3. step[n + 1][f[n]] \in D
    BY <2>2
  <2> DEFINE last == step[n + 1][f[n]]
             g == [i \in 0 .. (n + 1) |-> IF i = n + 1 THEN last ELSE f[i]]
  <2>4. ASSUME NEW i \in 0 .. (n + 1), i # n + 1 PROVE i \in 0 .. n
    BY <2>4
  <2>5. g \in [0 .. (n + 1) -> D]
    <3> HIDE DEF last
    <3>1. last \in D
      BY <2>3 DEF last
    <3> QED BY <2>4, <3>1
  <2>6. ASSUME NEW i \in 0 .. (n + 1)
        PROVE  g[i] = IF i = 0 THEN a ELSE step[i][g[i - 1]]
    <3>1. CASE i = n + 1
      <4>1. i # 0 /\ i - 1 = n /\ n \in 0 .. (n + 1) /\ n # n + 1
        BY <3>1
      <4>2. g[n] = f[n] /\ g[i] = last
        BY <3>1, <4>1
      <4> QED BY <3>1, <4>1, <4>2
    <3>2. CASE i # n + 1
      <4>1. i \in 0 .. n /\ (i # 0 => i - 1 \in 0 .. (n + 1) /\ i - 1 # n + 1)
        BY <3>2
      <4>2. f[i] = IF i = 0 THEN a ELSE step[i][f[i - 1]]
        BY <2>1, <4>1 DEF Iterates
      <4>3. g[i] = f[i] /\ (i # 0 => g[i - 1] = f[i - 1])
        BY <3>2, <4>1
      <4> QED BY <4>1, <4>2, <4>3
    <3> QED BY <3>1, <3>2
  <2>7. Iterates(g, a, step, n + 1)
    <3>1. g = [i \in 0 .. (n + 1) |-> g[i]]
      OBVIOUS
    <3> HIDE DEF g
    <3> QED BY <2>6, <3>1 DEF Iterates
  <2> HIDE DEF g
  <2> QED BY <2>2, <2>5, <2>7
<1>3. N \in Some
  <2> HIDE DEF Some
  <2>1. \A n \in 0 .. N : n \in Some
    BY <1>1, <1>2, UpTo
  <2> QED BY <2>1
<1> QED
  BY <1>3

(* Who is controlled by whom.                                              *)
Follow(q) ==
  IF q = Nil THEN Nil
  ELSE IF Controls[q] = Nil THEN Nil
  ELSE IF SteamID(Controls[q]) = SteamID(q) THEN Nil ELSE Controls[q]

LEMMA ControlledIs ==
  ASSUME NEW p \in Players, NEW n \in Nat
  PROVE  /\ Controlled(p, n) \in Players \cup {Nil}
         /\ n = 0 => Controlled(p, n) = p
         /\ n = 1 => Controlled(p, n) = Controls[p]
<1> DEFINE D == Players \cup {Nil}
           step == [i \in 1 .. n |-> [q \in D |-> Follow(q)]]
           Bot(f) == f = [i \in 0 .. n |-> IF i = 0 THEN p ELSE Follow(f[i - 1])]
           bot == CHOOSE f : Bot(f)
<1>1. \A q \in D : Follow(q) \in D
  BY GrenadesAssumption DEF Follow
<1>2. \E f : Bot(f)
  <2>1. step \in [1 .. n -> [D -> D]] /\ p \in D
    BY <1>1
  <2>2. PICK f \in [0 .. n -> D] : Iterates(f, p, step, n)
    <3> HIDE DEF step, D
    <3> QED BY <2>1, Iterated
  <2>3. ASSUME NEW i \in 0 .. n
        PROVE  (IF i = 0 THEN p ELSE step[i][f[i - 1]]) = (IF i = 0 THEN p ELSE Follow(f[i - 1]))
    <3>1. i # 0 => i \in 1 .. n /\ i - 1 \in 0 .. n
      OBVIOUS
    <3>2. i # 0 => f[i - 1] \in D
      BY <3>1
    <3> QED BY <3>1, <3>2
  <2>4. Bot(f)
    <3> HIDE DEF step
    <3> QED BY <2>2, <2>3 DEF Iterates
  <2> QED BY <2>4
<1>3. Bot(bot)
  BY <1>2
<1>4. Controlled(p, n) = bot[n]
  BY DEF Controlled, Follow
<1> HIDE DEF bot
<1> DEFINE S == {i \in 0 .. n : bot[i] \in D}
<1>5. \A i \in 0 .. n : i \in S
  <2>1. 0 \in S
    <3>1. bot[0] = p
      BY <1>3
    <3> QED BY <3>1
  <2>2. ASSUME NEW i \in 0 .. (n - 1), i \in S PROVE i + 1 \in S
    <3>1. i + 1 \in 0 .. n /\ i + 1 # 0 /\ (i + 1) - 1 = i
      OBVIOUS
    <3>2. bot[i + 1] = Follow(bot[i])
      BY <1>3, <3>1
    <3> QED BY <1>1, <2>2, <3>1, <3>2
  <2> HIDE DEF S
  <2> QED BY <2>1, <2>2, UpTo
<1>6. bot[n] \in D
  BY <1>5
<1>7. n = 0 => bot[n] = p
  BY <1>3
<1>8. n = 1 => bot[n] = Controls[p]
  <2> SUFFICES ASSUME n = 1 PROVE bot[n] = Controls[p]
    OBVIOUS
  <2>1. bot[0] = p /\ bot[1] = Follow(bot[0])
    <3>1. 0 \in 0 .. n /\ 1 \in 0 .. n /\ 1 # 0 /\ 1 - 1 = 0
      OBVIOUS
    <3> QED BY <1>3, <3>1
  <2>2. Follow(p) = Controls[p]
    BY GrenadesAssumption, ControlsAssumption DEF Follow
  <2> QED BY <2>1, <2>2
<1> QED
  BY <1>4, <1>6, <1>7, <1>8

(* The delayed handlers delete one decoy for each of theirs, at most.      *)
LEMMA HandledIs ==
  ASSUME thrownGrenades \in Thrown, delayedEventHandlers \in Seq(Delays)
  PROVE  /\ Handled \in Thrown
         /\ \A q \in Players, u \in AllTypes :
              /\ u # "Decoy" => Handled[q][u] = thrownGrenades[q][u]
              /\ Len(Handled[q][u]) <= Len(thrownGrenades[q][u])
              /\ \A j \in 1 .. Len(Handled[q][u]) : Handled[q][u][j] = thrownGrenades[q][u][j]
         /\ \A q \in Players :
              Stock(thrownGrenades, q, "Decoy")
                <= Stock(Handled, q, "Decoy") + Cardinality(Pending(q))
<1> DEFINE N == Len(delayedEventHandlers)
           d(i) == delayedEventHandlers[i]
           Do(i, all) == IF d(i).do = "decoy" THEN DeleteThrownGrenade(all, d(i).who, "Decoy") ELSE all
           step == [i \in 1 .. N |-> [all \in Thrown |-> Do(i, all)]]
           After(f) == f = [i \in 0 .. N |-> IF i = 0 THEN thrownGrenades ELSE Do(i, f[i - 1])]
           after == CHOOSE f : After(f)
<1>1. N \in Nat /\ \A i \in 1 .. N : d(i).do \in {"blind", "decoy"} /\ d(i).who \in Players
  <2>1. N \in Nat /\ \A i \in 1 .. N : d(i) \in Delays
    BY ElementOfSeq, LenProperties
  <2>2. \A e \in Delays : e.do \in {"blind", "decoy"} /\ e.who \in Players
    BY DEF Delays
  <2> HIDE DEF d, N
  <2> QED BY <2>1, <2>2
<1>2. \A i \in 1 .. N, all \in Thrown : Do(i, all) \in Thrown
  BY <1>1, Deleted DEF AllTypes
<1>3. \E f : After(f)
  <2>1. step \in [1 .. N -> [Thrown -> Thrown]]
    <3> HIDE DEF Do, N
    <3> QED BY <1>2
  <2>2. PICK f \in [0 .. N -> Thrown] : Iterates(f, thrownGrenades, step, N)
    <3> HIDE DEF step, N
    <3> QED BY <1>1, <2>1, Iterated
  <2> HIDE DEF Do, N
  <2>3. ASSUME NEW i \in 0 .. N
        PROVE  (IF i = 0 THEN thrownGrenades ELSE step[i][f[i - 1]])
                 = (IF i = 0 THEN thrownGrenades ELSE Do(i, f[i - 1]))
    <3>1. i # 0 => i \in 1 .. N /\ i - 1 \in 0 .. N
      BY <1>1
    <3>2. i # 0 => f[i - 1] \in Thrown
      BY <3>1
    <3> QED BY <3>1, <3>2
  <2>4. After(f)
    <3> HIDE DEF step
    <3> QED BY <2>2, <2>3 DEF Iterates
  <2> QED BY <2>4
<1>4. After(after)
  BY <1>3
<1>5. Handled = after[N]
  BY DEF Handled
<1> HIDE DEF after
<1> DEFINE Pend(q, n) == {i \in 1 .. n : d(i).do = "decoy" /\ d(i).who \in Pair(q)}
           Good(n) ==
             /\ after[n] \in Thrown
             /\ \A q \in Players, u \in AllTypes :
                  /\ u # "Decoy" => after[n][q][u] = thrownGrenades[q][u]
                  /\ Len(after[n][q][u]) <= Len(thrownGrenades[q][u])
                  /\ \A j \in 1 .. Len(after[n][q][u]) : after[n][q][u][j] = thrownGrenades[q][u][j]
             /\ \A q \in Players :
                  Stock(thrownGrenades, q, "Decoy")
                    <= Stock(after[n], q, "Decoy") + Cardinality(Pend(q, n))
           S == {n \in 0 .. N : Good(n)}
<1>6. Good(0)
  <2>1. after[0] = thrownGrenades
    BY <1>1, <1>4
  <2>2. \A q \in Players : Pend(q, 0) = {}
    OBVIOUS
  <2>3. ASSUME NEW q \in Players
        PROVE  Stock(thrownGrenades, q, "Decoy")
                 <= Stock(after[0], q, "Decoy") + Cardinality(Pend(q, 0))
    <3>1. Stock(thrownGrenades, q, "Decoy") \in Nat
      BY StockIs DEF AllTypes
    <3>2. Cardinality(Pend(q, 0)) = 0
      BY <2>2, FS_EmptySet
    <3> HIDE DEF Pend
    <3> QED BY <2>1, <3>1, <3>2
  <2>4. ASSUME NEW q \in Players, NEW u \in AllTypes
        PROVE  Len(thrownGrenades[q][u]) <= Len(thrownGrenades[q][u])
    <3>1. Len(thrownGrenades[q][u]) \in Nat
      BY StockIs
    <3> QED BY <3>1
  <2> HIDE DEF Pend
  <2> QED BY <2>1, <2>3, <2>4
<1>7. ASSUME NEW n \in 0 .. (N - 1), Good(n) PROVE Good(n + 1)
  <2>1. n + 1 \in 1 .. N /\ n + 1 \in 0 .. N /\ n + 1 # 0 /\ (n + 1) - 1 = n /\ n \in 0 .. N
    BY <1>1
  <2>2. after[n + 1] = Do(n + 1, after[n])
    <3> HIDE DEF Do
    <3> QED BY <1>4, <2>1
  <2>3. after[n] \in Thrown
    BY <1>7
  <2>4. \A q \in Players : /\ IsFiniteSet(Pend(q, n)) /\ Cardinality(Pend(q, n)) \in Nat
                           /\ Stock(thrownGrenades, q, "Decoy") \in Nat
                           /\ Stock(after[n], q, "Decoy") \in Nat
    <3> SUFFICES ASSUME NEW q \in Players
                 PROVE  /\ IsFiniteSet(Pend(q, n)) /\ Cardinality(Pend(q, n)) \in Nat
                        /\ Stock(thrownGrenades, q, "Decoy") \in Nat
                        /\ Stock(after[n], q, "Decoy") \in Nat
      OBVIOUS
    <3>1. IsFiniteSet(1 .. n) /\ Pend(q, n) \subseteq 1 .. n
      <4>1. 1 \in Int /\ n \in Int
        BY <1>1
      <4>2. IsFiniteSet(1 .. n)
        BY <4>1, FS_Interval
      <4> QED BY <4>2
    <3>2. IsFiniteSet(Pend(q, n)) /\ Cardinality(Pend(q, n)) \in Nat
      BY <3>1, FS_Subset, FS_CardinalityType
    <3> QED BY <2>3, <3>2, StockIs DEF AllTypes
  <2>5. CASE d(n + 1).do # "decoy"
    <3>1. after[n + 1] = after[n]
      BY <2>2, <2>5
    <3>2. \A q \in Players : Pend(q, n + 1) = Pend(q, n)
      BY <1>1, <2>1, <2>5
    <3> HIDE DEF Pend
    <3> QED BY <1>7, <3>1, <3>2
  <2>6. CASE d(n + 1).do = "decoy"
    <3> DEFINE w == d(n + 1).who
    <3>1. after[n + 1] = DeleteThrownGrenade(after[n], w, "Decoy") /\ w \in Players
      BY <1>1, <2>1, <2>2, <2>6
    <3>2. ASSUME NEW q \in Players
          PROVE  Pend(q, n + 1) = IF w \in Pair(q) THEN Pend(q, n) \cup {n + 1} ELSE Pend(q, n)
      BY <1>1, <2>1, <2>6
    <3>3. \A q \in Players : n + 1 \notin Pend(q, n)
      BY <1>1
    <3> HIDE DEF w, d, Pend
    <3>4. "Decoy" \in AllTypes
      BY DEF AllTypes
    <3>5. after[n + 1] \in Thrown
      BY <2>3, <3>1, <3>4, Deleted
    <3>6. ASSUME NEW q \in Players
          PROVE  Stock(thrownGrenades, q, "Decoy")
                   <= Stock(after[n + 1], q, "Decoy") + Cardinality(Pend(q, n + 1))
      <4>1. Stock(thrownGrenades, q, "Decoy")
              <= Stock(after[n], q, "Decoy") + Cardinality(Pend(q, n))
        BY <1>7
      <4>2. Stock(after[n + 1], q, "Decoy") \in Nat
        BY <3>4, <3>5, StockIs
      <4>3. CASE w \notin Pair(q)
        <5>1. Stock(after[n + 1], q, "Decoy") = Stock(after[n], q, "Decoy")
          BY <2>3, <3>1, <3>4, <4>3, StockDeleted
        <5> QED BY <3>2, <4>1, <4>3, <5>1
      <4>4. CASE w \in Pair(q)
        <5>1. Stock(after[n], q, "Decoy") <= Stock(after[n + 1], q, "Decoy") + 1
          BY <2>3, <3>1, <3>4, StockDeleted
        <5>2. Cardinality(Pend(q, n + 1)) = Cardinality(Pend(q, n)) + 1
          <6>1. IsFiniteSet(Pend(q, n)) /\ n + 1 \notin Pend(q, n)
            BY <2>4, <3>3
          <6>2. Pend(q, n + 1) = Pend(q, n) \cup {n + 1}
            BY <3>2, <4>4
          <6> QED BY <6>1, <6>2, FS_AddElement
        <5> QED BY <2>4, <4>1, <4>2, <5>1, <5>2
      <4> QED BY <4>3, <4>4
    <3>7. ASSUME NEW q \in Players, NEW u \in AllTypes
          PROVE  /\ u # "Decoy" => after[n + 1][q][u] = thrownGrenades[q][u]
                 /\ Len(after[n + 1][q][u]) <= Len(thrownGrenades[q][u])
                 /\ \A j \in 1 .. Len(after[n + 1][q][u]) :
                      after[n + 1][q][u][j] = thrownGrenades[q][u][j]
      <4>1. /\ u # "Decoy" => after[n][q][u] = thrownGrenades[q][u]
            /\ Len(after[n][q][u]) <= Len(thrownGrenades[q][u])
            /\ \A j \in 1 .. Len(after[n][q][u]) : after[n][q][u][j] = thrownGrenades[q][u][j]
        BY <1>7
      <4>2. CASE q # w \/ u # "Decoy"
        <5>1. after[n + 1][q][u] = after[n][q][u]
          BY SMTT(60), <2>3, <3>1, <3>4, <4>2, Deleted
        <5> QED BY <4>1, <5>1
      <4>3. CASE q = w /\ u = "Decoy"
        <5> DEFINE old == after[n][q][u]
                   new == after[n + 1][q][u]
        <5>1. /\ Len(new) \in Nat /\ Len(old) \in Nat /\ Len(new) <= Len(old)
              /\ \A j \in 1 .. Len(new) : new[j] = old[j]
          <6> DEFINE all == DeleteThrownGrenade(after[n], w, "Decoy")
          <6>1. /\ Len(after[n][w]["Decoy"]) \in Nat /\ Len(all[w]["Decoy"]) \in Nat
                /\ Len(all[w]["Decoy"]) <= Len(after[n][w]["Decoy"])
                /\ \A j \in 1 .. Len(all[w]["Decoy"]) : all[w]["Decoy"][j] = after[n][w]["Decoy"][j]
            BY <2>3, <3>1, <3>4, Deleted
          <6>2. new = all[w]["Decoy"] /\ old = after[n][w]["Decoy"]
            BY <3>1, <4>3
          <6> HIDE DEF all, new, old
          <6> QED BY <6>1, <6>2
        <5>2. Len(thrownGrenades[q][u]) \in Nat
          BY StockIs
        <5> HIDE DEF old, new
        <5>3. /\ Len(old) <= Len(thrownGrenades[q][u])
              /\ \A j \in 1 .. Len(old) : old[j] = thrownGrenades[q][u][j]
          BY <4>1 DEF old
        <5>4. /\ Len(new) <= Len(thrownGrenades[q][u])
              /\ \A j \in 1 .. Len(new) : new[j] = thrownGrenades[q][u][j]
          BY <5>1, <5>2, <5>3
        <5> QED BY <4>3, <5>4 DEF new
      <4> QED BY <4>2, <4>3
    <3> QED BY <3>5, <3>6, <3>7
  <2> QED BY <2>5, <2>6
<1>8. Good(N)
  <2>1. 0 \in S
    BY <1>1, <1>6
  <2>2. ASSUME NEW n \in 0 .. (N - 1), n \in S PROVE n + 1 \in S
    <3>1. n + 1 \in 0 .. N
      BY <1>1
    <3> HIDE DEF Good
    <3> QED BY <1>7, <2>2, <3>1
  <2>3. N \in S
    <3> HIDE DEF S, N
    <3>1. \A n \in 0 .. N : n \in S
      BY <1>1, <2>1, <2>2, UpTo
    <3> QED BY <1>1, <3>1
  <2> HIDE DEF Good
  <2> QED BY <2>3
<1>9. \A q \in Players : Pend(q, N) = Pending(q)
  BY DEF Pending
<1> HIDE DEF Pend
<1> QED
  BY <1>5, <1>8, <1>9

---------------------------------------------------------------------------
(* The sequence that playerBlind's handlers are queued in has everybody    *)
(* who was blinded, and nobody else.                                       *)
LEMMA SetToSeqIs ==
  ASSUME NEW S, IsFiniteSet(S)
  PROVE  /\ SetToSeq(S) \in [1 .. Cardinality(S) -> S] /\ Cardinality(S) \in Nat
         /\ \A x \in S : \E i \in 1 .. Cardinality(S) : SetToSeq(S)[i] = x
<1> DEFINE n == Cardinality(S)
<1>1. n \in Nat /\ ExistsBijection(1 .. n, S)
  BY FS_CardinalityType
<1>2. PICK b \in [1 .. n -> S] : IsInjective(b)
  BY <1>1 DEF ExistsBijection, Bijection, Injection, IsInjective
<1>3. SetToSeq(S) \in [1 .. n -> S] /\ IsInjective(SetToSeq(S))
  BY <1>2 DEF SetToSeq
<1>4. SetToSeq(S) \in Injection(1 .. n, S)
  BY <1>3 DEF IsInjective, Injection
<1>5. IsFiniteSet(1 .. n) /\ Cardinality(1 .. n) = n
  <2>1. 1 \in Int /\ n \in Int
    BY <1>1
  <2>2. Cardinality(1 .. n) = IF 1 > n THEN 0 ELSE n - 1 + 1
    BY <2>1, FS_Interval
  <2> HIDE DEF n
  <2> QED BY <1>1, <2>1, <2>2, FS_Interval
<1>6. SetToSeq(S) \in Surjection(1 .. n, S)
  BY <1>4, <1>5, FS_Injection
<1> QED
  BY <1>1, <1>3, <1>6 DEF Surjection

Blinds(blinded) ==
  [i \in 1 .. Cardinality(blinded) |-> [do |-> "blind", who |-> SetToSeq(blinded)[i]]]

LEMMA BlindsAre ==
  ASSUME NEW blinded \in SUBSET Players
  PROVE  /\ Blinds(blinded) \in Seq(Delays)
         /\ \A i \in 1 .. Len(Blinds(blinded)) :
              Blinds(blinded)[i].do = "blind" /\ Blinds(blinded)[i].who \in blinded
         /\ \A p \in blinded : \E i \in 1 .. Len(Blinds(blinded)) : Blinds(blinded)[i].who = p
<1> DEFINE n == Cardinality(blinded)
           s == SetToSeq(blinded)
<1>1. s \in [1 .. n -> blinded] /\ n \in Nat /\ \A p \in blinded : \E i \in 1 .. n : s[i] = p
  BY GrenadesAssumption, FS_Subset, SetToSeqIs
<1>2. Blinds(blinded) = [i \in 1 .. n |-> [do |-> "blind", who |-> s[i]]]
  BY DEF Blinds
<1> HIDE DEF n, s
<1>3. \A i \in 1 .. n : [do |-> "blind", who |-> s[i]] \in Delays
  BY <1>1 DEF Delays
<1>4. Blinds(blinded) \in Seq(Delays) /\ Len(Blinds(blinded)) = n
  BY <1>1, <1>2, <1>3
<1> QED
  BY <1>1, <1>2, <1>4

---------------------------------------------------------------------------
(* The types                                                               *)
LEMMA KitIs == ASSUME Types PROVE kit \subseteq AllTypes
BY DEF Types

(* A projectile whose entity is deleted is forgotten, if it was known.     *)
LEMMA OnDestroyIs ==
  ASSUME NEW g \in Grenades, OnDestroy(g)
  PROVE  /\ UNCHANGED <<server, frame, toBlind, infernos, delayedEventHandlers, flashed, history>>
         /\ \/ UNCHANGED <<destroyed, grenadeProjectiles, lastFlash, thrownGrenades>>
            \/ /\ g \in grenadeProjectiles
               /\ destroyed' = [destroyed EXCEPT ![g] = @ + 1]
               /\ grenadeProjectiles' = grenadeProjectiles \ {g}
               /\ thrownGrenades' =
                    IF kind[g] \in {"HE", "Flash"}
                    THEN DeleteThrownGrenade(thrownGrenades, thrower[g], kind[g])
                    ELSE thrownGrenades
BY DEF OnDestroy, NadeProjectileDestroyed, Known, DeletedWithProjectile

LEMMA TypesNext == ASSUME StateInv, Next PROVE Types'
<1> USE DEF StateInv
<1>1. ASSUME NEW g \in Grenades, NEW p \in Players, NEW t \in kit, Throw(g, p, t) PROVE Types'
  <2>1. t \in AllTypes
    BY KitIs
  <2>2. thrownGrenades' = Added(thrownGrenades, p, t, g)
    BY <1>1 DEF Throw, Added
  <2>3. thrownGrenades' \in Thrown
    BY <2>1, <2>2, Appended DEF Types
  <2> QED BY <1>1, <2>1, <2>3 DEF Types, Throw, Stages
<1>2. ASSUME NEW g \in Grenades, NEW blinded \in SUBSET Players, FlashBursts(g, blinded)
      PROVE  Types'
  <2>1. delayedEventHandlers' =
          IF mimic THEN delayedEventHandlers ELSE delayedEventHandlers \o Blinds(blinded)
    BY <1>2 DEF FlashBursts, Blinds
  <2>2. delayedEventHandlers' \in Seq(Delays)
    BY <2>1, BlindsAre, ConcatProperties DEF Types
  <2> QED BY <1>2, <2>2 DEF Types, FlashBursts, Stages
<1>3. ASSUME NEW p \in Players, NEW g \in Grenades, FlashDuration(p, g) PROVE Types'
  BY <1>3 DEF Types, FlashDuration, server
<1>4. ASSUME NEW g \in Grenades, Detonate(g) PROVE Types'
  BY <1>4 DEF Types, Detonate, server, Stages
<1>5. ASSUME NEW g \in Grenades, Expire(g) PROVE Types'
  <2> DEFINE user == EventUser(thrower[g])
  <2>1. user \in Players
    BY <1>5, EventUserIs DEF ThrowsInv, Expire
  <2>2. kind[g] = "Smoke" \/ kind[g] = "Decoy"
    BY <1>5 DEF Expire
  <2>3. thrownGrenades' \in Thrown
    <3>1. DeleteThrownGrenade(thrownGrenades, user, "Smoke") \in Thrown
      BY <2>1, Deleted DEF Types, AllTypes
    <3> QED BY <1>5, <3>1 DEF Expire, Types
  <2>4. delayedEventHandlers' \in Seq(Delays)
    <3>1. [do |-> "decoy", who |-> user] \in Delays
      BY <2>1 DEF Delays
    <3>2. Append(delayedEventHandlers, [do |-> "decoy", who |-> user]) \in Seq(Delays)
      BY <3>1 DEF Types
    <3> QED BY <1>5, <3>2 DEF Expire, Types
  <2> QED BY <1>5, <2>3, <2>4 DEF Types, Expire, server, Stages
<1>6. ASSUME NEW g \in Grenades, InfernoCreated(g) PROVE Types'
  BY <1>6 DEF Types, InfernoCreated, server
<1>7. ASSUME NEW g \in Grenades, InfernoDestroyed(g) PROVE Types'
  <2>1. thrower[g] \in Players
    BY <1>7 DEF ThrowsInv, LiveInv, InfernoDestroyed
  <2>2. DeleteThrownGrenade(thrownGrenades, thrower[g], "Incendiary") \in Thrown
    BY <2>1, Deleted DEF Types, AllTypes
  <2> QED BY <1>7, <2>2 DEF Types, InfernoDestroyed, server, Stages
<1>8. ASSUME NEW g \in Grenades, OnDestroy(g)
      PROVE  /\ grenadeProjectiles' \subseteq Grenades /\ thrownGrenades' \in Thrown
             /\ UNCHANGED <<mimic, kit, frame, lastRound, kind, thrower, infernos, delayedEventHandlers>>
  <2>1. g \in grenadeProjectiles => thrower[g] \in Players /\ kind[g] \in AllTypes
    BY DEF ThrowsInv, LiveInv, Types
  <2>2. g \in grenadeProjectiles =>
          DeleteThrownGrenade(thrownGrenades, thrower[g], kind[g]) \in Thrown
    BY <2>1, Deleted DEF Types
  <2> QED BY <1>8, <2>2, OnDestroyIs DEF Types, server
<1>9. ASSUME NEW g \in Grenades, Destroy(g) PROVE Types'
  BY <1>8, <1>9 DEF Types, Destroy
<1>10. ASSUME NEW g \in Grenades, DestroyLeft(g) PROVE Types'
  BY <1>8, <1>10 DEF Types, DestroyLeft, Stages
<1>11. CASE ClearGrenadeProjectiles
  <2>1. thrownGrenades' \in Thrown
    BY <1>11 DEF ClearGrenadeProjectiles, Thrown
  <2>2. lastRound' = frame /\ frame' = frame
    BY <1>11 DEF ClearGrenadeProjectiles
  <2> QED BY <1>11, <2>1, <2>2 DEF Types, ClearGrenadeProjectiles, Stages, Forgotten
<1>12. CASE EndFrame
  <2>1. thrownGrenades' \in Thrown
    BY <1>12, HandledIs DEF EndFrame, Types
  <2>2. frame' \in Nat \ {0} /\ lastRound' <= frame'
    BY <1>12 DEF Types, EndFrame, server
  <2> QED BY <1>12, <2>1, <2>2 DEF Types, EndFrame, server
<1> QED
  BY <1>1, <1>2, <1>3, <1>4, <1>5, <1>6, <1>7, <1>9, <1>10, <1>11, <1>12 DEF Next

---------------------------------------------------------------------------
(* The projectiles and the lists                                           *)
LEMMA ThrowsNext == ASSUME StateInv, Next PROVE ThrowsInv'
<1> USE DEF StateInv
<1>1. ASSUME NEW g \in Grenades, NEW p \in Players, NEW t \in kit, Throw(g, p, t)
      PROVE  ThrowsInv'
  <2>1. t \in AllTypes /\ p \in Players
    BY KitIs
  <2> QED BY <1>1, <2>1 DEF Types, ThrowsInv, Throw
<1>2. ASSUME NEW g \in Grenades, NEW blinded \in SUBSET Players, FlashBursts(g, blinded)
      PROVE  ThrowsInv'
  BY <1>2 DEF Types, ThrowsInv, FlashBursts
<1>3. ASSUME NEW p \in Players, NEW g \in Grenades, FlashDuration(p, g) PROVE ThrowsInv'
  BY <1>3 DEF ThrowsInv, FlashDuration, server
<1>4. ASSUME NEW g \in Grenades, Detonate(g) PROVE ThrowsInv'
  BY <1>4 DEF Types, ThrowsInv, Detonate, server
<1>5. ASSUME NEW g \in Grenades, Expire(g) PROVE ThrowsInv'
  BY <1>5 DEF Types, ThrowsInv, Expire, server
<1>6. ASSUME NEW g \in Grenades, InfernoCreated(g) PROVE ThrowsInv'
  BY <1>6 DEF ThrowsInv, InfernoCreated, server
<1>7. ASSUME NEW g \in Grenades, InfernoDestroyed(g) PROVE ThrowsInv'
  BY <1>7 DEF Types, ThrowsInv, LiveInv, InfernoDestroyed, server
<1>8. ASSUME NEW g \in Grenades, Destroy(g) PROVE ThrowsInv'
  BY <1>8, OnDestroyIs DEF ThrowsInv, Destroy, server
<1>9. ASSUME NEW g \in Grenades, DestroyLeft(g) PROVE ThrowsInv'
  BY <1>9, OnDestroyIs DEF Types, ThrowsInv, DestroyLeft, server
<1>10. CASE ClearGrenadeProjectiles
  BY <1>10 DEF Types, ThrowsInv, ClearGrenadeProjectiles, Active
<1>11. CASE EndFrame
  BY <1>11 DEF ThrowsInv, EndFrame, server
<1> QED
  BY <1>1, <1>2, <1>3, <1>4, <1>5, <1>6, <1>7, <1>8, <1>9, <1>10, <1>11 DEF Next

LEMMA LiveNext == ASSUME StateInv, Next PROVE LiveInv'
<1> USE DEF StateInv, LiveInv, InFlight
<1>1. ASSUME NEW g \in Grenades, NEW p \in Players, NEW t \in kit, Throw(g, p, t)
      PROVE  LiveInv'
  BY <1>1 DEF Types, Throw
<1>2. ASSUME NEW g \in Grenades, NEW blinded \in SUBSET Players, FlashBursts(g, blinded)
      PROVE  LiveInv'
  BY <1>2 DEF Types, FlashBursts
<1>3. ASSUME NEW p \in Players, NEW g \in Grenades, FlashDuration(p, g) PROVE LiveInv'
  BY <1>3 DEF FlashDuration, server
<1>4. ASSUME NEW g \in Grenades, Detonate(g) PROVE LiveInv'
  BY <1>4 DEF Types, Detonate, server, Fires
<1>5. ASSUME NEW g \in Grenades, Expire(g) PROVE LiveInv'
  BY <1>5 DEF Types, Expire, server, Fires
<1>6. ASSUME NEW g \in Grenades, InfernoCreated(g) PROVE LiveInv'
  BY <1>6 DEF InfernoCreated, server
<1>7. ASSUME NEW g \in Grenades, InfernoDestroyed(g) PROVE LiveInv'
  BY <1>7 DEF Types, InfernoDestroyed, server
<1>8. ASSUME NEW g \in Grenades, Destroy(g) PROVE LiveInv'
  <2>1. UNCHANGED <<server, frame, toBlind, infernos, delayedEventHandlers, flashed, history>>
    BY <1>8, OnDestroyIs DEF Destroy
  <2>2. CASE UNCHANGED <<destroyed, grenadeProjectiles>>
    BY <1>8, <2>1, <2>2 DEF Types, Destroy, server
  <2>3. CASE /\ g \in grenadeProjectiles
             /\ destroyed' = [destroyed EXCEPT ![g] = @ + 1]
             /\ grenadeProjectiles' = grenadeProjectiles \ {g}
    BY <1>8, <2>1, <2>3 DEF Types, Destroy, server
  <2> QED BY <1>8, <2>2, <2>3, OnDestroyIs DEF Destroy
<1>9. ASSUME NEW g \in Grenades, DestroyLeft(g) PROVE LiveInv'
  <2>1. UNCHANGED <<server, frame, toBlind, infernos, delayedEventHandlers, flashed, history>>
    BY <1>9, OnDestroyIs DEF DestroyLeft
  <2>2. UNCHANGED <<destroyed, grenadeProjectiles>>
    BY <1>9, OnDestroyIs DEF DestroyLeft
  <2> QED BY <1>9, <2>1, <2>2 DEF Types, DestroyLeft, server
<1>10. CASE ClearGrenadeProjectiles
  BY <1>10 DEF Types, ClearGrenadeProjectiles, Active, Forgotten
<1>11. CASE EndFrame
  BY <1>11 DEF EndFrame, server
<1> QED
  BY <1>1, <1>2, <1>3, <1>4, <1>5, <1>6, <1>7, <1>8, <1>9, <1>10, <1>11 DEF Next

(* A list from which the last grenade went keeps the others.               *)
LEMMA DeletedNext ==
  ASSUME Types, NEW p \in Players, NEW t \in AllTypes,
         thrownGrenades' = DeleteThrownGrenade(thrownGrenades, p, t)
  PROVE  /\ thrownGrenades' \in Thrown
         /\ \A q \in Players, u \in AllTypes :
              (q # p \/ u # t) => thrownGrenades'[q][u] = thrownGrenades[q][u]
         /\ Len(thrownGrenades[p][t]) \in Nat /\ Len(thrownGrenades'[p][t]) \in Nat
         /\ Len(thrownGrenades'[p][t]) <= Len(thrownGrenades[p][t])
         /\ Len(thrownGrenades[p][t]) <= Len(thrownGrenades'[p][t]) + 1
         /\ \A i \in 1 .. Len(thrownGrenades'[p][t]) :
              thrownGrenades'[p][t][i] = thrownGrenades[p][t][i]
BY Deleted DEF Types

LEMMA DeletedKinds ==
  ASSUME Types, KindsInv, NEW p \in Players, NEW t \in AllTypes,
         thrownGrenades' = DeleteThrownGrenade(thrownGrenades, p, t), UNCHANGED kind
  PROVE  KindsInv'
<1> DEFINE new == thrownGrenades'
<1>1. /\ \A q \in Players, u \in AllTypes : (q # p \/ u # t) => new[q][u] = thrownGrenades[q][u]
      /\ Len(thrownGrenades[p][t]) \in Nat /\ Len(new[p][t]) \in Nat
      /\ Len(new[p][t]) <= Len(thrownGrenades[p][t])
      /\ \A i \in 1 .. Len(new[p][t]) : new[p][t][i] = thrownGrenades[p][t][i]
  BY DeletedNext
<1> HIDE DEF new
<1>2. ASSUME NEW q \in Players, NEW u \in AllTypes, NEW i \in 1 .. Len(new[q][u])
      PROVE  i \in 1 .. Len(thrownGrenades[q][u]) /\ new[q][u][i] = thrownGrenades[q][u][i]
  <2>1. CASE q = p /\ u = t
    BY <1>1, <2>1
  <2>2. CASE q # p \/ u # t
    BY <1>1, <2>2
  <2> QED BY <2>1, <2>2
<1>3. ASSUME NEW q \in Players, NEW u \in AllTypes, NEW i \in 1 .. Len(new[q][u])
      PROVE  kind'[new[q][u][i]] = u
  BY <1>2 DEF KindsInv
<1> QED
  BY <1>3 DEF KindsInv, new

LEMMA KindsNext == ASSUME StateInv, Next PROVE KindsInv'
<1> USE DEF StateInv
<1>0. \A p \in Players, t \in AllTypes :
        /\ Len(thrownGrenades[p][t]) \in Nat
        /\ \A i \in 1 .. Len(thrownGrenades[p][t]) : thrownGrenades[p][t][i] \in Grenades
  <2> SUFFICES ASSUME NEW p \in Players, NEW t \in AllTypes
               PROVE  /\ Len(thrownGrenades[p][t]) \in Nat
                      /\ \A i \in 1 .. Len(thrownGrenades[p][t]) :
                           thrownGrenades[p][t][i] \in Grenades
    OBVIOUS
  <2>1. thrownGrenades[p][t] \in Seq(Grenades)
    BY DEF Types, Thrown
  <2> QED BY <2>1, ElementOfSeq, LenProperties
<1>1. ASSUME NEW g \in Grenades, NEW p \in Players, NEW t \in kit, Throw(g, p, t)
      PROVE  KindsInv'
  <2> DEFINE new == Added(thrownGrenades, p, t, g)
  <2>1. t \in AllTypes /\ thrownGrenades' = new /\ kind' = [kind EXCEPT ![g] = t]
    BY <1>1, KitIs DEF Throw, Added
  <2>2. kind[g] = Nil /\ Nil \notin AllTypes
    BY <1>1 DEF Throw, ThrowsInv, AllTypes, Nil
  <2>3. /\ \A q \in Players, u \in AllTypes : (q # p \/ u # t) => new[q][u] = thrownGrenades[q][u]
        /\ Len(new[p][t]) = Len(thrownGrenades[p][t]) + 1
        /\ \A i \in 1 .. Len(thrownGrenades[p][t]) : new[p][t][i] = thrownGrenades[p][t][i]
        /\ new[p][t][Len(thrownGrenades[p][t]) + 1] = g
    BY <2>1, Appended DEF Types
  <2> HIDE DEF new
  <2>4. ASSUME NEW q \in Players, NEW u \in AllTypes, NEW i \in 1 .. Len(new[q][u])
        PROVE  kind'[new[q][u][i]] = u
    <3>1. CASE i \in 1 .. Len(thrownGrenades[q][u]) /\ new[q][u][i] = thrownGrenades[q][u][i]
      <4> DEFINE h == thrownGrenades[q][u][i]
      <4>1. h \in Grenades /\ kind[h] = u
        BY <1>0, <3>1 DEF KindsInv
      <4>2. h # g
        BY <2>2, <4>1
      <4> HIDE DEF h
      <4>3. kind'[h] = u
        BY <2>1, <4>1, <4>2 DEF Types
      <4> QED BY <3>1, <4>3 DEF h
    <3>2. CASE q = p /\ u = t /\ i = Len(thrownGrenades[p][t]) + 1
      BY <2>1, <2>3, <3>2 DEF Types
    <3>3. CASE q # p \/ u # t
      BY <2>3, <3>1, <3>3
    <3>4. CASE q = p /\ u = t
      <4>1. Len(thrownGrenades[p][t]) \in Nat
        BY <1>0, <2>1
      <4>2. i \in 1 .. Len(thrownGrenades[p][t]) \/ i = Len(thrownGrenades[p][t]) + 1
        BY <2>3, <3>4, <4>1
      <4> QED BY <2>3, <3>1, <3>2, <3>4, <4>2
    <3> QED BY <3>3, <3>4
  <2> QED BY <2>1, <2>4 DEF KindsInv
<1>2. ASSUME NEW g \in Grenades, NEW blinded \in SUBSET Players, FlashBursts(g, blinded)
      PROVE  KindsInv'
  BY <1>2 DEF KindsInv, FlashBursts
<1>3. ASSUME NEW p \in Players, NEW g \in Grenades, FlashDuration(p, g) PROVE KindsInv'
  BY <1>3 DEF KindsInv, FlashDuration, server
<1>4. ASSUME NEW g \in Grenades, Detonate(g) PROVE KindsInv'
  BY <1>4 DEF KindsInv, Detonate, server
<1>5. ASSUME NEW g \in Grenades, Expire(g) PROVE KindsInv'
  <2> DEFINE user == EventUser(thrower[g])
  <2>1. user \in Players
    BY <1>5, EventUserIs DEF ThrowsInv, Expire
  <2>2. UNCHANGED kind
    BY <1>5 DEF Expire, server
  <2>3. CASE thrownGrenades' = DeleteThrownGrenade(thrownGrenades, user, "Smoke")
    <3> HIDE DEF user
    <3> QED BY <2>1, <2>2, <2>3, DeletedKinds DEF AllTypes
  <2>4. CASE UNCHANGED thrownGrenades
    BY <2>2, <2>4 DEF KindsInv
  <2> QED BY <1>5, <2>3, <2>4 DEF Expire
<1>6. ASSUME NEW g \in Grenades, InfernoCreated(g) PROVE KindsInv'
  BY <1>6 DEF KindsInv, InfernoCreated, server
<1>7. ASSUME NEW g \in Grenades, InfernoDestroyed(g) PROVE KindsInv'
  <2>1. thrower[g] \in Players /\ UNCHANGED kind
    BY <1>7 DEF ThrowsInv, LiveInv, InfernoDestroyed, server
  <2>2. thrownGrenades' = DeleteThrownGrenade(thrownGrenades, thrower[g], "Incendiary")
    BY <1>7 DEF InfernoDestroyed
  <2> QED BY <2>1, <2>2, DeletedKinds DEF AllTypes
<1>8. ASSUME NEW g \in Grenades, OnDestroy(g) PROVE KindsInv'
  <2>1. g \in grenadeProjectiles => thrower[g] \in Players /\ kind[g] \in AllTypes
    BY DEF ThrowsInv, LiveInv, Types
  <2>2. UNCHANGED kind
    BY <1>8, OnDestroyIs DEF server
  <2>3. CASE UNCHANGED thrownGrenades
    BY <2>2, <2>3 DEF KindsInv
  <2>4. CASE /\ g \in grenadeProjectiles
             /\ thrownGrenades' = DeleteThrownGrenade(thrownGrenades, thrower[g], kind[g])
    BY <2>1, <2>2, <2>4, DeletedKinds
  <2> QED BY <1>8, <2>3, <2>4, OnDestroyIs
<1>9. CASE ClearGrenadeProjectiles
  <2>1. \A p \in Players, t \in AllTypes : thrownGrenades'[p][t] = << >>
    BY <1>9 DEF ClearGrenadeProjectiles
  <2> QED BY <2>1 DEF KindsInv
<1>10. CASE EndFrame
  <2>1. thrownGrenades' = Handled /\ UNCHANGED kind
    BY <1>10 DEF EndFrame, server
  <2>2. ASSUME NEW q \in Players, NEW u \in AllTypes, NEW i \in 1 .. Len(Handled[q][u])
        PROVE  kind[Handled[q][u][i]] = u
    <3>1. /\ Handled \in Thrown /\ Len(Handled[q][u]) <= Len(thrownGrenades[q][u])
          /\ Handled[q][u][i] = thrownGrenades[q][u][i]
      BY HandledIs DEF Types
    <3>2. i \in 1 .. Len(thrownGrenades[q][u])
      <4>1. Len(Handled[q][u]) \in Nat
        BY <3>1, StockIs
      <4> QED BY <1>0, <3>1, <4>1
    <3> QED BY <3>1, <3>2 DEF KindsInv
  <2> QED BY <2>1, <2>2 DEF KindsInv
<1> QED
  BY <1>1, <1>2, <1>3, <1>4, <1>5, <1>6, <1>7, <1>8, <1>9, <1>10 DEF Next, Destroy, DestroyLeft

---------------------------------------------------------------------------
(* The lists suffice                                                       *)
LEMMA Counts ==
  ASSUME Types, NEW p \in Players, NEW t
  PROVE  /\ Bodies(p, t) \in SUBSET Grenades /\ Burning(p) \in SUBSET Grenades
         /\ Told(p, t) \in SUBSET Grenades
         /\ Cardinality(Bodies(p, t)) \in Nat /\ Cardinality(Burning(p)) \in Nat
         /\ Cardinality(Told(p, t)) \in Nat
         /\ IsFiniteSet(Pending(p)) /\ Cardinality(Pending(p)) \in Nat
<1>1. /\ Bodies(p, t) \in SUBSET Grenades /\ Burning(p) \in SUBSET Grenades
      /\ Told(p, t) \in SUBSET Grenades
  BY DEF Types, Bodies, Burning, Told, Active
<1>2. Len(delayedEventHandlers) \in Int /\ 1 \in Int
  BY LenProperties DEF Types
<1>3. IsFiniteSet(1 .. Len(delayedEventHandlers))
  BY <1>2, FS_Interval
<1>4. IsFiniteSet(Pending(p))
  BY <1>3, FS_Subset DEF Pending
<1> QED
  BY <1>1, <1>4, Finite, FS_CardinalityType

(* A round start empties the lists, and nothing is thrown in its frame.    *)
LEMMA StockStart == ASSUME StateInv, lastRound = frame, Next PROVE StockInv'
<1> USE DEF StateInv
<1>1. NothingThrown
  BY DEF StockInv
<1>2. \A g \in Grenades : stage[g] # "flying" /\ stage[g] # "effect" /\ g \notin toDestroy
  BY <1>1 DEF NothingThrown, Active, LiveInv
<1>3. ASSUME UNCHANGED <<lastRound, frame, grenadeProjectiles, thrownGrenades>>,
             \A g \in Grenades : stage'[g] # "flying" /\ stage'[g] # "effect"
      PROVE  StockInv'
  BY <1>1, <1>3 DEF NothingThrown, Active, StockInv
<1>4. ASSUME NEW p \in Players, NEW g \in Grenades, FlashDuration(p, g) PROVE StockInv'
  BY <1>2, <1>3, <1>4 DEF FlashDuration, server
<1>5. ASSUME NEW g \in Grenades, DestroyLeft(g) PROVE StockInv'
  <2>1. g \notin grenadeProjectiles
    BY <1>5 DEF DestroyLeft, LiveInv
  <2>2. \A h \in Grenades : stage'[h] # "flying" /\ stage'[h] # "effect"
    BY <1>2, <1>5 DEF DestroyLeft, Types
  <2> QED BY <1>3, <1>5, <2>1, <2>2, OnDestroyIs DEF DestroyLeft, server
<1>6. CASE EndFrame
  <2>1. lastRound' # frame'
    BY <1>6 DEF EndFrame, server, Types
  <2>2. ASSUME NEW p \in Players PROVE Enough(p)'
    <3>1. \A t : Bodies(p, t)' = {} /\ Burning(p)' = {} /\ Told(p, t)' = {}
      BY <1>1, <1>6 DEF NothingThrown, EndFrame, Bodies, Burning, Told, Active, server
    <3>2. Pending(p)' = {}
      BY <1>6 DEF EndFrame, Pending
    <3>3. \A t \in AllTypes : /\ Len(thrownGrenades'[p][t]) \in Nat
                              /\ Stock(thrownGrenades', p, t) \in Nat
      BY <1>6, TypesNext, StockIs DEF Types
    <3>4. Cardinality({}) = 0
      BY FS_EmptySet
    <3>5. \A u \in {"HE", "Flash"} : Cardinality(Bodies(p, u)') <= Len(thrownGrenades'[p][u])
      <4>1. \A u \in {"HE", "Flash"} : u \in AllTypes
        BY DEF AllTypes
      <4>2. ASSUME NEW u \in {"HE", "Flash"} PROVE Cardinality(Bodies(p, u)') <= Len(thrownGrenades'[p][u])
        <5>1. Cardinality(Bodies(p, u)') = 0 /\ Len(thrownGrenades'[p][u]) \in Nat
          BY <3>1, <3>3, <3>4, <4>1
        <5> QED BY <5>1
      <4> QED BY <4>2
    <3>6. Cardinality(Burning(p)')
            <= Len(thrownGrenades'[p]["Molotov"]) + Len(thrownGrenades'[p]["Incendiary"])
      <4> DEFINE m == Len(thrownGrenades'[p]["Molotov"])
                 i == Len(thrownGrenades'[p]["Incendiary"])
      <4>1. m \in Nat /\ i \in Nat
        BY <3>3 DEF AllTypes
      <4> HIDE DEF m, i
      <4>2. Cardinality(Burning(p)') <= m + i
        BY <3>1, <3>4, <4>1
      <4> QED BY <4>2 DEF m, i
    <3>7. /\ Cardinality(Told(p, "Smoke")') <= Stock(thrownGrenades', p, "Smoke")
          /\ Cardinality(Told(p, "Decoy")') + Cardinality(Pending(p)')
               <= Stock(thrownGrenades', p, "Decoy")
      <4>1. /\ Stock(thrownGrenades', p, "Smoke") \in Nat /\ Stock(thrownGrenades', p, "Decoy") \in Nat
            /\ Cardinality(Told(p, "Smoke")') = 0 /\ Cardinality(Told(p, "Decoy")') = 0
            /\ Cardinality(Pending(p)') = 0
        BY <3>1, <3>2, <3>3, <3>4 DEF AllTypes
      <4> QED BY <4>1
    <3> QED BY <3>5, <3>6, <3>7 DEF Enough
  <2> QED BY <2>1, <2>2 DEF StockInv
<1>7. CASE ClearGrenadeProjectiles
  BY <1>1, <1>7 DEF NothingThrown, ClearGrenadeProjectiles
<1>8. ASSUME NEW g \in Grenades PROVE ~InfernoDestroyed(g)
  BY <1>2 DEF InfernoDestroyed, LiveInv
<1> QED
  BY ZenonT(60), <1>2, <1>4, <1>5, <1>6, <1>7, <1>8
  DEF Next, Throw, FlashBursts, Detonate, Expire, InfernoCreated, Destroy

(* Fewer grenades, the same lists.                                         *)
LEMMA FewerIsEnough ==
  ASSUME Types, NEW q \in Players, Enough(q), UNCHANGED thrownGrenades,
         Pending(q)' = Pending(q), Burning(q)' \subseteq Burning(q),
         \A u \in {"HE", "Flash"} : Bodies(q, u)' \subseteq Bodies(q, u),
         \A u \in {"Smoke", "Decoy"} : Told(q, u)' \subseteq Told(q, u)
  PROVE  Enough(q)'
<1>0. \A u \in AllTypes : /\ Len(thrownGrenades[q][u]) \in Nat
                          /\ Stock(thrownGrenades, q, u) \in Nat
  BY StockIs DEF Types
<1>1. ASSUME NEW u \in {"HE", "Flash"}
      PROVE  Cardinality(Bodies(q, u)') <= Len(thrownGrenades'[q][u])
  <2>1. Cardinality(Bodies(q, u)') <= Cardinality(Bodies(q, u))
    BY Counts, CountSame
  <2>2. Bodies(q, u)' \in SUBSET Grenades
    BY Counts
  <2>3. Cardinality(Bodies(q, u)') \in Nat
    BY <2>2, Finite
  <2>4. /\ Cardinality(Bodies(q, u)) <= Len(thrownGrenades[q][u])
        /\ Cardinality(Bodies(q, u)) \in Nat /\ Len(thrownGrenades[q][u]) \in Nat
    BY <1>0, Counts DEF Enough, AllTypes
  <2> QED BY <2>1, <2>3, <2>4
<1>2. Cardinality(Burning(q)')
        <= Len(thrownGrenades'[q]["Molotov"]) + Len(thrownGrenades'[q]["Incendiary"])
  <2>1. Cardinality(Burning(q)') <= Cardinality(Burning(q))
    BY Counts, CountSame
  <2>2. Cardinality(Burning(q)') \in Nat
    BY Counts, Finite
  <2> DEFINE m == Len(thrownGrenades[q]["Molotov"])
             i == Len(thrownGrenades[q]["Incendiary"])
  <2>3. /\ Cardinality(Burning(q)) <= m + i /\ Cardinality(Burning(q)) \in Nat
        /\ m \in Nat /\ i \in Nat
    BY <1>0, Counts DEF Enough, AllTypes
  <2> HIDE DEF m, i
  <2>4. Cardinality(Burning(q)') <= m + i
    BY <2>1, <2>2, <2>3
  <2> QED BY <2>4 DEF m, i
<1>3. ASSUME NEW u \in {"Smoke", "Decoy"}
      PROVE  Cardinality(Told(q, u)') <= Cardinality(Told(q, u)) /\ Cardinality(Told(q, u)') \in Nat
  BY Counts, CountSame, Finite
<1>4. Cardinality(Told(q, "Smoke")') <= Stock(thrownGrenades', q, "Smoke")
  BY <1>0, <1>3, Counts DEF Enough, AllTypes
<1>5. Cardinality(Told(q, "Decoy")') + Cardinality(Pending(q)')
        <= Stock(thrownGrenades', q, "Decoy")
  BY <1>0, <1>3, Counts DEF Enough, AllTypes
<1> QED
  BY <1>1, <1>2, <1>4, <1>5 DEF Enough

LEMMA EnoughThrown ==
  ASSUME StateInv, NEW q \in Players, Enough(q),
         NEW g \in Grenades, NEW p \in Players, NEW t \in kit, Throw(g, p, t)
  PROVE  Enough(q)'
<1> USE DEF StateInv
<1> DEFINE new == Added(thrownGrenades, p, t, g)
<1>1. t \in AllTypes /\ thrownGrenades' = new
  BY KitIs DEF Throw, Added
<1>2. /\ new \in Thrown
      /\ \A u \in AllTypes : (q # p \/ u # t) => new[q][u] = thrownGrenades[q][u]
      /\ Len(new[p][t]) = Len(thrownGrenades[p][t]) + 1
  BY <1>1, Appended DEF Types
<1> HIDE DEF new
<1>3. \A u \in AllTypes : /\ Len(thrownGrenades[q][u]) \in Nat /\ Len(new[q][u]) \in Nat
                          /\ Stock(thrownGrenades, q, u) \in Nat /\ Stock(new, q, u) \in Nat
  BY <1>2, StockIs DEF Types
<1>4. /\ \A h \in Active' : h = g \/ h \in Active
      /\ \A h \in Grenades : h # g => kind'[h] = kind[h] /\ thrower'[h] = thrower[h]
      /\ kind'[g] = t /\ thrower'[g] = p /\ grenadeProjectiles' = grenadeProjectiles \cup {g}
  BY DEF Throw, Active, Types
<1>5. Pending(q)' = Pending(q)
  BY DEF Throw, Pending
<1>6. Types'
  BY TypesNext DEF Next
<1>7. ASSUME NEW u \in {"HE", "Flash"}
      PROVE  Cardinality(Bodies(q, u)') <= Len(new[q][u])
  <2>0. /\ Cardinality(Bodies(q, u)) <= Len(thrownGrenades[q][u])
        /\ Cardinality(Bodies(q, u)) \in Nat /\ u \in AllTypes
    BY Counts DEF Enough, AllTypes
  <2>1. Bodies(q, u)' \in SUBSET Grenades
    BY <1>6 DEF Bodies, Types
  <2>2. Cardinality(Bodies(q, u)') \in Nat
    BY <2>1, Finite
  <2>3. CASE u = t /\ q = p
    <3>1. Bodies(q, u)' \subseteq Bodies(q, u) \cup {g}
      BY <1>4, <2>1 DEF Bodies
    <3>2. Cardinality(Bodies(q, u)') <= Cardinality(Bodies(q, u)) + 1
      BY <3>1, Counts, CountUp
    <3> QED BY <1>2, <1>3, <2>0, <2>2, <2>3, <3>2
  <2>4. CASE u # t \/ q # p
    <3>1. Bodies(q, u)' \subseteq Bodies(q, u)
      BY <1>4, <2>1, <2>4 DEF Bodies
    <3>2. Cardinality(Bodies(q, u)') <= Cardinality(Bodies(q, u))
      BY <3>1, Counts, CountSame
    <3>3. new[q][u] = thrownGrenades[q][u]
      BY <1>2, <2>0, <2>4
    <3> QED BY <1>3, <2>0, <2>2, <3>2, <3>3
  <2> QED BY <2>3, <2>4
<1>8. Cardinality(Burning(q)') <= Len(new[q]["Molotov"]) + Len(new[q]["Incendiary"])
  <2> DEFINE m == Len(thrownGrenades[q]["Molotov"])
             i == Len(thrownGrenades[q]["Incendiary"])
             mm == Len(new[q]["Molotov"])
             ii == Len(new[q]["Incendiary"])
  <2>0. /\ Cardinality(Burning(q)) <= m + i /\ Cardinality(Burning(q)) \in Nat
        /\ m \in Nat /\ i \in Nat /\ mm \in Nat /\ ii \in Nat
    BY <1>3, Counts DEF Enough, AllTypes
  <2>1. Burning(q)' \in SUBSET Grenades
    BY <1>6 DEF Burning, Active
  <2>2. Cardinality(Burning(q)') \in Nat
    BY <2>1, Finite
  <2>3. CASE t \in Fires /\ q = p
    <3>1. Burning(q)' \subseteq Burning(q) \cup {g}
      BY <1>4, <2>1 DEF Burning
    <3>2. Cardinality(Burning(q)') <= Cardinality(Burning(q)) + 1
      BY <3>1, Counts, CountUp
    <3>3. t = "Molotov" \/ t = "Incendiary"
      BY <2>3 DEF Fires
    <3>4. t = "Molotov" => mm = m + 1 /\ ii = i
      BY <1>2, <2>3 DEF AllTypes
    <3>5. t = "Incendiary" => mm = m /\ ii = i + 1
      BY <1>2, <2>3 DEF AllTypes
    <3> HIDE DEF m, i, mm, ii
    <3>6. mm + ii = m + i + 1
      BY <2>0, <3>3, <3>4, <3>5
    <3>7. Cardinality(Burning(q)') <= mm + ii
      BY <2>0, <2>2, <3>2, <3>6
    <3> QED BY <3>7 DEF mm, ii
  <2>4. CASE t \notin Fires \/ q # p
    <3>1. Burning(q)' \subseteq Burning(q)
      BY <1>4, <2>1, <2>4 DEF Burning
    <3>2. Cardinality(Burning(q)') <= Cardinality(Burning(q))
      BY <3>1, Counts, CountSame
    <3>3. mm = m /\ ii = i
      BY <1>2, <2>4 DEF AllTypes, Fires
    <3> HIDE DEF m, i, mm, ii
    <3>4. Cardinality(Burning(q)') <= mm + ii
      BY <2>0, <2>2, <3>2, <3>3
    <3> QED BY <3>4 DEF mm, ii
  <2> QED BY <2>3, <2>4
<1>9. ASSUME NEW u \in {"Smoke", "Decoy"}, NEW n \in Nat,
             Cardinality(Told(q, u)) + n <= Stock(thrownGrenades, q, u)
      PROVE  Cardinality(Told(q, u)') + n <= Stock(new, q, u)
  <2>0. Cardinality(Told(q, u)) \in Nat /\ u \in AllTypes
    BY Counts DEF AllTypes
  <2>1. Told(q, u)' \in SUBSET Grenades
    BY <1>6 DEF Told, Active
  <2>2. Cardinality(Told(q, u)') \in Nat
    BY <2>1, Finite
  <2>3. CASE u = t /\ EventUser(p) \in Pair(q)
    <3>1. Told(q, u)' \subseteq Told(q, u) \cup {g}
      BY <1>4, <2>1 DEF Told
    <3>2. Cardinality(Told(q, u)') <= Cardinality(Told(q, u)) + 1
      BY <3>1, Counts, CountUp
    <3>3. p \in Pair(q)
      BY <2>3, PairsAreClosed
    <3>4. Stock(new, q, u) = Stock(thrownGrenades, q, u) + 1
      BY <1>1, <2>0, <2>3, <3>3, StockAppended DEF new, Types
    <3> QED BY <1>3, <1>9, <2>0, <2>2, <3>2, <3>4
  <2>4. CASE u # t \/ EventUser(p) \notin Pair(q)
    <3>1. Told(q, u)' \subseteq Told(q, u)
      BY <1>4, <2>1, <2>4 DEF Told
    <3>2. Cardinality(Told(q, u)') <= Cardinality(Told(q, u))
      BY <3>1, Counts, CountSame
    <3>3. Stock(thrownGrenades, q, u) <= Stock(new, q, u)
      BY <1>1, <2>0, StockAppended DEF new, Types
    <3> QED BY <1>3, <1>9, <2>0, <2>2, <3>2, <3>3
  <2> QED BY <2>3, <2>4
<1>10. Cardinality(Told(q, "Smoke")') <= Stock(new, q, "Smoke")
  <2>1. Cardinality(Told(q, "Smoke")) + 0 <= Stock(thrownGrenades, q, "Smoke")
    BY Counts DEF Enough
  <2>2. Cardinality(Told(q, "Smoke")') + 0 <= Stock(new, q, "Smoke")
    BY <1>9, <2>1
  <2>3. Told(q, "Smoke")' \in SUBSET Grenades
    BY <1>6 DEF Told, Active
  <2>4. Cardinality(Told(q, "Smoke")') \in Nat
    BY <2>3, Finite
  <2> QED BY <2>2, <2>4
<1>11. Cardinality(Told(q, "Decoy")') + Cardinality(Pending(q)') <= Stock(new, q, "Decoy")
  BY <1>5, <1>9, Counts DEF Enough
<1> QED
  BY <1>1, <1>7, <1>8, <1>10, <1>11 DEF Enough

LEMMA EnoughExpired ==
  ASSUME StateInv, NEW q \in Players, Enough(q), NEW g \in Grenades, Expire(g)
  PROVE  Enough(q)'
<1> USE DEF StateInv
<1> DEFINE user == EventUser(thrower[g])
           d == [do |-> "decoy", who |-> user]
<1>1. user \in Players /\ stage[g] = "effect" /\ g \in Active
  BY EventUserIs DEF ThrowsInv, Expire, Active
<1>2. /\ stage' = [stage EXCEPT ![g] = "over"] /\ UNCHANGED <<kind, thrower, grenadeProjectiles>>
      /\ kind[g] \in {"Smoke", "Decoy"}
  BY DEF Expire, server
<1>3. Active' = Active \ {g}
  BY <1>2 DEF Active, Types
<1>4. /\ Burning(q)' \subseteq Burning(q)
      /\ \A u \in {"HE", "Flash"} : Bodies(q, u)' \subseteq Bodies(q, u)
      /\ \A u : Told(q, u)' \subseteq Told(q, u) \ {g}
  BY <1>2, <1>3 DEF Burning, Bodies, Told
<1>5. /\ "Smoke" \in AllTypes /\ "Decoy" \in AllTypes
  BY DEF AllTypes
<1>6. /\ \A u \in AllTypes : Stock(thrownGrenades, q, u) \in Nat
      /\ \A u : Cardinality(Told(q, u)) \in Nat /\ Cardinality(Told(q, u)') \in Nat
      /\ Cardinality(Pending(q)) \in Nat
  <2>1. ASSUME NEW u \in AllTypes PROVE Stock(thrownGrenades, q, u) \in Nat
    BY StockIs DEF Types
  <2>2. ASSUME NEW u PROVE Cardinality(Told(q, u)) \in Nat /\ Cardinality(Told(q, u)') \in Nat
    <3>1. Told(q, u) \in SUBSET Grenades
      BY Counts
    <3>2. Told(q, u)' \in SUBSET Grenades
      BY <1>4, <3>1
    <3> QED BY <3>1, <3>2, Finite
  <2> QED BY <2>1, <2>2, Counts
<1>7. ASSUME NEW u
      PROVE  /\ Cardinality(Told(q, u)') <= Cardinality(Told(q, u))
             /\ kind[g] = u /\ user \in Pair(q) =>
                  Cardinality(Told(q, u)') + 1 <= Cardinality(Told(q, u))
  <2>1. Told(q, u) \in SUBSET Grenades
    BY Counts
  <2>2. Cardinality(Told(q, u)') <= Cardinality(Told(q, u))
    BY <1>4, <2>1, CountSame
  <2>3. CASE kind[g] = u /\ user \in Pair(q)
    <3>1. g \in Told(q, u)
      BY <1>1, <2>3 DEF Told
    <3> QED BY <1>4, <2>1, <2>2, <3>1, CountDown
  <2> QED BY <2>2, <2>3
<1>8. CASE kind[g] = "Smoke"
  <2> DEFINE new == thrownGrenades'
  <2>1. new = DeleteThrownGrenade(thrownGrenades, user, "Smoke") /\ UNCHANGED delayedEventHandlers
    BY <1>8 DEF Expire
  <2>2. Pending(q)' = Pending(q)
    BY <2>1 DEF Pending
  <2>3. /\ new \in Thrown
        /\ \A u \in AllTypes : u # "Smoke" => new[q][u] = thrownGrenades[q][u]
    BY <1>1, <1>5, <2>1, DeletedNext
  <2>4. /\ Stock(thrownGrenades, q, "Smoke") <= Stock(new, q, "Smoke") + 1
        /\ user \notin Pair(q) => Stock(new, q, "Smoke") = Stock(thrownGrenades, q, "Smoke")
        /\ Stock(new, q, "Decoy") = Stock(thrownGrenades, q, "Decoy")
    BY <1>1, <1>5, <2>1, StockDeleted DEF Types
  <2>5. Stock(new, q, "Smoke") \in Nat
    BY <1>5, <2>3, StockIs
  <2> HIDE DEF new, user
  <2>6. Cardinality(Told(q, "Smoke")') <= Stock(new, q, "Smoke")
    <3>1. /\ Cardinality(Told(q, "Smoke")') \in Nat /\ Cardinality(Told(q, "Smoke")) \in Nat
          /\ Stock(thrownGrenades, q, "Smoke") \in Nat
          /\ Cardinality(Told(q, "Smoke")) <= Stock(thrownGrenades, q, "Smoke")
      BY <1>5, <1>6 DEF Enough
    <3>2. CASE user \in Pair(q)
      <4>1. Cardinality(Told(q, "Smoke")') + 1 <= Cardinality(Told(q, "Smoke"))
        BY <1>7, <1>8, <3>2
      <4> QED BY <2>4, <2>5, <3>1, <4>1
    <3>3. CASE user \notin Pair(q)
      BY <1>7, <2>4, <2>5, <3>1, <3>3
    <3> QED BY <3>2, <3>3
  <2>7. Cardinality(Told(q, "Decoy")') + Cardinality(Pending(q)') <= Stock(new, q, "Decoy")
    BY <1>5, <1>6, <1>7, <2>2, <2>4 DEF Enough
  <2>8. \A u \in {"HE", "Flash"} : Cardinality(Bodies(q, u)') <= Len(new[q][u])
    <3>1. ASSUME NEW u \in {"HE", "Flash"} PROVE Bodies(q, u)' = Bodies(q, u)
      BY <1>2 DEF Bodies
    <3>2. ASSUME NEW u \in {"HE", "Flash"} PROVE new[q][u] = thrownGrenades[q][u]
      BY <2>3 DEF AllTypes
    <3> QED BY <3>1, <3>2 DEF Enough
  <2>9. Cardinality(Burning(q)') <= Len(new[q]["Molotov"]) + Len(new[q]["Incendiary"])
    <3>1. Burning(q)' = Burning(q)
      BY <1>2, <1>3, <1>8 DEF Burning, Fires
    <3>2. /\ new[q]["Molotov"] = thrownGrenades[q]["Molotov"]
          /\ new[q]["Incendiary"] = thrownGrenades[q]["Incendiary"]
      BY <2>3 DEF AllTypes
    <3> QED BY <3>1, <3>2 DEF Enough
  <2> QED BY <2>6, <2>7, <2>8, <2>9 DEF Enough, new
<1>9. CASE kind[g] = "Decoy"
  <2>1. UNCHANGED thrownGrenades /\ delayedEventHandlers' = Append(delayedEventHandlers, d)
    BY <1>9 DEF Expire
  <2>2. /\ Len(delayedEventHandlers) \in Nat
        /\ Len(Append(delayedEventHandlers, d)) = Len(delayedEventHandlers) + 1
        /\ \A i \in 1 .. Len(delayedEventHandlers) :
             Append(delayedEventHandlers, d)[i] = delayedEventHandlers[i]
        /\ Append(delayedEventHandlers, d)[Len(delayedEventHandlers) + 1] = d
    <3>1. d \in Delays
      BY <1>1 DEF Delays
    <3> HIDE DEF d
    <3> QED BY <3>1, AppendProperties, LenProperties DEF Types
  <2>3. d.do = "decoy" /\ d.who = user
    OBVIOUS
  <2> DEFINE n == Len(delayedEventHandlers)
  <2>4. Pending(q)' = IF user \in Pair(q) THEN Pending(q) \cup {n + 1} ELSE Pending(q)
    <3> DEFINE s == delayedEventHandlers'
    <3>1. /\ Len(s) = n + 1 /\ n \in Nat
          /\ \A i \in 1 .. n : s[i] = delayedEventHandlers[i]
          /\ s[n + 1].do = "decoy" /\ s[n + 1].who = user
      BY <2>1, <2>2, <2>3
    <3>2. Pending(q)' = {i \in 1 .. Len(s) : s[i].do = "decoy" /\ s[i].who \in Pair(q)}
      BY DEF Pending
    <3> HIDE DEF s, n, user
    <3>3. \A i : i \in 1 .. Len(s) <=> i \in 1 .. n \/ i = n + 1
      BY <3>1
    <3> QED BY <3>1, <3>2, <3>3 DEF Pending, n
  <2>5. n + 1 \notin Pending(q)
    BY <2>2 DEF Pending
  <2>6. Cardinality(Pending(q)') =
          IF user \in Pair(q) THEN Cardinality(Pending(q)) + 1 ELSE Cardinality(Pending(q))
    BY <2>4, <2>5, Counts, FS_AddElement
  <2> HIDE DEF n, user
  <2>7. Cardinality(Told(q, "Decoy")') + Cardinality(Pending(q)')
          <= Stock(thrownGrenades, q, "Decoy")
    <3>1. /\ Cardinality(Told(q, "Decoy")') \in Nat /\ Cardinality(Told(q, "Decoy")) \in Nat
          /\ Stock(thrownGrenades, q, "Decoy") \in Nat /\ Cardinality(Pending(q)) \in Nat
          /\ Cardinality(Told(q, "Decoy")) + Cardinality(Pending(q))
               <= Stock(thrownGrenades, q, "Decoy")
      BY <1>5, <1>6 DEF Enough
    <3>2. CASE user \in Pair(q)
      <4>1. Cardinality(Told(q, "Decoy")') + 1 <= Cardinality(Told(q, "Decoy"))
        BY <1>7, <1>9, <3>2
      <4> QED BY <2>6, <3>1, <3>2, <4>1
    <3>3. CASE user \notin Pair(q)
      BY <1>7, <2>6, <3>1, <3>3
    <3> QED BY <3>2, <3>3
  <2>8. Cardinality(Told(q, "Smoke")') <= Stock(thrownGrenades, q, "Smoke")
    BY <1>5, <1>6, <1>7 DEF Enough
  <2>9. Burning(q)' = Burning(q) /\ \A u \in {"HE", "Flash"} : Bodies(q, u)' = Bodies(q, u)
    BY <1>2, <1>3, <1>9 DEF Burning, Bodies, Fires
  <2> QED BY <2>1, <2>7, <2>8, <2>9 DEF Enough
<1> QED
  BY <1>2, <1>8, <1>9

LEMMA EnoughBurnt ==
  ASSUME StateInv, NEW q \in Players, Enough(q), NEW g \in Grenades, InfernoDestroyed(g)
  PROVE  Enough(q)'
<1> USE DEF StateInv
<1> DEFINE new == thrownGrenades'
           p == thrower[g]
<1>1. /\ stage[g] = "effect" /\ g \in Active /\ kind[g] \in Fires /\ p \in Players
      /\ stage' = [stage EXCEPT ![g] = "over"]
      /\ UNCHANGED <<kind, thrower, grenadeProjectiles, delayedEventHandlers>>
      /\ new = DeleteThrownGrenade(thrownGrenades, p, "Incendiary")
  BY DEF LiveInv, ThrowsInv, InfernoDestroyed, Active, server
<1>2. Active' = Active \ {g}
  BY <1>1 DEF Active, Types
<1>3. /\ new \in Thrown
      /\ \A r \in Players, u \in AllTypes :
           r # p \/ u # "Incendiary" => new[r][u] = thrownGrenades[r][u]
      /\ Len(thrownGrenades[p]["Incendiary"]) <= Len(new[p]["Incendiary"]) + 1
  BY <1>1, DeletedNext DEF AllTypes
<1>4. \A u \in AllTypes : Len(thrownGrenades[q][u]) \in Nat /\ Len(new[q][u]) \in Nat
  BY <1>3, StockIs DEF Types
<1> HIDE DEF new
<1>5. \A u \in {"HE", "Flash"} : Cardinality(Bodies(q, u)') <= Len(new[q][u])
  <2>1. ASSUME NEW u \in {"HE", "Flash"} PROVE Bodies(q, u)' = Bodies(q, u)
    BY <1>1 DEF Bodies
  <2>2. ASSUME NEW u \in {"HE", "Flash"} PROVE new[q][u] = thrownGrenades[q][u]
    BY <1>3 DEF AllTypes
  <2> QED BY <2>1, <2>2 DEF Enough
<1>6. Cardinality(Burning(q)') <= Len(new[q]["Molotov"]) + Len(new[q]["Incendiary"])
  <2> DEFINE m == Len(thrownGrenades[q]["Molotov"])
             i == Len(thrownGrenades[q]["Incendiary"])
             mm == Len(new[q]["Molotov"])
             ii == Len(new[q]["Incendiary"])
  <2>1. /\ Cardinality(Burning(q)) <= m + i /\ Cardinality(Burning(q)) \in Nat
        /\ m \in Nat /\ i \in Nat /\ mm \in Nat /\ ii \in Nat
    BY <1>4, Counts DEF Enough, AllTypes
  <2>2. Burning(q) \in SUBSET Grenades /\ Burning(q)' \subseteq Burning(q) \ {g}
    BY <1>1, <1>2, Counts DEF Burning
  <2>3. Cardinality(Burning(q)') \in Nat /\ Cardinality(Burning(q)') <= Cardinality(Burning(q))
    <3>1. Burning(q)' \in SUBSET Grenades
      BY <2>2
    <3> QED BY <2>2, <3>1, Finite, CountSame
  <2>4. mm = m
    BY <1>3 DEF AllTypes
  <2>5. q # p => ii = i
    BY <1>3 DEF AllTypes
  <2>6. q = p => i <= ii + 1
    BY <1>3
  <2>7. q = p => Cardinality(Burning(q)') + 1 <= Cardinality(Burning(q))
    <3> SUFFICES ASSUME q = p PROVE Cardinality(Burning(q)') + 1 <= Cardinality(Burning(q))
      OBVIOUS
    <3>1. g \in Burning(q)
      BY <1>1 DEF Burning
    <3> QED BY <2>2, <3>1, CountDown
  <2> HIDE DEF m, i, mm, ii
  <2>8. Cardinality(Burning(q)') <= mm + ii
    <3>1. CASE q = p
      BY <2>1, <2>3, <2>4, <2>6, <2>7, <3>1
    <3>2. CASE q # p
      BY <2>1, <2>3, <2>4, <2>5, <3>2
    <3> QED BY <3>1, <3>2
  <2> QED BY <2>8 DEF mm, ii
<1>7. ASSUME NEW u \in {"Smoke", "Decoy"}
      PROVE  /\ Told(q, u)' = Told(q, u)
             /\ Stock(new, q, u) = Stock(thrownGrenades, q, u)
  <2>1. Told(q, u)' = Told(q, u)
    BY <1>1, <1>2 DEF Told, Fires
  <2>2. u \in AllTypes /\ u # "Incendiary" /\ "Incendiary" \in AllTypes
    BY DEF AllTypes
  <2>3. Stock(new, q, u) = Stock(thrownGrenades, q, u)
    BY <1>1, <2>2, StockDeleted DEF Types
  <2> QED BY <2>1, <2>3
<1>8. Pending(q)' = Pending(q)
  BY <1>1 DEF Pending
<1> QED
  BY <1>5, <1>6, <1>7, <1>8 DEF Enough, new

LEMMA EnoughDestroyed ==
  ASSUME StateInv, NEW q \in Players, Enough(q), NEW g \in Grenades, Destroy(g)
  PROVE  Enough(q)'
<1> USE DEF StateInv
<1>1. UNCHANGED <<kind, thrower, stage, delayedEventHandlers>>
  BY OnDestroyIs DEF Destroy, server
<1>2. /\ Burning(q)' = Burning(q) /\ Pending(q)' = Pending(q)
      /\ \A u : Told(q, u)' = Told(q, u)
  BY <1>1 DEF Burning, Told, Pending, Active
<1>3. CASE UNCHANGED <<grenadeProjectiles, thrownGrenades>>
  <2>1. \A u : Bodies(q, u)' = Bodies(q, u)
    BY <1>1, <1>3 DEF Bodies
  <2> QED BY <1>2, <1>3, <2>1 DEF Enough
<1>4. CASE /\ g \in grenadeProjectiles /\ grenadeProjectiles' = grenadeProjectiles \ {g}
           /\ kind[g] \notin {"HE", "Flash"} /\ UNCHANGED thrownGrenades
  <2>1. \A u \in {"HE", "Flash"} : Bodies(q, u)' = Bodies(q, u)
    BY <1>1, <1>4 DEF Bodies
  <2> QED BY <1>2, <1>4, <2>1 DEF Enough
<1>5. CASE /\ g \in grenadeProjectiles /\ grenadeProjectiles' = grenadeProjectiles \ {g}
           /\ kind[g] \in {"HE", "Flash"}
           /\ thrownGrenades' = DeleteThrownGrenade(thrownGrenades, thrower[g], kind[g])
  <2> DEFINE new == thrownGrenades'
             p == thrower[g]
             t == kind[g]
  <2>1. p \in Players /\ t \in AllTypes
    BY <1>5 DEF ThrowsInv, LiveInv, Types, AllTypes
  <2>2. /\ new \in Thrown
        /\ \A r \in Players, u \in AllTypes : r # p \/ u # t => new[r][u] = thrownGrenades[r][u]
        /\ Len(thrownGrenades[p][t]) <= Len(new[p][t]) + 1
    BY <1>5, <2>1, DeletedNext
  <2>3. \A u \in AllTypes : Len(thrownGrenades[q][u]) \in Nat /\ Len(new[q][u]) \in Nat
    BY <2>2, StockIs DEF Types
  <2>4. ASSUME NEW u \in {"Smoke", "Decoy"}
        PROVE  Stock(new, q, u) = Stock(thrownGrenades, q, u)
    <3>1. u \in AllTypes /\ u # t
      BY <1>5 DEF AllTypes
    <3> QED BY <1>5, <2>1, <3>1, StockDeleted DEF Types
  <2> HIDE DEF new, p, t
  <2>5. ASSUME NEW u \in {"HE", "Flash"}
        PROVE  Cardinality(Bodies(q, u)') <= Len(new[q][u])
    <3>1. /\ Cardinality(Bodies(q, u)) <= Len(thrownGrenades[q][u]) /\ u \in AllTypes
          /\ Cardinality(Bodies(q, u)) \in Nat /\ Bodies(q, u) \in SUBSET Grenades
      BY Counts DEF Enough, AllTypes
    <3>2. Bodies(q, u)' \subseteq Bodies(q, u) \ {g}
      BY <1>1, <1>5 DEF Bodies
    <3>3. Cardinality(Bodies(q, u)') \in Nat
      BY <3>1, <3>2, Finite
    <3>4. CASE u = t /\ q = p
      <4>1. g \in Bodies(q, u)
        BY <1>5, <3>4 DEF Bodies, t, p
      <4>2. Cardinality(Bodies(q, u)') + 1 <= Cardinality(Bodies(q, u))
        BY <3>1, <3>2, <4>1, CountDown
      <4> QED BY <2>2, <2>3, <3>1, <3>3, <3>4, <4>2
    <3>5. CASE u # t \/ q # p
      <4>1. Cardinality(Bodies(q, u)') <= Cardinality(Bodies(q, u))
        BY <3>1, <3>2, CountSame
      <4>2. new[q][u] = thrownGrenades[q][u]
        BY <2>2, <3>1, <3>5
      <4> QED BY <2>3, <3>1, <3>3, <4>1, <4>2
    <3> QED BY <3>4, <3>5
  <2>6. /\ new[q]["Molotov"] = thrownGrenades[q]["Molotov"]
        /\ new[q]["Incendiary"] = thrownGrenades[q]["Incendiary"]
    BY <1>5, <2>2 DEF AllTypes, t
  <2> QED BY <1>2, <2>4, <2>5, <2>6 DEF Enough, new
<1> QED
  BY <1>3, <1>4, <1>5, OnDestroyIs DEF Destroy

LEMMA EnoughAtTheEnd ==
  ASSUME StateInv, NEW q \in Players, Enough(q), EndFrame
  PROVE  Enough(q)'
<1> USE DEF StateInv
<1>1. /\ thrownGrenades' = Handled
      /\ UNCHANGED <<kind, thrower, stage, grenadeProjectiles>>
      /\ Len(delayedEventHandlers') = 0
  BY DEF EndFrame, server
<1>2. /\ Handled \in Thrown
      /\ \A u \in AllTypes : u # "Decoy" => Handled[q][u] = thrownGrenades[q][u]
      /\ \A r \in Players, u \in AllTypes : u # "Decoy" => Handled[r][u] = thrownGrenades[r][u]
      /\ Stock(thrownGrenades, q, "Decoy") <= Stock(Handled, q, "Decoy") + Cardinality(Pending(q))
  BY HandledIs DEF Types
<1>3. /\ Burning(q)' = Burning(q) /\ \A u : Told(q, u)' = Told(q, u) /\ Bodies(q, u)' = Bodies(q, u)
      /\ Pending(q)' = {}
  BY <1>1 DEF Burning, Told, Bodies, Pending, Active
<1>4. /\ Handled[q]["HE"] = thrownGrenades[q]["HE"]
      /\ Handled[q]["Flash"] = thrownGrenades[q]["Flash"]
      /\ Handled[q]["Molotov"] = thrownGrenades[q]["Molotov"]
      /\ Handled[q]["Incendiary"] = thrownGrenades[q]["Incendiary"]
  BY <1>2 DEF AllTypes
<1>5. Stock(Handled, q, "Smoke") = Stock(thrownGrenades, q, "Smoke")
  <2>1. Controls[q] # Nil => Controls[q] \in Players
    BY PairIs
  <2>2. /\ Handled[q]["Smoke"] = thrownGrenades[q]["Smoke"]
        /\ Controls[q] # Nil => Handled[Controls[q]]["Smoke"] = thrownGrenades[Controls[q]]["Smoke"]
    BY <1>2, <2>1 DEF AllTypes
  <2> QED BY <2>2 DEF Stock
<1>6. Cardinality(Told(q, "Decoy")') + Cardinality(Pending(q)') <= Stock(Handled, q, "Decoy")
  <2>1. /\ Cardinality(Told(q, "Decoy")) + Cardinality(Pending(q)) <= Stock(thrownGrenades, q, "Decoy")
        /\ Cardinality(Told(q, "Decoy")) \in Nat /\ Cardinality(Pending(q)) \in Nat
        /\ Stock(thrownGrenades, q, "Decoy") \in Nat /\ Stock(Handled, q, "Decoy") \in Nat
    BY <1>2, Counts, StockIs DEF Enough, Types, AllTypes
  <2>2. Cardinality(Pending(q)') = 0
    BY <1>3, FS_EmptySet
  <2> QED BY <1>2, <1>3, <2>1, <2>2
<1> QED
  BY <1>1, <1>3, <1>4, <1>5, <1>6 DEF Enough

LEMMA StockNext == ASSUME StateInv, Next PROVE StockInv'
<1> USE DEF StateInv
<1> SUFFICES ASSUME lastRound # frame PROVE StockInv'
  BY StockStart
<1>0. \A q \in Players : Enough(q)
  BY DEF StockInv
<1>1. CASE ClearGrenadeProjectiles
  BY <1>1 DEF StockInv, NothingThrown, ClearGrenadeProjectiles, Active, Forgotten, Types
<1>2. ASSUME ~ClearGrenadeProjectiles, NEW q \in Players PROVE Enough(q)'
  <2>0. Enough(q)
    BY <1>0
  <2>1. ASSUME NEW g \in Grenades, NEW p \in Players, NEW t \in kit, Throw(g, p, t)
        PROVE  Enough(q)'
    BY <2>0, <2>1, EnoughThrown
  <2>2. ASSUME NEW g \in Grenades, NEW blinded \in SUBSET Players, FlashBursts(g, blinded)
        PROVE  Enough(q)'
    <3>1. /\ UNCHANGED <<thrownGrenades, kind, thrower, grenadeProjectiles>>
          /\ stage' = [stage EXCEPT ![g] = "over"]
      BY <2>2 DEF FlashBursts
    <3>2. Active' \subseteq Active
      BY <3>1 DEF Active, Types
    <3>3. Pending(q)' = Pending(q)
      <4>1. CASE UNCHANGED delayedEventHandlers
        BY <4>1 DEF Pending
      <4>2. CASE delayedEventHandlers' = delayedEventHandlers \o Blinds(blinded)
        <5> DEFINE s == delayedEventHandlers
                   b == Blinds(blinded)
        <5>1. /\ b \in Seq(Delays) /\ s \in Seq(Delays) /\ Len(b) \in Nat /\ Len(s) \in Nat
              /\ \A i \in 1 .. Len(b) : b[i].do = "blind"
          BY BlindsAre, LenProperties DEF Types
        <5>2. /\ Len(s \o b) = Len(s) + Len(b)
              /\ \A i \in 1 .. Len(s) + Len(b) :
                   (s \o b)[i] = IF i <= Len(s) THEN s[i] ELSE b[i - Len(s)]
          <6> HIDE DEF s, b
          <6> QED BY <5>1, ConcatProperties
        <5>3. ASSUME NEW i \in 1 .. Len(s \o b), i > Len(s)
              PROVE  (s \o b)[i].do # "decoy"
          <6> HIDE DEF s, b
          <6>1. i - Len(s) \in 1 .. Len(b)
            BY <5>1, <5>2, <5>3
          <6> QED BY <5>1, <5>2, <5>3, <6>1
        <5>4. ASSUME NEW i \in 1 .. Len(s \o b), i <= Len(s)
              PROVE  i \in 1 .. Len(s) /\ (s \o b)[i] = s[i]
          <6> HIDE DEF s, b
          <6> QED BY <5>1, <5>2, <5>4
        <5>5. \A i \in 1 .. Len(s) : i \in 1 .. Len(s \o b) /\ i <= Len(s)
          <6> HIDE DEF s, b
          <6> QED BY <5>1, <5>2
        <5>6. \A i \in 1 .. Len(s \o b) : i <= Len(s) \/ i > Len(s)
          <6> HIDE DEF s, b
          <6> QED BY <5>1, <5>2
        <5>7. {i \in 1 .. Len(s \o b) : (s \o b)[i].do = "decoy" /\ (s \o b)[i].who \in Pair(q)}
                = {i \in 1 .. Len(s) : s[i].do = "decoy" /\ s[i].who \in Pair(q)}
          <6> HIDE DEF s, b
          <6> QED BY <5>3, <5>4, <5>5, <5>6
        <5> QED BY <4>2, <5>7 DEF Pending
      <4> QED BY <2>2, <4>1, <4>2 DEF FlashBursts, Blinds
    <3> QED BY <2>0, <3>1, <3>2, <3>3, FewerIsEnough DEF Burning, Bodies, Told
  <2>3. ASSUME NEW p \in Players, NEW g \in Grenades, FlashDuration(p, g) PROVE Enough(q)'
    BY <2>0, <2>3 DEF FlashDuration, server, Enough, Bodies, Burning, Told, Active, Pending
  <2>4. ASSUME NEW g \in Grenades, Detonate(g) PROVE Enough(q)'
    <3>1. /\ UNCHANGED <<thrownGrenades, kind, thrower, grenadeProjectiles, delayedEventHandlers>>
          /\ stage[g] = "flying" /\ \E s : stage' = [stage EXCEPT ![g] = s]
      BY <2>4 DEF Detonate, server
    <3>2. Active' \subseteq Active
      BY <3>1 DEF Active, Types
    <3> QED BY <2>0, <3>1, <3>2, FewerIsEnough DEF Burning, Bodies, Told, Pending
  <2>5. ASSUME NEW g \in Grenades, Expire(g) PROVE Enough(q)'
    BY <2>0, <2>5, EnoughExpired
  <2>6. ASSUME NEW g \in Grenades, InfernoCreated(g) PROVE Enough(q)'
    BY <2>0, <2>6 DEF InfernoCreated, server, Enough, Bodies, Burning, Told, Active, Pending
  <2>7. ASSUME NEW g \in Grenades, InfernoDestroyed(g) PROVE Enough(q)'
    BY <2>0, <2>7, EnoughBurnt
  <2>8. ASSUME NEW g \in Grenades, Destroy(g) PROVE Enough(q)'
    BY <2>0, <2>8, EnoughDestroyed
  <2>9. ASSUME NEW g \in Grenades, DestroyLeft(g) PROVE Enough(q)'
    <3>1. /\ UNCHANGED <<thrownGrenades, kind, thrower, grenadeProjectiles, delayedEventHandlers>>
          /\ stage' = [stage EXCEPT ![g] = "over"]
      BY <2>9, OnDestroyIs DEF DestroyLeft, LiveInv, server
    <3>2. Active' \subseteq Active
      BY <3>1 DEF Active, Types
    <3> QED BY <2>0, <3>1, <3>2, FewerIsEnough DEF Burning, Bodies, Told, Pending
  <2>10. CASE EndFrame
    BY <2>0, <2>10, EnoughAtTheEnd
  <2> QED
    BY <1>2, <2>1, <2>2, <2>3, <2>4, <2>5, <2>6, <2>7, <2>8, <2>9, <2>10 DEF Next
<1>3. ASSUME ~ClearGrenadeProjectiles PROVE lastRound' # frame'
  <2>1. UNCHANGED <<lastRound, frame>> \/ EndFrame
    BY ZenonT(60), <1>3, OnDestroyIs
    DEF Next, Throw, FlashBursts, FlashDuration, Detonate, Expire, InfernoCreated,
        InfernoDestroyed, Destroy, DestroyLeft, server
  <2>2. CASE EndFrame
    BY <2>2 DEF EndFrame, server, Types
  <2> QED BY <2>1, <2>2
<1> QED
  BY <1>1, <1>2, <1>3 DEF StockInv

---------------------------------------------------------------------------
LEMMA InitInv == ASSUME Init PROVE StateInv
<1> USE DEF Init
<1>1. kit \subseteq AllTypes /\ mimic \in BOOLEAN
  BY GrenadesAssumption
<1>2. thrownGrenades \in Thrown /\ delayedEventHandlers \in Seq(Delays)
  BY DEF Thrown
<1>3. Types
  BY <1>1, <1>2 DEF Types, Stages
<1>4. ThrowsInv /\ LiveInv
  BY DEF ThrowsInv, LiveInv, InFlight
<1>5. KindsInv
  BY DEF KindsInv
<1>6. lastRound # frame
  OBVIOUS
<1>7. ASSUME NEW p \in Players PROVE Enough(p)
  <2>1. \A t : Bodies(p, t) = {} /\ Burning(p) = {} /\ Told(p, t) = {}
    BY DEF Bodies, Burning, Told, Active
  <2>2. Pending(p) = {}
    BY DEF Pending
  <2>3. Cardinality({}) = 0
    BY FS_EmptySet
  <2>4. \A t \in AllTypes : thrownGrenades[p][t] = << >>
    OBVIOUS
  <2>5. \A t \in AllTypes : Len(thrownGrenades[p][t]) = 0 /\ Stock(thrownGrenades, p, t) \in Nat
    BY <1>2, <2>4, StockIs
  <2> HIDE DEF Init
  <2>6. \A u \in {"HE", "Flash"} : Cardinality(Bodies(p, u)) <= Len(thrownGrenades[p][u])
    <3>1. ASSUME NEW u \in {"HE", "Flash"}
          PROVE  Cardinality(Bodies(p, u)) = 0 /\ Len(thrownGrenades[p][u]) = 0
      <4>1. u \in AllTypes
        BY DEF AllTypes
      <4> QED BY <2>1, <2>3, <2>5, <4>1
    <3> QED BY <3>1
  <2>7. Cardinality(Burning(p))
          <= Len(thrownGrenades[p]["Molotov"]) + Len(thrownGrenades[p]["Incendiary"])
    <3>1. /\ Len(thrownGrenades[p]["Molotov"]) = 0 /\ Len(thrownGrenades[p]["Incendiary"]) = 0
          /\ Cardinality(Burning(p)) = 0
      BY <2>1, <2>3, <2>5 DEF AllTypes
    <3> QED BY <3>1
  <2>8. /\ Cardinality(Told(p, "Smoke")) <= Stock(thrownGrenades, p, "Smoke")
        /\ Cardinality(Told(p, "Decoy")) + Cardinality(Pending(p))
             <= Stock(thrownGrenades, p, "Decoy")
    <3>1. /\ Stock(thrownGrenades, p, "Smoke") \in Nat /\ Stock(thrownGrenades, p, "Decoy") \in Nat
          /\ Cardinality(Told(p, "Smoke")) = 0 /\ Cardinality(Told(p, "Decoy")) = 0
          /\ Cardinality(Pending(p)) = 0
      BY <2>1, <2>2, <2>3, <2>5 DEF AllTypes
    <3> QED BY <3>1
  <2> QED BY <2>6, <2>7, <2>8 DEF Enough
<1> QED
  BY <1>3, <1>4, <1>5, <1>6, <1>7 DEF StateInv, StockInv

(* The counting invariant holds of every run, whatever the server does.    *)
THEOREM GrenadesInductive == Spec => []StateInv
<1>1. Init => StateInv
  BY InitInv
<1>2. StateInv /\ [Next]_vars => StateInv'
  <2>1. ASSUME StateInv, Next PROVE StateInv'
    BY <2>1, TypesNext, ThrowsNext, LiveNext, KindsNext, StockNext DEF StateInv
  <2>2. ASSUME StateInv, UNCHANGED vars PROVE StateInv'
    <3>1. Types' /\ ThrowsInv' /\ LiveInv' /\ KindsInv'
      BY <2>2 DEF StateInv, vars, server, Types, ThrowsInv, LiveInv, KindsInv, InFlight
    <3>2. Active' = Active /\ UNCHANGED <<lastRound, frame, grenadeProjectiles, thrownGrenades>>
      BY <2>2 DEF vars, server, Active
    <3>3. NothingThrown => NothingThrown'
      BY <3>2 DEF NothingThrown
    <3>4. ASSUME NEW p \in Players, Enough(p) PROVE Enough(p)'
      <4>1. /\ Pending(p)' = Pending(p) /\ Burning(p)' = Burning(p)
            /\ \A t : Bodies(p, t)' = Bodies(p, t) /\ Told(p, t)' = Told(p, t)
        BY <2>2, <3>2 DEF vars, server, Bodies, Burning, Told, Pending
      <4> QED BY <3>2, <3>4, <4>1 DEF Enough
    <3> QED BY <2>2, <3>1, <3>2, <3>3, <3>4 DEF StateInv, StockInv
  <2> QED BY <2>1, <2>2
<1> QED
  BY <1>1, <1>2, PTL DEF Spec

(* Some list of a player and the bot they control is not empty.            *)
LEMMA PairHolds ==
  ASSUME StateInv, NEW g \in Active
  PROVE  \E n \in 0 .. Cardinality(Players) - 1 :
           /\ n = 0 \/ n = 1
           /\ Controlled(EventUser(thrower[g]), n) # Nil
           /\ Held(Controlled(EventUser(thrower[g]), n), kind[g]) # << >>
<1> USE DEF StateInv
<1> DEFINE p == thrower[g]
           u == EventUser(p)
           t == kind[g]
<1>1. /\ g \in Grenades /\ p \in Players /\ t \in AllTypes
      /\ stage[g] \in {"flying", "effect"}
  BY DEF Active, ThrowsInv
<1>2. u \in Players /\ (u = p \/ Controls[u] = p)
  BY <1>1, EventUserIs
<1>3. lastRound # frame /\ \A q \in Players : Enough(q)
  BY DEF StockInv, NothingThrown
<1>4. /\ Controlled(u, 0) = u /\ Controlled(u, 1) = Controls[u]
      /\ Nil \notin Players
  BY <1>2, ControlledIs, GrenadesAssumption
<1>5. 0 \in 0 .. Cardinality(Players) - 1
  <2>1. Cardinality(Players) \in Nat /\ Cardinality(Players) # 0
    BY <1>1, GrenadesAssumption, FS_CardinalityType, FS_EmptySet
  <2> QED BY <2>1
<1>6. Controls[u] # Nil => 1 \in 0 .. Cardinality(Players) - 1
  <2> SUFFICES ASSUME Controls[u] # Nil PROVE 1 \in 0 .. Cardinality(Players) - 1
    OBVIOUS
  <2>1. Controls[u] \in Players /\ Controls[u] # u
    BY <1>2, PairIs
  <2>2. Cardinality(Players) \in Nat /\ Cardinality(Players) # 0 /\ Cardinality(Players) # 1
    BY <1>2, <2>1, GrenadesAssumption, FS_CardinalityType, FS_EmptySet, FS_Singleton
  <2> QED BY <2>2
<1>7. ASSUME NEW q \in Players, q = u \/ q = Controls[u], Held(q, t) # << >>
      PROVE  \E n \in 0 .. Cardinality(Players) - 1 :
               /\ n = 0 \/ n = 1
               /\ Controlled(u, n) # Nil /\ Held(Controlled(u, n), t) # << >>
  <2> HIDE DEF u, t
  <2>1. CASE q = u
    BY <1>4, <1>5, <1>7, <2>1
  <2>2. CASE q = Controls[u]
    BY <1>4, <1>6, <1>7, <2>2
  <2> QED BY <1>7, <2>1, <2>2
<1>8. p = u \/ p = Controls[u]
  BY <1>2
<1>9. ASSUME NEW S \in SUBSET Grenades, g \in S
      PROVE  Cardinality(S) \in Nat /\ Cardinality(S) # 0
  BY <1>9, Finite, FS_EmptySet
<1>10. \A q \in Players, v \in AllTypes :
         /\ thrownGrenades[q][v] # << >> => Held(q, v) # << >>
         /\ Len(thrownGrenades[q][v]) # 0 => thrownGrenades[q][v] # << >>
         /\ Len(thrownGrenades[q][v]) \in Nat
  <2> SUFFICES ASSUME NEW q \in Players, NEW v \in AllTypes
               PROVE  /\ thrownGrenades[q][v] # << >> => Held(q, v) # << >>
                      /\ Len(thrownGrenades[q][v]) # 0 => thrownGrenades[q][v] # << >>
                      /\ Len(thrownGrenades[q][v]) \in Nat
    OBVIOUS
  <2>1. Len(thrownGrenades[q][v]) \in Nat
    BY StockIs DEF Types
  <2> QED BY <2>1, EmptySeq DEF Held
<1>11. CASE t \in {"HE", "Flash"}
  <2>1. g \in grenadeProjectiles
    BY <1>1, <1>11 DEF LiveInv, InFlight, ThrowsInv, Fires
  <2>2. g \in Bodies(p, t) /\ Bodies(p, t) \in SUBSET Grenades
    BY <1>1, <2>1, Counts DEF Bodies
  <2>3. Cardinality(Bodies(p, t)) <= Len(thrownGrenades[p][t])
    BY <1>1, <1>3, <1>11 DEF Enough
  <2>4. Len(thrownGrenades[p][t]) # 0
    BY <1>1, <1>9, <1>10, <2>2, <2>3
  <2> QED BY <1>1, <1>7, <1>8, <1>10, <2>4
<1>12. CASE t \in Fires
  <2>1. g \in Burning(p) /\ Burning(p) \in SUBSET Grenades
    BY <1>1, <1>12, Counts DEF Burning
  <2> DEFINE m == Len(thrownGrenades[p]["Molotov"])
             i == Len(thrownGrenades[p]["Incendiary"])
  <2>2. /\ Cardinality(Burning(p)) <= m + i /\ m \in Nat /\ i \in Nat
        /\ Cardinality(Burning(p)) \in Nat /\ Cardinality(Burning(p)) # 0
    BY <1>1, <1>3, <1>9, <1>10, <2>1 DEF Enough, AllTypes
  <2>3. m # 0 \/ i # 0
    <3> HIDE DEF m, i
    <3> QED BY <2>2
  <2>4. thrownGrenades[p]["Molotov"] # << >> \/ thrownGrenades[p]["Incendiary"] # << >>
    BY <1>1, <1>10, <2>3 DEF AllTypes
  <2>5. Held(p, t) # << >>
    BY <1>12, <2>4 DEF Held, Fires
  <2> QED BY <1>1, <1>7, <1>8, <2>5
<1>13. CASE t \in {"Smoke", "Decoy"}
  <2>1. g \in Told(u, t) /\ Told(u, t) \in SUBSET Grenades
    BY <1>1, <1>2, PairIs, Counts DEF Told
  <2>2. Cardinality(Told(u, t)) <= Stock(thrownGrenades, u, t)
    <3>1. Cardinality(Told(u, t)) \in Nat /\ Cardinality(Pending(u)) \in Nat
      BY <1>2, Counts
    <3>2. Stock(thrownGrenades, u, t) \in Nat
      BY <1>1, <1>2, StockIs DEF Types
    <3>3. CASE t = "Smoke"
      BY <1>2, <1>3, <3>3 DEF Enough
    <3>4. CASE t = "Decoy"
      <4>1. Cardinality(Told(u, t)) + Cardinality(Pending(u)) <= Stock(thrownGrenades, u, t)
        BY <1>2, <1>3, <3>4 DEF Enough
      <4> HIDE DEF u, t
      <4> QED BY <3>1, <3>2, <4>1
    <3> QED BY <1>13, <3>3, <3>4
  <2>3. Stock(thrownGrenades, u, t) \in Nat /\ Stock(thrownGrenades, u, t) # 0
    <3>1. Stock(thrownGrenades, u, t) \in Nat
      BY <1>1, <1>2, StockIs DEF Types
    <3>2. Cardinality(Told(u, t)) \in Nat /\ Cardinality(Told(u, t)) # 0
      BY <1>9, <2>1
    <3> HIDE DEF u, t
    <3> QED BY <2>2, <3>1, <3>2
  <2>4. CASE Len(thrownGrenades[u][t]) # 0
    BY <1>1, <1>2, <1>7, <1>10, <2>4
  <2>5. CASE Len(thrownGrenades[u][t]) = 0
    <3>1. /\ Controls[u] # Nil => /\ Controls[u] \in Players
                                  /\ Stock(thrownGrenades, u, t) =
                                       Len(thrownGrenades[u][t]) + Len(thrownGrenades[Controls[u]][t])
          /\ Controls[u] = Nil => Stock(thrownGrenades, u, t) = Len(thrownGrenades[u][t])
      BY <1>1, <1>2, StockIs DEF Types
    <3>2. Controls[u] \in Players /\ Len(thrownGrenades[Controls[u]][t]) # 0
      BY <2>3, <2>5, <3>1
    <3> QED BY <1>1, <1>7, <1>10, <3>2
  <2> QED BY <2>4, <2>5
<1> QED
  BY <1>1, <1>11, <1>12, <1>13 DEF AllTypes, Fires

(* While a grenade is active, a game event about it finds a grenade of its *)
(* type that its thrower, or the bot they control, threw.                  *)
THEOREM GrenadesResolve == Spec => []ActiveResolve
<1>1. StateInv => ActiveResolve
  <2> SUFFICES ASSUME StateInv, NEW g \in Active
               PROVE  LET found == GetThrownGrenade(EventUser(thrower[g]), kind[g])
                      IN  found # 0 /\ (kind[found] = kind[g] \/ {kind[found], kind[g]} = Fires)
    BY DEF ActiveResolve
  <2> USE DEF StateInv
  <2> DEFINE u == EventUser(thrower[g])
             t == kind[g]
             holds == {n \in 0 .. Cardinality(Players) - 1 :
                         Controlled(u, n) # Nil /\ Held(Controlled(u, n), t) # << >>}
             found == GetThrownGrenade(u, t)
  <2>1. u \in Players /\ t \in AllTypes
    BY EventUserIs DEF Active, ThrowsInv
  <2>2. PICK n \in holds : n = 0 \/ n = 1
    BY PairHolds
  <2>3. \E m \in holds : \A k \in holds : m <= k
    <3>1. holds \subseteq Nat
      OBVIOUS
    <3>2. \A k \in holds : k # 0 => 1 <= k
      BY <3>1
    <3> HIDE DEF holds
    <3> QED BY <2>2, <3>1, <3>2
  <2>4. Min(holds) \in holds
    BY <2>3 DEF Min
  <2> DEFINE q == Controlled(u, Min(holds))
             s == Held(q, t)
  <2>5. q \in Players /\ s # << >>
    <3>1. Min(holds) \in Nat
      BY <2>4
    <3>2. q # Nil /\ s # << >>
      BY <2>4
    <3> HIDE DEF holds
    <3>3. q \in Players \cup {Nil}
      BY <2>1, <3>1, ControlledIs
    <3> QED BY <3>2, <3>3
  <2>6. found = Last(s)
    BY <2>4 DEF GetThrownGrenade
  <2> HIDE DEF q
  <2>7. PICK v \in AllTypes : s = thrownGrenades[q][v] /\ (v = t \/ {v, t} = Fires)
    BY <2>1 DEF Held, Fires, AllTypes
  <2>8. s \in Seq(Grenades) /\ Len(s) \in Nat /\ Len(s) # 0
    BY <2>5, <2>7, EmptySeq DEF Types, Thrown
  <2>9. s[Len(s)] \in Grenades /\ kind[s[Len(s)]] = v
    <3>1. Len(s) \in 1 .. Len(s)
      BY <2>8
    <3>2. s[Len(s)] \in Grenades
      BY <2>8, <3>1, ElementOfSeq
    <3>3. kind[s[Len(s)]] = v
      <4> HIDE DEF s
      <4>1. Len(s) \in 1 .. Len(thrownGrenades[q][v])
        BY <2>7, <3>1
      <4>2. kind[thrownGrenades[q][v][Len(s)]] = v
        BY <2>5, <4>1 DEF KindsInv
      <4> QED BY <2>7, <4>2
    <3> QED BY <3>2, <3>3
  <2>10. found = s[Len(s)]
    BY <2>6 DEF Last
  <2> HIDE DEF s, found
  <2>11. found # 0
    BY <2>9, <2>10 DEF Grenades
  <2> QED BY <2>7, <2>9, <2>10, <2>11 DEF found
<1> QED
  BY <1>1, GrenadesInductive, PTL

---------------------------------------------------------------------------
(* Flashes and live grenades, when flashbangs burst apart: with at least a *)
(* frame between the bursts of two.                                        *)
BurstsApart == Spacing >= 2

IsFlash(g) == kind[g] = "Flash"
Entries == [projectile : Grenades, flashed : SUBSET Players, exploded : Nat]

FlashTypes ==
  /\ burst \in [Grenades -> Nat]
  /\ toBlind \subseteq flashed /\ flashed \subseteq Players \X Grenades
  /\ flyingFlashbangs \in Seq(Entries)
  /\ lastFlash \in [player : Players \cup {Nil},
                    projectileByPlayer : [Players -> Grenades \cup {0}]]

(* Bursts: at most one in a frame, and of it are all who are flashed.      *)
BurstInv ==
  /\ \A g \in Grenades : burst[g] <= frame
  /\ \A g \in Grenades : burst[g] # 0 => stage[g] = "over" /\ IsFlash(g)
  /\ \A g, h \in Grenades : burst[g] = frame /\ burst[h] = frame => g = h
  /\ \A p \in Players, g \in Grenades : <<p, g>> \in flashed => burst[g] = frame
  /\ \A g \in toDestroy : IsFlash(g) => burst[g] = frame

(* Grenades are thrown in their order.                                     *)
OrderInv ==
  \A g, h \in Grenades : h < g /\ stage[g] # "none" => stage[h] # "none"

(* Live projectiles that are not in flight are about to be deleted.        *)
ExactInv == \A g \in grenadeProjectiles : InFlight(g) \/ g \in toDestroy

(* The queue has the flashbangs that are flying, in the order thrown; one  *)
(* that burst in this frame or the last one may be before them.  Who was   *)
(* flashed was by the head.                                                *)
Waiting(i) ==
  LET q == flyingFlashbangs[i]
      g == q.projectile
  IN  /\ IsFlash(g) /\ stage[g] \in {"flying", "over"}
      /\ q.flashed = {p \in Players : <<p, g>> \in flashed /\ <<p, g>> \notin toBlind}
      /\ stage[g] = "flying" => q.exploded = 0
      /\ stage[g] = "over" => /\ i = 1 /\ burst[g] # 0 /\ frame <= burst[g] + 1
                              /\ q.exploded = IF g \in toDestroy THEN 0 ELSE burst[g]

AtHead(g) == Len(flyingFlashbangs) # 0 /\ flyingFlashbangs[1].projectile = g

QueueInv ==
  mimic =>
    /\ \A g \in Grenades : stage[g] = "left" => Len(flyingFlashbangs) = 0
    /\ \A i \in 1 .. Len(flyingFlashbangs), j \in 1 .. Len(flyingFlashbangs) :
         i < j => flyingFlashbangs[i].projectile < flyingFlashbangs[j].projectile
    /\ \A i \in 1 .. Len(flyingFlashbangs) : Waiting(i)
    /\ \A g \in Grenades :
         /\ IsFlash(g) /\ stage[g] = "flying" =>
              \E i \in 1 .. Len(flyingFlashbangs) : flyingFlashbangs[i].projectile = g
         /\ IsFlash(g) /\ g \in toDestroy => AtHead(g)
         /\ \A p \in Players : <<p, g>> \in flashed => AtHead(g)

(* The handlers of game events are for who was flashed, and the flashbang  *)
(* that burst is its owner's last one once its projectile is deleted.      *)
BlindInv ==
  ~mimic =>
    /\ \A i \in 1 .. Len(delayedEventHandlers) :
         delayedEventHandlers[i].do = "blind" =>
           \E g \in Grenades : <<delayedEventHandlers[i].who, g>> \in flashed
    /\ \A p \in Players, g \in Grenades :
         <<p, g>> \in flashed =>
           /\ \E i \in 1 .. Len(delayedEventHandlers) :
                delayedEventHandlers[i].do = "blind" /\ delayedEventHandlers[i].who = p
           /\ g \in toDestroy \/ lastFlash.projectileByPlayer[thrower[g]] = g

(* The flashbang kept for a player is one that they threw.                 *)
LastInv ==
  \A p \in Players :
    LET g == lastFlash.projectileByPlayer[p]
    IN  g # 0 => stage[g] # "none" /\ thrower[g] = p

(* Events, and of whom and of what they tell (FlashesTold).                *)
Tells(all, who) ==
  /\ {t.player : t \in all} = {f[1] : f \in who}
  /\ \A t \in all :
       /\ t.projectile \in Grenades \cup {0}
       /\ t.projectile # 0 =>
            stage[t.projectile] # "none" /\ t.attacker = thrower[t.projectile]
       /\ \A f \in who :
            t.player = f[1] /\ (mimic \/ t.attacker = thrower[f[2]])
              => t.projectile = f[2]

ToldInv ==
  /\ Tells(told, lastFlashed)
  /\ \A f \in lastFlashed : f[2] \in Grenades /\ stage[f[2]] # "none"

FlashInv ==
  /\ FlashTypes /\ BurstInv /\ OrderInv /\ ExactInv
  /\ QueueInv /\ BlindInv /\ LastInv /\ ToldInv

(* The queue: its head changed, and taken off.                             *)
LEMMA HeadChanged ==
  ASSUME FlashTypes, flyingFlashbangs # << >>, NEW e \in Entries,
         flyingFlashbangs' = [flyingFlashbangs EXCEPT ![1] = e]
  PROVE  /\ flyingFlashbangs' \in Seq(Entries) /\ Len(flyingFlashbangs') = Len(flyingFlashbangs)
         /\ Len(flyingFlashbangs) \in Nat \ {0} /\ flyingFlashbangs'[1] = e
         /\ \A i \in 1 .. Len(flyingFlashbangs) :
              i # 1 => flyingFlashbangs'[i] = flyingFlashbangs[i]
<1> DEFINE q == flyingFlashbangs
<1>1. q \in Seq(Entries) /\ Len(q) \in Nat \ {0}
  BY EmptySeq DEF FlashTypes
<1>2. 1 \in 1 .. Len(q)
  BY <1>1
<1> QED
  BY <1>1, <1>2, ExceptSeq

LEMMA Marked ==
  ASSUME FlashTypes, flyingFlashbangs # << >>, NEW p \in Players,
         flyingFlashbangs' = [flyingFlashbangs EXCEPT ![1].flashed = @ \cup {p}]
  PROVE  /\ flyingFlashbangs' \in Seq(Entries) /\ Len(flyingFlashbangs') = Len(flyingFlashbangs)
         /\ Len(flyingFlashbangs) \in Nat \ {0}
         /\ flyingFlashbangs'[1] =
              [flyingFlashbangs[1] EXCEPT !.flashed = flyingFlashbangs[1].flashed \cup {p}]
         /\ \A i \in 1 .. Len(flyingFlashbangs) :
              i # 1 => flyingFlashbangs'[i] = flyingFlashbangs[i]
<1> DEFINE q == flyingFlashbangs
           e == [q[1] EXCEPT !.flashed = q[1].flashed \cup {p}]
<1>1. q \in Seq(Entries) /\ Len(q) \in Nat \ {0}
  BY EmptySeq DEF FlashTypes
<1>2. q[1] \in Entries
  BY <1>1
<1>3. e \in Entries
  <2> HIDE DEF q
  <2> QED BY <1>2 DEF Entries
<1>4. flyingFlashbangs' = [flyingFlashbangs EXCEPT ![1] = e]
  BY <1>1
<1> HIDE DEF e
<1>5. /\ flyingFlashbangs' \in Seq(Entries) /\ Len(flyingFlashbangs') = Len(flyingFlashbangs)
      /\ Len(flyingFlashbangs) \in Nat \ {0} /\ flyingFlashbangs'[1] = e
      /\ \A i \in 1 .. Len(flyingFlashbangs) :
           i # 1 => flyingFlashbangs'[i] = flyingFlashbangs[i]
  BY <1>3, <1>4, HeadChanged
<1> QED
  BY <1>5 DEF e

LEMMA Exploded ==
  ASSUME FlashTypes, flyingFlashbangs # << >>, frame \in Nat,
         flyingFlashbangs' = [flyingFlashbangs EXCEPT ![1].exploded = frame]
  PROVE  /\ flyingFlashbangs' \in Seq(Entries) /\ Len(flyingFlashbangs') = Len(flyingFlashbangs)
         /\ Len(flyingFlashbangs) \in Nat \ {0}
         /\ flyingFlashbangs'[1] = [flyingFlashbangs[1] EXCEPT !.exploded = frame]
         /\ \A i \in 1 .. Len(flyingFlashbangs) :
              i # 1 => flyingFlashbangs'[i] = flyingFlashbangs[i]
<1> DEFINE q == flyingFlashbangs
           e == [q[1] EXCEPT !.exploded = frame]
<1>1. q \in Seq(Entries) /\ Len(q) \in Nat \ {0}
  BY EmptySeq DEF FlashTypes
<1>2. q[1] \in Entries
  BY <1>1
<1>3. e \in Entries
  <2> HIDE DEF q
  <2> QED BY <1>2 DEF Entries
<1>4. flyingFlashbangs' = [flyingFlashbangs EXCEPT ![1] = e]
  BY <1>1
<1> HIDE DEF e
<1>5. /\ flyingFlashbangs' \in Seq(Entries) /\ Len(flyingFlashbangs') = Len(flyingFlashbangs)
      /\ Len(flyingFlashbangs) \in Nat \ {0} /\ flyingFlashbangs'[1] = e
      /\ \A i \in 1 .. Len(flyingFlashbangs) :
           i # 1 => flyingFlashbangs'[i] = flyingFlashbangs[i]
  BY <1>3, <1>4, HeadChanged
<1> QED
  BY <1>5 DEF e

(* What OnDestroy does to the queue and to the last flash.                 *)
LEMMA OnDestroyQueue ==
  ASSUME NEW g \in Grenades, OnDestroy(g)
  PROVE  /\ IF IsFlash(g) /\ mimic /\ flyingFlashbangs # << >>
            THEN flyingFlashbangs' = [flyingFlashbangs EXCEPT ![1].exploded = frame]
            ELSE UNCHANGED flyingFlashbangs
         /\ \/ UNCHANGED lastFlash
            \/ /\ g \in grenadeProjectiles /\ IsFlash(g)
               /\ lastFlash' = [lastFlash EXCEPT !.projectileByPlayer[thrower[g]] = g]
         /\ g \notin grenadeProjectiles => UNCHANGED <<grenadeProjectiles, lastFlash>>
         /\ ~(IsFlash(g) /\ mimic /\ flyingFlashbangs = << >>) =>
              grenadeProjectiles' = grenadeProjectiles \ {g}
         /\ g \in grenadeProjectiles /\ IsFlash(g) /\ ~mimic =>
              lastFlash' = [lastFlash EXCEPT !.projectileByPlayer[thrower[g]] = g]
BY DEF OnDestroy, NadeProjectileDestroyed, Known, IsFlash, ExplodedFrame

LEMMA FlashTypesNext == ASSUME StateInv, FlashInv, Next PROVE FlashTypes'
<1> USE DEF StateInv, FlashInv
<1>1. ASSUME NEW g \in Grenades, NEW p \in Players, NEW t \in kit, Throw(g, p, t)
      PROVE  FlashTypes'
  <2> DEFINE e == [projectile |-> g, flashed |-> {}, exploded |-> 0]
  <2>1. e \in Entries
    BY DEF Entries
  <2>2. flyingFlashbangs' \in Seq(Entries)
    <3> HIDE DEF e
    <3>1. Append(flyingFlashbangs, e) \in Seq(Entries)
      BY <2>1 DEF FlashTypes
    <3> QED BY <1>1, <3>1 DEF Throw, FlashTypes, e
  <2> QED BY <1>1, <2>2 DEF FlashTypes, Throw
<1>2. ASSUME NEW g \in Grenades, NEW blinded \in SUBSET Players, FlashBursts(g, blinded)
      PROVE  FlashTypes'
  <2>1. frame \in Nat /\ thrower[g] \in Players
    BY <1>2 DEF Types, ThrowsInv, FlashBursts
  <2>2. EventThrowers(thrower[g]) \subseteq Players \cup {Nil}
    BY <2>1, EventUserIs DEF EventThrowers
  <2>3. lastFlash' \in [player : Players \cup {Nil},
                        projectileByPlayer : [Players -> Grenades \cup {0}]]
    BY <1>2, <2>2 DEF FlashTypes, FlashBursts
  <2> QED BY <1>2, <2>1, <2>3 DEF FlashTypes, FlashBursts
<1>3. ASSUME NEW p \in Players, NEW g \in Grenades, FlashDuration(p, g) PROVE FlashTypes'
  <2>1. flyingFlashbangs' \in Seq(Entries)
    BY <1>3, Marked DEF FlashDuration, FlashTypes
  <2> QED BY <1>3, <2>1 DEF FlashTypes, FlashDuration, server
<1>4. ASSUME NEW g \in Grenades, Detonate(g) PROVE FlashTypes'
  BY <1>4 DEF FlashTypes, Detonate, server
<1>5. ASSUME NEW g \in Grenades, Expire(g) PROVE FlashTypes'
  BY <1>5 DEF FlashTypes, Expire, server
<1>6. ASSUME NEW g \in Grenades, InfernoCreated(g) PROVE FlashTypes'
  BY <1>6 DEF FlashTypes, InfernoCreated, server
<1>7. ASSUME NEW g \in Grenades, InfernoDestroyed(g) PROVE FlashTypes'
  BY <1>7 DEF FlashTypes, InfernoDestroyed, server
<1>8. ASSUME NEW g \in Grenades, OnDestroy(g) PROVE FlashTypes'
  <2>1. flyingFlashbangs' \in Seq(Entries)
    <3>1. frame \in Nat
      BY DEF Types
    <3> QED BY <1>8, <3>1, OnDestroyQueue, Exploded DEF FlashTypes
  <2>2. lastFlash' \in [player : Players \cup {Nil},
                        projectileByPlayer : [Players -> Grenades \cup {0}]]
    BY <1>8, OnDestroyQueue DEF FlashTypes
  <2> QED BY <1>8, <2>1, <2>2, OnDestroyIs DEF FlashTypes, server
<1>9. CASE ClearGrenadeProjectiles
  <2>1. lastFlash' \in [player : Players \cup {Nil},
                        projectileByPlayer : [Players -> Grenades \cup {0}]]
    BY <1>9 DEF FlashTypes, ClearGrenadeProjectiles
  <2> QED BY <1>9, <2>1 DEF FlashTypes, ClearGrenadeProjectiles
<1>10. CASE EndFrame
  <2>1. flyingFlashbangs # << >> => Tail(flyingFlashbangs) \in Seq(Entries)
    BY HeadTailProperties DEF FlashTypes
  <2>2. flyingFlashbangs' \in Seq(Entries)
    BY <1>10, <2>1 DEF EndFrame, Flying, FlashTypes
  <2> QED BY <1>10, <2>2 DEF FlashTypes, EndFrame, server
<1> QED
  BY <1>1, <1>2, <1>3, <1>4, <1>5, <1>6, <1>7, <1>8, <1>9, <1>10 DEF Next, Destroy, DestroyLeft

LEMMA OrderNext == ASSUME StateInv, FlashInv, Next PROVE OrderInv'
<1> USE DEF StateInv, FlashInv
<1>1. ASSUME NEW g \in Grenades, NEW p \in Players, NEW t \in kit, Throw(g, p, t)
      PROVE  OrderInv'
  <2>1. \A h \in Grenades : h < g => stage[h] # "none"
    BY <1>1 DEF Throw, Grenades
  <2>2. ASSUME NEW h \in Grenades PROVE stage'[h] # "none" <=> (stage[h] # "none" \/ h = g)
    BY <1>1 DEF Throw
  <2>3. ASSUME NEW h \in Grenades, NEW k \in Grenades, k < h, stage'[h] # "none"
        PROVE  stage'[k] # "none"
    <3>1. CASE h = g
      BY <2>1, <2>2, <2>3, <3>1
    <3>2. CASE stage[h] # "none"
      BY <2>2, <2>3, <3>2 DEF OrderInv
    <3> QED BY <2>2, <2>3, <3>1, <3>2
  <2> QED BY <2>3 DEF OrderInv
<1>2. ASSUME \A g \in Grenades : stage[g] # "none" <=> stage'[g] # "none" PROVE OrderInv'
  BY <1>2 DEF OrderInv
<1>3. ASSUME NEW g \in Grenades, NEW blinded \in SUBSET Players, FlashBursts(g, blinded)
      PROVE  OrderInv'
  BY <1>2, <1>3 DEF FlashBursts, Types
<1>4. ASSUME NEW g \in Grenades, Detonate(g) PROVE OrderInv'
  BY <1>2, <1>4 DEF Detonate, Types
<1>5. ASSUME NEW g \in Grenades, Expire(g) PROVE OrderInv'
  BY <1>2, <1>5 DEF Expire, Types
<1>6. ASSUME NEW g \in Grenades, InfernoDestroyed(g) PROVE OrderInv'
  BY <1>2, <1>6 DEF InfernoDestroyed, Types, LiveInv
<1>7. ASSUME NEW g \in Grenades, DestroyLeft(g) PROVE OrderInv'
  BY <1>2, <1>7 DEF DestroyLeft, Types
<1>8. CASE ClearGrenadeProjectiles
  BY <1>2, <1>8 DEF ClearGrenadeProjectiles, Active
<1>9. CASE UNCHANGED stage
  BY <1>2, <1>9
<1> QED
  BY <1>1, <1>3, <1>4, <1>5, <1>6, <1>7, <1>8, <1>9
  DEF Next, EndFrame, FlashDuration, InfernoCreated, Destroy

LEMMA ExactNext == ASSUME StateInv, FlashInv, Next PROVE ExactInv'
<1> USE DEF StateInv, FlashInv, ExactInv, InFlight
<1>1. ASSUME NEW g \in Grenades, NEW p \in Players, NEW t \in kit, Throw(g, p, t)
      PROVE  ExactInv'
  BY <1>1 DEF Throw, Types
<1>2. ASSUME NEW g \in Grenades, NEW blinded \in SUBSET Players, FlashBursts(g, blinded)
      PROVE  ExactInv'
  BY <1>2 DEF FlashBursts, Types
<1>3. ASSUME NEW p \in Players, NEW g \in Grenades, FlashDuration(p, g) PROVE ExactInv'
  BY <1>3 DEF FlashDuration, server
<1>4. ASSUME NEW g \in Grenades, Detonate(g) PROVE ExactInv'
  BY <1>4 DEF Detonate, Types, server
<1>5. ASSUME NEW g \in Grenades, Expire(g) PROVE ExactInv'
  BY <1>5 DEF Expire, Types, server
<1>6. ASSUME NEW g \in Grenades, InfernoCreated(g) PROVE ExactInv'
  BY <1>6 DEF InfernoCreated, server
<1>7. ASSUME NEW g \in Grenades, InfernoDestroyed(g) PROVE ExactInv'
  BY <1>7 DEF InfernoDestroyed, Types, LiveInv, server
<1>8. ASSUME NEW g \in Grenades, Destroy(g) PROVE ExactInv'
  <2>1. UNCHANGED <<kind, stage>> /\ toDestroy' = toDestroy \ {g}
    BY <1>8, OnDestroyIs DEF Destroy, server
  <2>2. IsFlash(g) /\ mimic => flyingFlashbangs # << >>
    BY <1>8 DEF Destroy, QueueInv, AtHead
  <2>3. grenadeProjectiles' = grenadeProjectiles \ {g}
    BY <1>8, <2>2, OnDestroyQueue DEF Destroy
  <2> QED BY <2>1, <2>3
<1>9. ASSUME NEW g \in Grenades, DestroyLeft(g) PROVE ExactInv'
  <2>1. UNCHANGED <<kind, toDestroy, grenadeProjectiles>> /\ stage' = [stage EXCEPT ![g] = "over"]
    BY <1>9, OnDestroyIs, OnDestroyQueue DEF DestroyLeft, server, LiveInv
  <2> QED BY <1>9, <2>1 DEF Types, LiveInv, DestroyLeft
<1>10. CASE ClearGrenadeProjectiles
  BY <1>10 DEF ClearGrenadeProjectiles, Forgotten
<1>11. CASE EndFrame
  BY <1>11 DEF EndFrame, server
<1> QED
  BY <1>1, <1>2, <1>3, <1>4, <1>5, <1>6, <1>7, <1>8, <1>9, <1>10, <1>11 DEF Next

LEMMA BurstNext == ASSUME BurstsApart, StateInv, FlashInv, Next PROVE BurstInv'
<1> USE DEF StateInv, FlashInv, BurstInv, IsFlash
<1>0. \A g \in Grenades : burst[g] \in Nat /\ frame \in Nat \ {0}
  BY DEF FlashTypes, Types
<1>1. ASSUME NEW g \in Grenades, NEW p \in Players, NEW t \in kit, Throw(g, p, t)
      PROVE  BurstInv'
  <2>1. burst[g] = 0
    BY <1>0, <1>1 DEF Throw
  <2>2. \A h \in toDestroy : h # g
    BY <1>1 DEF Throw, LiveInv
  <2> QED BY <1>0, <1>1, <2>1, <2>2 DEF Throw, Types, FlashTypes
<1>2. ASSUME NEW g \in Grenades, NEW blinded \in SUBSET Players, FlashBursts(g, blinded)
      PROVE  BurstInv'
  <2>1. \A h \in Grenades : h # g => burst[h] # frame
    <3> SUFFICES ASSUME NEW h \in Grenades, h # g, burst[h] = frame PROVE FALSE
      OBVIOUS
    <3>1. burst[h] # 0 /\ IsFlash(h)
      BY <1>0
    <3>2. frame - burst[h] >= Spacing
      BY <1>2, <3>1 DEF FlashBursts
    <3> QED BY <1>0, <3>2, GrenadesAssumption DEF BurstsApart
  <2>2. /\ burst' = [burst EXCEPT ![g] = frame] /\ stage' = [stage EXCEPT ![g] = "over"]
        /\ flashed' = flashed \cup (blinded \X {g}) /\ toDestroy' = toDestroy \cup {g}
        /\ UNCHANGED <<kind, frame>> /\ kind[g] = "Flash"
    BY <1>2 DEF FlashBursts
  <2>3. \A h \in Grenades : burst'[h] = (IF h = g THEN frame ELSE burst[h])
    BY <2>2 DEF FlashTypes
  <2>4. \A h \in Grenades : stage'[h] = (IF h = g THEN "over" ELSE stage[h])
    BY <2>2 DEF Types
  <2> QED BY <1>0, <2>1, <2>2, <2>3, <2>4
<1>3. ASSUME NEW p \in Players, NEW g \in Grenades, FlashDuration(p, g) PROVE BurstInv'
  BY <1>3 DEF FlashDuration, server
<1>4. ASSUME NEW g \in Grenades, Detonate(g) PROVE BurstInv'
  BY <1>4 DEF Detonate, Types, server
<1>5. ASSUME NEW g \in Grenades, Expire(g) PROVE BurstInv'
  BY <1>5 DEF Expire, Types, server
<1>6. ASSUME NEW g \in Grenades, InfernoCreated(g) PROVE BurstInv'
  BY <1>6 DEF InfernoCreated, server
<1>7. ASSUME NEW g \in Grenades, InfernoDestroyed(g) PROVE BurstInv'
  BY <1>7 DEF InfernoDestroyed, Types, LiveInv, server
<1>8. ASSUME NEW g \in Grenades, Destroy(g) PROVE BurstInv'
  BY <1>8, OnDestroyIs DEF Destroy, server
<1>9. ASSUME NEW g \in Grenades, DestroyLeft(g) PROVE BurstInv'
  BY <1>9, OnDestroyIs DEF DestroyLeft, server, Types
<1>10. CASE ClearGrenadeProjectiles
  BY <1>0, <1>10 DEF ClearGrenadeProjectiles, Active
<1>11. CASE EndFrame
  <2>1. /\ frame' = frame + 1 /\ flashed' = {} /\ toDestroy' = {}
        /\ UNCHANGED <<burst, stage, kind>>
    BY <1>11 DEF EndFrame, server
  <2>2. \A g \in Grenades : burst[g] <= frame + 1 /\ burst[g] # frame + 1
    BY <1>0
  <2> QED BY <2>1, <2>2
<1> QED
  BY <1>1, <1>2, <1>3, <1>4, <1>5, <1>6, <1>7, <1>8, <1>9, <1>10, <1>11 DEF Next

---------------------------------------------------------------------------
(* The queue, action by action                                             *)
LEMMA QueueIs ==
  ASSUME FlashTypes
  PROVE  /\ Len(flyingFlashbangs) \in Nat
         /\ \A i \in 1 .. Len(flyingFlashbangs) : flyingFlashbangs[i] \in Entries
         /\ Len(flyingFlashbangs) = 0 <=> flyingFlashbangs = << >>
<1>1. flyingFlashbangs \in Seq(Entries)
  BY DEF FlashTypes
<1> QED
  BY <1>1, ElementOfSeq, LenProperties, EmptySeq

LEMMA QueueSame ==
  ASSUME QueueInv, mimic' = mimic,
         UNCHANGED <<flyingFlashbangs, kind, burst, frame, flashed, toBlind>>,
         \A g \in Grenades : IsFlash(g) => /\ stage'[g] = stage[g]
                                           /\ g \in toDestroy' <=> g \in toDestroy,
         \A g \in Grenades : stage'[g] = "left" => stage[g] = "left",
         FlashTypes
  PROVE  QueueInv'
<1> SUFFICES ASSUME mimic PROVE QueueInv'
  BY DEF QueueInv
<1>1. ASSUME NEW i \in 1 .. Len(flyingFlashbangs), Waiting(i) PROVE Waiting(i)'
  <2>1. flyingFlashbangs[i].projectile \in Grenades
    BY QueueIs DEF Entries
  <2> QED BY <1>1, <2>1 DEF Waiting, IsFlash
<1> QED
  BY <1>1 DEF QueueInv, AtHead, IsFlash

LEMMA QueueThrow ==
  ASSUME StateInv, FlashInv, NEW g \in Grenades, NEW p \in Players, NEW t \in kit, Throw(g, p, t)
  PROVE  QueueInv'
<1> USE DEF StateInv, FlashInv
<1> SUFFICES ASSUME mimic PROVE QueueInv'
  BY DEF QueueInv, Throw
<1> DEFINE q == flyingFlashbangs
           n == Len(q)
           qq == flyingFlashbangs'
           e == [projectile |-> g, flashed |-> {}, exploded |-> 0]
<1>1. /\ stage[g] = "none" /\ kind' = [kind EXCEPT ![g] = t]
      /\ stage' = [h \in Grenades |-> IF h = g THEN "flying"
                                     ELSE IF stage[h] = "left" THEN "over" ELSE stage[h]]
      /\ UNCHANGED <<mimic, burst, frame, flashed, toBlind, toDestroy>>
      /\ qq = IF t = "Flash" THEN Append(q, e) ELSE q
  BY DEF Throw
<1>2. n \in Nat /\ \A i \in 1 .. n : q[i] \in Entries /\ q[i].projectile \in Grenades
  BY QueueIs DEF Entries
<1>3. /\ \A i \in 1 .. n : Waiting(i)
      /\ \A i, j \in 1 .. n : i < j => q[i].projectile < q[j].projectile
      /\ \A h \in Grenades : stage[h] = "left" => n = 0
      /\ \A h \in Grenades :
           /\ IsFlash(h) /\ stage[h] = "flying" => \E i \in 1 .. n : q[i].projectile = h
           /\ IsFlash(h) /\ h \in toDestroy => n # 0 /\ q[1].projectile = h
           /\ \A r \in Players : <<r, h>> \in flashed => n # 0 /\ q[1].projectile = h
  BY DEF QueueInv, AtHead
<1>4. \A i \in 1 .. n : q[i].projectile # g /\ q[i].projectile < g
  <2> SUFFICES ASSUME NEW i \in 1 .. n PROVE q[i].projectile # g /\ q[i].projectile < g
    OBVIOUS
  <2> DEFINE h == q[i].projectile
  <2>1. h \in Grenades /\ stage[h] # "none"
    BY <1>2, <1>3 DEF Waiting
  <2>2. h # g /\ ~(g < h)
    BY <1>1, <2>1 DEF OrderInv
  <2> HIDE DEF h
  <2>3. h < g
    BY <2>1, <2>2 DEF Grenades
  <2> QED BY <2>2, <2>3 DEF h
<1>5. /\ Len(qq) = (IF t = "Flash" THEN n + 1 ELSE n)
      /\ \A i \in 1 .. n : qq[i] = q[i]
      /\ t = "Flash" => qq[n + 1] = e
  <2>1. e \in Entries /\ q \in Seq(Entries)
    BY DEF Entries, FlashTypes
  <2> HIDE DEF e, q, n, qq
  <2> QED BY <1>1, <2>1, AppendProperties DEF n
<1>6. ASSUME NEW i \in 1 .. n PROVE Waiting(i)'
  <2> DEFINE h == q[i].projectile
  <2>1. h \in Grenades /\ h # g /\ qq[i] = q[i] /\ Waiting(i)
    BY <1>2, <1>3, <1>4, <1>5
  <2>2. kind'[h] = kind[h] /\ stage'[h] = stage[h]
    BY <1>1, <2>1 DEF Types, Waiting
  <2> QED BY <1>1, <2>1, <2>2 DEF Waiting, IsFlash
<1>7. ASSUME t = "Flash", NEW i \in Nat, i = n + 1 PROVE Waiting(i)'
  <2>1. qq[i] = e
    BY <1>5, <1>7
  <2>2. \A r \in Players : <<r, g>> \notin flashed
    BY <1>1, <1>7 DEF BurstInv, Types
  <2>3. stage'[g] = "flying" /\ kind'[g] = "Flash"
    BY <1>1, <1>7 DEF Types
  <2>4. e.projectile = g /\ e.flashed = {} /\ e.exploded = 0
    OBVIOUS
  <2>5. {r \in Players : <<r, g>> \in flashed' /\ <<r, g>> \notin toBlind'} = {}
    BY <1>1, <2>2
  <2> HIDE DEF e, n
  <2> QED BY <2>1, <2>3, <2>4, <2>5 DEF Waiting, IsFlash
<1> HIDE DEF q, qq, n, e
<1>8. /\ \A i \in 1 .. Len(qq) : i \in 1 .. n \/ (t = "Flash" /\ i = n + 1)
      /\ \A i \in 1 .. n : i \in 1 .. Len(qq)
      /\ t = "Flash" => n + 1 \in 1 .. Len(qq)
  BY <1>2, <1>5
<1>9. ASSUME NEW i \in 1 .. Len(qq) PROVE Waiting(i)'
  <2>1. CASE i \in 1 .. n
    BY <1>6, <2>1
  <2>2. CASE t = "Flash" /\ i = n + 1
    BY <1>2, <1>7, <2>2
  <2> QED BY <1>8, <2>1, <2>2
<1>10. ASSUME NEW i \in 1 .. Len(qq), NEW j \in 1 .. Len(qq), i < j
       PROVE  qq[i].projectile < qq[j].projectile
  <2>1. i \in 1 .. n
    BY <1>2, <1>8, <1>10
  <2>2. CASE j \in 1 .. n
    BY <1>3, <1>5, <1>10, <2>1, <2>2
  <2>3. CASE t = "Flash" /\ j = n + 1
    <3>1. qq[j].projectile = g
      BY <1>5, <2>3 DEF e
    <3> QED BY <1>4, <1>5, <2>1, <3>1
  <2> QED BY <1>8, <2>2, <2>3
<1>11. \A h \in Grenades : stage'[h] # "left"
  BY <1>1
<1>12. ASSUME NEW h \in Grenades
       PROVE  /\ IsFlash(h)' /\ stage'[h] = "flying" => \E i \in 1 .. Len(qq) : qq[i].projectile = h
              /\ IsFlash(h)' /\ h \in toDestroy' => Len(qq) # 0 /\ qq[1].projectile = h
              /\ \A r \in Players : <<r, h>> \in flashed' => Len(qq) # 0 /\ qq[1].projectile = h
  <2>1. CASE h = g
    <3>1. g \notin toDestroy /\ \A r \in Players : <<r, g>> \notin flashed
      BY <1>1 DEF LiveInv, BurstInv, Types
    <3>2. kind'[g] = t /\ stage'[g] = "flying"
      BY <1>1 DEF Types
    <3>3. t = "Flash" => qq[n + 1].projectile = g
      BY <1>5 DEF e
    <3> QED BY <1>1, <1>8, <2>1, <3>1, <3>2, <3>3 DEF IsFlash
  <2>2. CASE h # g
    <3>1. kind'[h] = kind[h] /\ (stage'[h] = "flying" => stage[h] = "flying")
      BY <1>1, <2>2 DEF Types
    <3>2. n # 0 => Len(qq) # 0 /\ qq[1] = q[1]
      BY <1>2, <1>5
    <3> QED BY <1>1, <1>3, <1>5, <1>8, <3>1, <3>2 DEF IsFlash
  <2> QED BY <2>1, <2>2
<1> QED
  BY <1>9, <1>10, <1>11, <1>12 DEF QueueInv, AtHead, qq

LEMMA QueueBursts ==
  ASSUME BurstsApart, StateInv, FlashInv,
         NEW g \in Grenades, NEW blinded \in SUBSET Players, FlashBursts(g, blinded)
  PROVE  QueueInv'
<1> USE DEF StateInv, FlashInv
<1> SUFFICES ASSUME mimic PROVE QueueInv'
  BY DEF QueueInv, FlashBursts
<1> DEFINE q == flyingFlashbangs
           n == Len(q)
<1>1. /\ stage[g] = "flying" /\ kind[g] = "Flash"
      /\ stage' = [stage EXCEPT ![g] = "over"] /\ burst' = [burst EXCEPT ![g] = frame]
      /\ UNCHANGED <<mimic, kind, frame, flyingFlashbangs>>
      /\ flashed' = flashed \cup (blinded \X {g}) /\ toBlind' = toBlind \cup (blinded \X {g})
      /\ toDestroy' = toDestroy \cup {g}
  BY DEF FlashBursts
<1>2. n \in Nat /\ \A i \in 1 .. n : q[i] \in Entries /\ q[i].projectile \in Grenades
  BY QueueIs DEF Entries
<1>3. /\ \A i \in 1 .. n : Waiting(i)
      /\ \A i, j \in 1 .. n : i < j => q[i].projectile < q[j].projectile
      /\ \A h \in Grenades : stage[h] = "left" => n = 0
      /\ \A h \in Grenades :
           /\ IsFlash(h) /\ stage[h] = "flying" => \E i \in 1 .. n : q[i].projectile = h
           /\ IsFlash(h) /\ h \in toDestroy => n # 0 /\ q[1].projectile = h
           /\ \A r \in Players : <<r, h>> \in flashed => n # 0 /\ q[1].projectile = h
  BY DEF QueueInv, AtHead
<1>4. /\ \A h \in Grenades : burst[h] \in Nat /\ burst[h] <= frame
      /\ frame \in Nat \ {0} /\ burst[g] = 0
  BY <1>1 DEF Types, FlashTypes, BurstInv
<1>5. n # 0 /\ 1 \in 1 .. n /\ q[1].projectile = g
  <2>1. PICK i \in 1 .. n : q[i].projectile = g
    BY <1>1, <1>3 DEF IsFlash
  <2>2. 1 \in 1 .. n
    BY <1>2, <2>1
  <2> DEFINE h == q[1].projectile
  <2>3. h \in Grenades /\ IsFlash(h) /\ stage[h] \in {"flying", "over"}
    BY <1>2, <1>3, <2>2 DEF Waiting
  <2>4. i # 1 => h < g /\ h # g
    <3>1. i # 1 => 1 < i
      BY <1>2, <2>1
    <3>2. i # 1 => h < g
      BY <1>3, <2>1, <2>2, <3>1
    <3> HIDE DEF h
    <3> QED BY <2>3, <3>2 DEF Grenades
  <2>5. i # 1 => stage[h] = "over"
    BY <2>3, <2>4 DEF FlashBursts, IsFlash
  <2>6. stage[h] = "over" => burst[h] # 0 /\ frame <= burst[h] + 1
    BY <1>3, <2>2 DEF Waiting
  <2>7. i # 1 /\ burst[h] # 0 => frame - burst[h] >= Spacing
    BY <2>3, <2>4 DEF FlashBursts, IsFlash
  <2>8. i = 1
    <3> HIDE DEF h
    <3> QED BY <1>4, <2>3, <2>5, <2>6, <2>7, GrenadesAssumption DEF BurstsApart
  <2> QED BY <1>2, <2>1, <2>2, <2>8
<1>6. /\ \A r \in Players : <<r, g>> \notin flashed /\ <<r, g>> \notin toBlind
      /\ \A r \in Players, h \in Grenades : <<r, h>> \notin flashed
      /\ g \notin toDestroy
  BY <1>1, <1>3, <1>4, <1>5 DEF BurstInv, FlashTypes, LiveInv, InFlight
<1>7. Waiting(1)'
  <2>1. Waiting(1)
    BY <1>3, <1>5
  <2>2. q[1].flashed = {} /\ q[1].exploded = 0
    BY <1>1, <1>5, <1>6, <2>1 DEF Waiting
  <2>3. stage'[g] = "over" /\ burst'[g] = frame
    BY <1>1 DEF Types, FlashTypes
  <2>4. \A r \in Players : <<r, g>> \in flashed' => <<r, g>> \in toBlind'
    BY <1>1, <1>6
  <2>5. frame <= burst'[g] + 1 /\ burst'[g] # 0
    BY <1>4, <2>3
  <2> QED BY <1>1, <1>5, <2>2, <2>3, <2>4, <2>5 DEF Waiting, IsFlash
<1>8. ASSUME NEW i \in 1 .. n, i # 1 PROVE Waiting(i)'
  <2> DEFINE h == q[i].projectile
  <2>1. h \in Grenades /\ Waiting(i)
    BY <1>2, <1>3
  <2>2. h # g
    <3>1. 1 < i
      BY <1>2, <1>8
    <3>2. q[1].projectile < h
      BY <1>3, <1>5, <3>1
    <3> HIDE DEF h
    <3> QED BY <1>5, <2>1, <3>2 DEF Grenades
  <2>3. stage'[h] = stage[h] /\ burst'[h] = burst[h] /\ (h \in toDestroy' <=> h \in toDestroy)
    BY <1>1, <2>1, <2>2 DEF Types, FlashTypes
  <2>4. \A r \in Players : /\ <<r, h>> \in flashed' <=> <<r, h>> \in flashed
                           /\ <<r, h>> \in toBlind' <=> <<r, h>> \in toBlind
    BY <1>1, <2>2
  <2> QED BY <1>1, <2>1, <2>3, <2>4 DEF Waiting, IsFlash
<1>9. \A i \in 1 .. n : Waiting(i)'
  BY <1>7, <1>8
<1>10. \A h \in Grenades :
         /\ stage'[h] = "left" => stage[h] = "left"
         /\ stage'[h] = "flying" => stage[h] = "flying"
  BY <1>1 DEF Types
<1>11. ASSUME NEW h \in Grenades
       PROVE  /\ IsFlash(h) /\ h \in toDestroy' => q[1].projectile = h
              /\ \A r \in Players : <<r, h>> \in flashed' => q[1].projectile = h
  BY <1>1, <1>3, <1>5
<1> QED
  BY <1>1, <1>3, <1>5, <1>9, <1>10, <1>11 DEF QueueInv, AtHead, IsFlash

LEMMA QueueFlashes ==
  ASSUME StateInv, FlashInv, NEW p \in Players, NEW g \in Grenades, FlashDuration(p, g)
  PROVE  QueueInv'
<1> USE DEF StateInv, FlashInv
<1> SUFFICES ASSUME mimic PROVE QueueInv'
  BY DEF QueueInv, FlashDuration, server
<1> DEFINE q == flyingFlashbangs
           n == Len(q)
           qq == flyingFlashbangs'
<1>1. /\ <<p, g>> \in toBlind /\ toBlind' = toBlind \ {<<p, g>>} /\ <<p, g>> \in flashed
      /\ UNCHANGED <<mimic, kind, burst, frame, stage, toDestroy, flashed>>
  BY DEF FlashDuration, server, FlashTypes
<1>2. n \in Nat /\ \A i \in 1 .. n : q[i] \in Entries /\ q[i].projectile \in Grenades
  BY QueueIs DEF Entries
<1>3. AtHead(g) /\ n # 0 /\ q # << >> /\ 1 \in 1 .. n /\ q[1].projectile = g
  <2>1. AtHead(g)
    BY <1>1 DEF QueueInv
  <2> QED BY <1>2, <2>1, QueueIs DEF AtHead
<1>4. /\ Len(qq) = n /\ qq[1] = [q[1] EXCEPT !.flashed = q[1].flashed \cup {p}]
      /\ \A i \in 1 .. n : i # 1 => qq[i] = q[i]
  BY <1>3, Marked DEF FlashDuration
<1>5. /\ qq[1].projectile = q[1].projectile /\ qq[1].exploded = q[1].exploded
      /\ qq[1].flashed = q[1].flashed \cup {p}
  <2>1. q[1] \in Entries
    BY <1>2, <1>3
  <2> HIDE DEF q, qq
  <2> QED BY <1>4, <2>1 DEF Entries
<1>6. \A i \in 1 .. n : qq[i].projectile = q[i].projectile
  BY <1>4, <1>5
<1>7. Waiting(1)'
  <2>1. Waiting(1)
    BY <1>3 DEF QueueInv
  <2>2. qq[1].flashed = {r \in Players : <<r, g>> \in flashed' /\ <<r, g>> \notin toBlind'}
    BY <1>1, <1>3, <1>5, <2>1 DEF Waiting
  <2> QED BY <1>1, <1>3, <1>5, <2>1, <2>2 DEF Waiting, IsFlash
<1>8. ASSUME NEW i \in 1 .. n, i # 1 PROVE Waiting(i)'
  <2> DEFINE h == q[i].projectile
  <2>1. h \in Grenades /\ Waiting(i) /\ qq[i] = q[i]
    BY <1>2, <1>4, <1>8 DEF QueueInv
  <2>2. h # g
    <3>1. 1 < i
      BY <1>2, <1>8
    <3>2. q[1].projectile < h
      BY <1>3, <3>1 DEF QueueInv
    <3> HIDE DEF h
    <3> QED BY <1>3, <2>1, <3>2 DEF Grenades
  <2>3. \A r \in Players : <<r, h>> \in toBlind' <=> <<r, h>> \in toBlind
    BY <1>1, <2>2
  <2> QED BY <1>1, <2>1, <2>3 DEF Waiting, IsFlash
<1>9. \A i \in 1 .. n : Waiting(i)'
  BY <1>7, <1>8
<1>10. /\ \A i \in 1 .. n, j \in 1 .. n : i < j => qq[i].projectile < qq[j].projectile
       /\ \A h \in Grenades : stage[h] = "left" => n = 0
       /\ \A h \in Grenades :
            /\ IsFlash(h) /\ stage[h] = "flying" => \E i \in 1 .. n : qq[i].projectile = h
            /\ IsFlash(h) /\ h \in toDestroy => qq[1].projectile = h
            /\ \A r \in Players : <<r, h>> \in flashed => qq[1].projectile = h
  BY <1>3, <1>5, <1>6 DEF QueueInv, AtHead
<1> QED
  BY <1>1, <1>3, <1>4, <1>9, <1>10 DEF QueueInv, AtHead, IsFlash

LEMMA QueueDestroyed ==
  ASSUME StateInv, FlashInv, NEW g \in Grenades, Destroy(g)
  PROVE  QueueInv'
<1> USE DEF StateInv, FlashInv
<1>0. /\ UNCHANGED <<mimic, kind, burst, frame, flashed, toBlind, stage>>
      /\ g \in toDestroy /\ toDestroy' = toDestroy \ {g}
  BY OnDestroyIs DEF Destroy, server
<1>1. CASE ~(IsFlash(g) /\ mimic)
  <2>1. UNCHANGED flyingFlashbangs
    BY <1>1, OnDestroyQueue DEF Destroy
  <2>2. CASE mimic
    BY <1>0, <1>1, <2>1, <2>2, QueueSame
  <2>3. CASE ~mimic
    BY <1>0, <2>3 DEF QueueInv
  <2> QED BY <2>2, <2>3
<1>2. CASE IsFlash(g) /\ mimic
  <2> DEFINE q == flyingFlashbangs
             n == Len(q)
             qq == flyingFlashbangs'
  <2>1. n \in Nat /\ \A i \in 1 .. n : q[i] \in Entries /\ q[i].projectile \in Grenades
    BY QueueIs DEF Entries
  <2>2. n # 0 /\ q # << >> /\ 1 \in 1 .. n /\ q[1].projectile = g
    <3>1. AtHead(g)
      BY <1>0, <1>2 DEF QueueInv
    <3> QED BY <2>1, <3>1, QueueIs DEF AtHead
  <2>3. /\ Len(qq) = n /\ qq[1] = [q[1] EXCEPT !.exploded = frame]
        /\ \A i \in 1 .. n : i # 1 => qq[i] = q[i]
    <3>1. frame \in Nat
      BY DEF Types
    <3> QED BY <1>2, <2>2, <3>1, Exploded, OnDestroyQueue DEF Destroy
  <2>4. /\ qq[1].projectile = q[1].projectile /\ qq[1].flashed = q[1].flashed
        /\ qq[1].exploded = frame
    <3>1. q[1] \in Entries
      BY <2>1, <2>2
    <3> HIDE DEF q, qq
    <3> QED BY <2>3, <3>1 DEF Entries
  <2>5. \A i \in 1 .. n : qq[i].projectile = q[i].projectile
    BY <2>3, <2>4
  <2>6. Waiting(1)'
    <3>1. Waiting(1) /\ burst[g] = frame
      BY <1>0, <1>2, <2>2 DEF QueueInv, BurstInv
    <3>2. stage[g] = "over" /\ g \notin toDestroy'
      BY <1>0, <2>2, <3>1 DEF Waiting, LiveInv, InFlight
    <3> QED BY <1>0, <2>2, <2>4, <3>1, <3>2 DEF Waiting, IsFlash
  <2>7. ASSUME NEW i \in 1 .. n, i # 1 PROVE Waiting(i)'
    <3> DEFINE h == q[i].projectile
    <3>1. h \in Grenades /\ Waiting(i) /\ qq[i] = q[i]
      BY <1>2, <2>1, <2>3, <2>7 DEF QueueInv
    <3>2. h # g
      <4>1. 1 < i
        BY <2>1, <2>7
      <4>2. q[1].projectile < h
        BY <1>2, <2>2, <4>1 DEF QueueInv
      <4> HIDE DEF h
      <4> QED BY <2>2, <3>1, <4>2 DEF Grenades
    <3> QED BY <1>0, <3>1, <3>2 DEF Waiting, IsFlash
  <2>8. \A i \in 1 .. n : Waiting(i)'
    BY <2>6, <2>7
  <2>9. /\ \A i \in 1 .. n, j \in 1 .. n : i < j => qq[i].projectile < qq[j].projectile
        /\ \A h \in Grenades : stage[h] = "left" => n = 0
        /\ \A h \in Grenades :
             /\ IsFlash(h) /\ stage[h] = "flying" => \E i \in 1 .. n : qq[i].projectile = h
             /\ IsFlash(h) /\ h \in toDestroy => qq[1].projectile = h
             /\ \A r \in Players : <<r, h>> \in flashed => qq[1].projectile = h
    BY <1>2, <2>2, <2>4, <2>5 DEF QueueInv, AtHead
  <2> QED BY <1>0, <2>2, <2>3, <2>8, <2>9 DEF QueueInv, AtHead, IsFlash
<1> QED
  BY <1>1, <1>2

LEMMA QueueLeft ==
  ASSUME StateInv, FlashInv, NEW g \in Grenades, DestroyLeft(g)
  PROVE  QueueInv'
<1> USE DEF StateInv, FlashInv
<1>1. /\ UNCHANGED <<mimic, kind, burst, frame, flashed, toBlind, toDestroy>>
      /\ stage[g] = "left" /\ stage' = [stage EXCEPT ![g] = "over"]
  BY OnDestroyIs DEF DestroyLeft, server
<1> SUFFICES ASSUME mimic PROVE QueueInv'
  BY <1>1 DEF QueueInv
<1>2. Len(flyingFlashbangs) = 0
  BY <1>1 DEF QueueInv
<1>3. UNCHANGED flyingFlashbangs
  BY <1>2, QueueIs, OnDestroyQueue DEF DestroyLeft
<1>4. \A h \in Grenades : /\ stage'[h] = "left" => stage[h] = "left"
                          /\ stage'[h] = "flying" => stage[h] = "flying"
  BY <1>1 DEF Types
<1> QED
  BY <1>1, <1>2, <1>3, <1>4 DEF QueueInv, AtHead, IsFlash

(* At the end of a frame the queue loses its head when somebody was        *)
(* flashed, or when the head burst in the frame before.                    *)
LEMMA QueueEnds ==
  ASSUME StateInv, FlashInv, EndFrame
  PROVE  QueueInv' /\ (mimic => Tells(told', flashed))
<1> USE DEF StateInv, FlashInv
<1>0. /\ UNCHANGED <<mimic, kind, burst, toDestroy, toBlind, stage>>
      /\ toDestroy = {} /\ toBlind = {} /\ flashed' = {} /\ frame' = frame + 1
  BY DEF EndFrame, server
<1> SUFFICES ASSUME mimic PROVE QueueInv' /\ Tells(told', flashed)
  BY <1>0 DEF QueueInv
<1> DEFINE q == flyingFlashbangs
           n == Len(q)
           qq == flyingFlashbangs'
<1>1. n \in Nat /\ \A i \in 1 .. n : q[i] \in Entries /\ q[i].projectile \in Grenades
  BY QueueIs DEF Entries
<1>2. /\ frame \in Nat \ {0} /\ \A g \in Grenades : burst[g] \in Nat
      /\ \A g \in Grenades, p \in Players : <<p, g>> \in flashed => burst[g] = frame
      /\ \A g \in Grenades : burst[g] # 0 => stage[g] = "over"
  BY DEF Types, FlashTypes, BurstInv
<1>3. /\ \A i \in 1 .. n : Waiting(i)
      /\ \A i \in 1 .. n, j \in 1 .. n : i < j => q[i].projectile < q[j].projectile
      /\ \A h \in Grenades : stage[h] = "left" => n = 0
      /\ \A h \in Grenades :
           /\ IsFlash(h) /\ stage[h] = "flying" => \E i \in 1 .. n : q[i].projectile = h
           /\ \A r \in Players : <<r, h>> \in flashed => n # 0 /\ q[1].projectile = h
  BY DEF QueueInv, AtHead
<1>4. ASSUME NEW i \in 1 .. n
      PROVE  /\ q[i].flashed = {p \in Players : <<p, q[i].projectile>> \in flashed}
             /\ stage[q[i].projectile] = "over" =>
                  /\ i = 1 /\ burst[q[i].projectile] # 0
                  /\ q[i].exploded = burst[q[i].projectile]
             /\ stage[q[i].projectile] = "flying" => q[i].exploded = 0 /\ q[i].flashed = {}
             /\ IsFlash(q[i].projectile) /\ stage[q[i].projectile] \in {"flying", "over"}
  <2> DEFINE e == q[i]
             h == e.projectile
  <2>1. Waiting(i) /\ h \in Grenades
    BY <1>1, <1>3
  <2>2. /\ IsFlash(h) /\ stage[h] \in {"flying", "over"}
        /\ e.flashed = {p \in Players : <<p, h>> \in flashed /\ <<p, h>> \notin toBlind}
        /\ stage[h] = "flying" => e.exploded = 0
        /\ stage[h] = "over" => /\ i = 1 /\ burst[h] # 0
                                /\ e.exploded = IF h \in toDestroy THEN 0 ELSE burst[h]
    BY <2>1 DEF Waiting
  <2> HIDE DEF e, h
  <2>3. e.flashed = {p \in Players : <<p, h>> \in flashed}
    BY <1>0, <2>2
  <2>4. stage[h] = "flying" => \A p \in Players : <<p, h>> \notin flashed
    <3>1. stage[h] = "flying" => burst[h] = 0
      BY <1>2, <2>1
    <3> QED BY <1>2, <2>1, <3>1
  <2>5. stage[h] = "flying" => e.flashed = {}
    BY <2>3, <2>4
  <2> QED BY <1>0, <2>2, <2>3, <2>5 DEF e, h
<1>5. CASE q = << >>
  <2>1. n = 0
    BY <1>5, QueueIs
  <2>2. qq = << >> /\ told' = {}
    BY <1>5 DEF EndFrame, Flying, FlyingFlashed
  <2>3. flashed = {}
    BY <1>3, <2>1 DEF FlashTypes
  <2>4. Len(qq) = 0
    BY <2>2
  <2>5. Tells(told', flashed)
    BY <2>2, <2>3 DEF Tells
  <2> QED BY <1>0, <1>3, <2>1, <2>2, <2>3, <2>4, <2>5 DEF QueueInv, AtHead, IsFlash
<1>6. CASE q # << >>
  <2> DEFINE g == q[1].projectile
             gone == q[1].flashed # {} \/ (q[1].exploded > 0 /\ q[1].exploded < frame)
  <2>1. n # 0 /\ 1 \in 1 .. n /\ Head(q) = q[1] /\ g \in Grenades
    BY <1>1, <1>6, QueueIs
  <2>2. Tells(told', flashed)
    <3>1. told' = {PlayerFlashed(p, thrower[g], g) : p \in q[1].flashed}
      BY <1>6, <2>1 DEF EndFrame, FlyingFlashed
    <3>2. q[1].flashed = {p \in Players : <<p, g>> \in flashed}
      BY <1>4, <2>1
    <3>3. \A x \in flashed : x = <<x[1], x[2]>> /\ x[1] \in Players /\ x[2] \in Grenades
      BY DEF FlashTypes
    <3>4. \A x \in flashed : x[2] = g
      BY <1>3, <3>3
    <3>5. stage[g] # "none"
      BY <1>4, <2>1
    <3> HIDE DEF g, q
    <3>6. \A p : p \in q[1].flashed <=> \E x \in flashed : x[1] = p
      BY <3>2, <3>3, <3>4
    <3>7. \A t \in told' : /\ t.player \in q[1].flashed
                          /\ t.attacker = thrower[g] /\ t.projectile = g
      BY <3>1 DEF PlayerFlashed
    <3>8. \A p \in q[1].flashed : \E t \in told' : t.player = p
      <4> TAKE p \in q[1].flashed
      <4>1. PlayerFlashed(p, thrower[g], g) \in told'
        BY <3>1
      <4>2. PlayerFlashed(p, thrower[g], g).player = p
        BY DEF PlayerFlashed
      <4> QED BY <4>1, <4>2
    <3>9. {t.player : t \in told'} = {f[1] : f \in flashed}
      BY <3>6, <3>7, <3>8
    <3>10. ASSUME NEW t \in told'
           PROVE  /\ t.projectile \in Grenades \cup {0}
                  /\ t.projectile # 0 =>
                       stage[t.projectile] # "none" /\ t.attacker = thrower[t.projectile]
                  /\ \A f \in flashed : t.projectile = f[2]
      <4>1. t.attacker = thrower[g] /\ t.projectile = g
        BY <3>7
      <4>2. g \in Grenades
        BY <2>1
      <4> QED BY <3>4, <3>5, <4>1, <4>2
    <3> QED BY <3>9, <3>10 DEF Tells
  <2>3. qq = IF gone THEN Tail(q) ELSE q
    BY <1>6, <2>1 DEF EndFrame, Flying
  <2>4. CASE ~gone
    <3>1. qq = q
      BY <2>3, <2>4
    <3>2. ASSUME NEW i \in 1 .. n PROVE Waiting(i)'
      <4> DEFINE h == q[i].projectile
      <4>1. q[i].flashed = {}
        <5>1. i = 1 \/ stage[h] = "flying"
          BY <1>4
        <5> QED BY <1>4, <2>4, <5>1
      <4>2. stage[h] = "over" => frame' <= burst[h] + 1
        <5> SUFFICES ASSUME stage[h] = "over" PROVE frame' <= burst[h] + 1
          OBVIOUS
        <5>1. i = 1 /\ burst[h] # 0 /\ q[1].exploded = burst[h] /\ burst[h] \in Nat
          BY <1>1, <1>2, <1>4
        <5>2. ~(burst[h] > 0 /\ burst[h] < frame)
          BY <2>4, <5>1
        <5> HIDE DEF h
        <5> QED BY <1>0, <1>2, <5>1, <5>2
      <4>3. qq[i] = q[i]
        BY <3>1
      <4> QED BY <1>0, <1>4, <4>1, <4>2, <4>3 DEF Waiting, IsFlash
    <3> QED BY <1>0, <1>3, <2>1, <2>2, <3>1, <3>2 DEF QueueInv, AtHead, IsFlash
  <2>5. CASE gone
    <3> DEFINE m == Len(qq)
    <3>1. qq = Tail(q)
      BY <2>3, <2>5
    <3>2. m = n - 1 /\ \A i \in 1 .. m : qq[i] = q[i + 1]
      <4>1. q \in Seq(Entries)
        BY DEF FlashTypes
      <4> HIDE DEF q, qq
      <4> QED BY <1>6, <3>1, <4>1, HeadTailProperties
    <3>3. \A i \in 1 .. m : i + 1 \in 1 .. n /\ i + 1 # 1
      <4> HIDE DEF m, n
      <4> QED BY <1>1, <3>2
    <3>4. \A i \in 1 .. n : i # 1 => \E j \in 1 .. m : j + 1 = i /\ qq[j] = q[i]
      <4> SUFFICES ASSUME NEW i \in 1 .. n, i # 1
                   PROVE  \E j \in 1 .. m : j + 1 = i /\ qq[j] = q[i]
        OBVIOUS
      <4>1. i - 1 \in 1 .. m /\ (i - 1) + 1 = i
        <5> HIDE DEF m, n
        <5> QED BY <1>1, <3>2
      <4> HIDE DEF m, n, q, qq
      <4> QED BY <3>2, <4>1
    <3>5. stage[g] = "over"
      <4>1. stage[g] # "flying"
        BY <1>4, <2>1, <2>5
      <4> QED BY <1>4, <2>1, <4>1
    <3>6. ASSUME NEW i \in 1 .. m PROVE Waiting(i)'
      <4> DEFINE h == q[i + 1].projectile
      <4>1. i + 1 \in 1 .. n /\ i + 1 # 1 /\ qq[i] = q[i + 1]
        BY <3>2, <3>3
      <4>2. stage[h] = "flying" /\ IsFlash(h) /\ q[i + 1].exploded = 0 /\ q[i + 1].flashed = {}
        BY <1>4, <4>1
      <4> QED BY <1>0, <4>1, <4>2 DEF Waiting, IsFlash
    <3>7. ASSUME NEW i \in 1 .. m, NEW j \in 1 .. m, i < j
          PROVE  qq[i].projectile < qq[j].projectile
      <4>1. i + 1 < j + 1
        BY <3>7
      <4> QED BY <1>3, <3>2, <3>3, <4>1
    <3>8. \A h \in Grenades : stage[h] # "left"
      BY <1>3, <2>1
    <3>9. ASSUME NEW h \in Grenades, IsFlash(h), stage[h] = "flying"
          PROVE  \E i \in 1 .. m : qq[i].projectile = h
      <4>1. PICK i \in 1 .. n : q[i].projectile = h
        BY <1>3, <3>9
      <4>2. i # 1
        BY <3>5, <3>9, <4>1
      <4> QED BY <3>4, <4>1, <4>2
    <3> QED BY <1>0, <2>2, <3>6, <3>7, <3>8, <3>9 DEF QueueInv, AtHead, IsFlash
  <2> QED BY <2>4, <2>5
<1> QED
  BY <1>5, <1>6

LEMMA QueueNext == ASSUME BurstsApart, StateInv, FlashInv, Next PROVE QueueInv'
<1> USE DEF StateInv, FlashInv
<1>1. ASSUME NEW g \in Grenades, Detonate(g) PROVE QueueInv'
  <2>1. \A h \in Grenades : IsFlash(h) => /\ stage'[h] = stage[h]
                                          /\ h \in toDestroy' <=> h \in toDestroy
    BY <1>1 DEF Detonate, Types, IsFlash
  <2>2. \A h \in Grenades : stage'[h] = "left" => stage[h] = "left"
    BY <1>1 DEF Detonate, Types
  <2> QED BY <1>1, <2>1, <2>2, QueueSame DEF Detonate, server
<1>2. ASSUME NEW g \in Grenades, Expire(g) PROVE QueueInv'
  <2>1. \A h \in Grenades : IsFlash(h) => /\ stage'[h] = stage[h]
                                          /\ h \in toDestroy' <=> h \in toDestroy
    BY <1>2 DEF Expire, Types, IsFlash
  <2>2. \A h \in Grenades : stage'[h] = "left" => stage[h] = "left"
    BY <1>2 DEF Expire, Types
  <2> QED BY <1>2, <2>1, <2>2, QueueSame DEF Expire, server
<1>3. ASSUME NEW g \in Grenades, InfernoCreated(g) PROVE QueueInv'
  BY <1>3, QueueSame DEF InfernoCreated, server
<1>4. ASSUME NEW g \in Grenades, InfernoDestroyed(g) PROVE QueueInv'
  <2>1. \A h \in Grenades : IsFlash(h) => stage'[h] = stage[h]
    BY <1>4 DEF InfernoDestroyed, Types, IsFlash, LiveInv, Fires
  <2>2. \A h \in Grenades : stage'[h] = "left" => stage[h] = "left"
    BY <1>4 DEF InfernoDestroyed, Types
  <2> QED BY <1>4, <2>1, <2>2, QueueSame DEF InfernoDestroyed, server
<1>5. CASE ClearGrenadeProjectiles
  <2>1. /\ flyingFlashbangs' = << >> /\ flashed = {} /\ UNCHANGED flashed
        /\ toDestroy = {} /\ UNCHANGED toDestroy
        /\ \A g \in Grenades : stage'[g] # "flying"
    BY <1>5 DEF ClearGrenadeProjectiles, Active
  <2>2. Len(flyingFlashbangs') = 0
    BY <2>1
  <2> QED BY <2>1, <2>2 DEF QueueInv, AtHead
<1> QED
  BY <1>1, <1>2, <1>3, <1>4, <1>5, QueueThrow, QueueBursts, QueueFlashes, QueueDestroyed,
     QueueLeft, QueueEnds DEF Next

---------------------------------------------------------------------------
(* The handlers of game events                                             *)
LEMMA BlindSame ==
  ASSUME BlindInv, UNCHANGED <<mimic, delayedEventHandlers, flashed, lastFlash, thrower>>,
         \A g \in Grenades, p \in Players :
           <<p, g>> \in flashed /\ g \in toDestroy => g \in toDestroy'
  PROVE  BlindInv'
BY DEF BlindInv

LEMMA BlindBursts ==
  ASSUME BurstsApart, StateInv, FlashInv,
         NEW g \in Grenades, NEW blinded \in SUBSET Players, FlashBursts(g, blinded)
  PROVE  BlindInv'
<1> USE DEF StateInv, FlashInv
<1> SUFFICES ASSUME ~mimic PROVE BlindInv'
  BY DEF BlindInv, FlashBursts
<1> DEFINE s == delayedEventHandlers
           b == Blinds(blinded)
           ss == delayedEventHandlers'
<1>1. /\ UNCHANGED <<mimic, thrower>> /\ toDestroy' = toDestroy \cup {g}
      /\ flashed' = flashed \cup (blinded \X {g}) /\ ss = s \o b
  BY DEF FlashBursts, FlashTypes, Blinds
<1>2. \A p \in Players, h \in Grenades : <<p, h>> \notin flashed
  <2> SUFFICES ASSUME NEW p \in Players, NEW h \in Grenades, <<p, h>> \in flashed PROVE FALSE
    OBVIOUS
  <2>1. burst[h] = frame /\ frame \in Nat \ {0}
    BY DEF BurstInv, Types
  <2>2. h # g /\ kind[h] = "Flash"
    BY <2>1 DEF BurstInv, IsFlash, FlashBursts
  <2>3. frame - burst[h] >= Spacing
    BY <2>1, <2>2 DEF FlashBursts
  <2> QED BY <2>1, <2>3, GrenadesAssumption DEF BurstsApart
<1>3. /\ s \in Seq(Delays) /\ b \in Seq(Delays)
      /\ Len(s) \in Nat /\ Len(b) \in Nat
      /\ \A i \in 1 .. Len(b) : b[i].do = "blind" /\ b[i].who \in blinded
      /\ \A p \in blinded : \E i \in 1 .. Len(b) : b[i].who = p
  BY BlindsAre, LenProperties DEF Types
<1> HIDE DEF b
<1>4. /\ Len(ss) = Len(s) + Len(b)
      /\ \A i \in 1 .. Len(s) + Len(b) : ss[i] = IF i <= Len(s) THEN s[i] ELSE b[i - Len(s)]
  <2> HIDE DEF s, ss
  <2> QED BY <1>1, <1>3, ConcatProperties
<1>5. \A i \in 1 .. Len(s) : s[i].do # "blind"
  <2> SUFFICES ASSUME NEW i \in 1 .. Len(s), s[i].do = "blind" PROVE FALSE
    OBVIOUS
  <2>1. s[i] \in Delays
    BY <1>3, ElementOfSeq
  <2>2. s[i].who \in Players
    BY <2>1 DEF Delays
  <2> QED BY <1>2, <2>2 DEF BlindInv
<1>6. ASSUME NEW i \in 1 .. Len(ss), ss[i].do = "blind"
      PROVE  \E h \in Grenades : <<ss[i].who, h>> \in flashed'
  <2>1. i > Len(s) /\ i - Len(s) \in 1 .. Len(b) /\ ss[i] = b[i - Len(s)]
    <3> HIDE DEF s, ss
    <3>1. i \in 1 .. Len(s) \/ i > Len(s)
      BY <1>3, <1>4
    <3>2. i \in 1 .. Len(s) => ss[i] = s[i]
      BY <1>3, <1>4
    <3>3. i > Len(s)
      BY <1>5, <1>6, <3>1, <3>2
    <3> QED BY <1>3, <1>4, <3>3
  <2>2. ss[i].who \in blinded
    BY <1>3, <2>1
  <2> QED BY <1>1, <2>2
<1>7. ASSUME NEW p \in Players, NEW h \in Grenades, <<p, h>> \in flashed'
      PROVE  /\ h = g
             /\ \E i \in 1 .. Len(ss) : ss[i].do = "blind" /\ ss[i].who = p
  <2>1. h = g /\ p \in blinded
    BY <1>1, <1>2, <1>7
  <2>2. PICK j \in 1 .. Len(b) : b[j].who = p
    BY <1>3, <2>1
  <2>3. Len(s) + j \in 1 .. Len(ss) /\ ss[Len(s) + j] = b[j]
    <3> HIDE DEF s, ss
    <3>1. Len(s) + j \in 1 .. Len(s) + Len(b) /\ ~(Len(s) + j <= Len(s))
          /\ Len(s) + j - Len(s) = j
      BY <1>3
    <3> QED BY <1>4, <3>1
  <2> QED BY <1>3, <2>1, <2>2, <2>3
<1>8. ASSUME NEW p \in Players, NEW h \in Grenades, <<p, h>> \in flashed'
      PROVE  h \in toDestroy'
  BY <1>1, <1>7, <1>8
<1> QED
  BY <1>6, <1>7, <1>8 DEF BlindInv

LEMMA BlindNext == ASSUME BurstsApart, StateInv, FlashInv, Next PROVE BlindInv'
<1> USE DEF StateInv, FlashInv
<1>0. \A p \in Players, g \in Grenades :
        <<p, g>> \in flashed =>
          /\ stage[g] = "over" /\ IsFlash(g) /\ burst[g] = frame
          /\ \A h \in toDestroy : IsFlash(h) => h = g
  <2> SUFFICES ASSUME NEW p \in Players, NEW g \in Grenades, <<p, g>> \in flashed
               PROVE  /\ stage[g] = "over" /\ IsFlash(g) /\ burst[g] = frame
                      /\ \A h \in toDestroy : IsFlash(h) => h = g
    OBVIOUS
  <2>1. burst[g] = frame /\ frame # 0
    BY DEF BurstInv, Types
  <2> QED BY <2>1 DEF BurstInv, Types
<1>1. ASSUME NEW g \in Grenades, NEW p \in Players, NEW t \in kit, Throw(g, p, t)
      PROVE  BlindInv'
  <2>1. /\ thrower' = [thrower EXCEPT ![g] = p]
        /\ UNCHANGED <<mimic, delayedEventHandlers, flashed, lastFlash, toDestroy>>
        /\ stage[g] = "none"
    BY <1>1 DEF Throw
  <2>2. \A r \in Players, h \in Grenades : <<r, h>> \in flashed => thrower'[h] = thrower[h]
    BY <1>0, <2>1 DEF Types
  <2> QED BY <2>1, <2>2 DEF BlindInv
<1>2. ASSUME NEW g \in Grenades, NEW blinded \in SUBSET Players, FlashBursts(g, blinded)
      PROVE  BlindInv'
  BY <1>2, BlindBursts
<1>3. ASSUME NEW p \in Players, NEW g \in Grenades, FlashDuration(p, g) PROVE BlindInv'
  BY <1>3, BlindSame DEF FlashDuration, server
<1>4. ASSUME NEW g \in Grenades, Detonate(g) PROVE BlindInv'
  BY <1>4, BlindSame DEF Detonate, server
<1>5. ASSUME NEW g \in Grenades, Expire(g) PROVE BlindInv'
  <2>1. UNCHANGED <<mimic, flashed, lastFlash, thrower>> /\ toDestroy' = toDestroy \cup {g}
    BY <1>5 DEF Expire, server
  <2>2. CASE UNCHANGED delayedEventHandlers
    BY <2>1, <2>2, BlindSame
  <2>3. CASE delayedEventHandlers'
               = Append(delayedEventHandlers, [do |-> "decoy", who |-> EventUser(thrower[g])])
    <3> DEFINE s == delayedEventHandlers
               d == [do |-> "decoy", who |-> EventUser(thrower[g])]
               ss == delayedEventHandlers'
    <3>1. d \in Delays
      BY <1>5, EventUserIs DEF Delays, ThrowsInv, Expire
    <3>2. s \in Seq(Delays) /\ Len(s) \in Nat /\ d.do # "blind"
      BY LenProperties DEF Types
    <3> HIDE DEF s, d, ss
    <3>3. /\ Len(ss) = Len(s) + 1 /\ ss[Len(s) + 1] = d
          /\ \A i \in 1 .. Len(s) : ss[i] = s[i]
      BY <2>3, <3>1, <3>2, AppendProperties DEF s, d, ss
    <3>4. /\ \A i \in 1 .. Len(ss) : ss[i].do = "blind" => i \in 1 .. Len(s) /\ ss[i] = s[i]
          /\ \A i \in 1 .. Len(s) : i \in 1 .. Len(ss)
      BY <3>2, <3>3
    <3>5. ~mimic => \A i \in 1 .. Len(ss) :
                      ss[i].do = "blind" => \E h \in Grenades : <<ss[i].who, h>> \in flashed
      BY <3>4 DEF BlindInv, s
    <3>6. ~mimic => \A p \in Players, h \in Grenades :
                      <<p, h>> \in flashed =>
                        \E i \in 1 .. Len(s) : s[i].do = "blind" /\ s[i].who = p
      BY DEF BlindInv, s
    <3>7. ~mimic => \A p \in Players, h \in Grenades :
                      <<p, h>> \in flashed =>
                        \E i \in 1 .. Len(ss) : ss[i].do = "blind" /\ ss[i].who = p
      <4> SUFFICES ASSUME ~mimic, NEW p \in Players, NEW h \in Grenades, <<p, h>> \in flashed
                   PROVE  \E i \in 1 .. Len(ss) : ss[i].do = "blind" /\ ss[i].who = p
        OBVIOUS
      <4>1. PICK i \in 1 .. Len(s) : s[i].do = "blind" /\ s[i].who = p
        BY <3>6
      <4> QED BY <3>3, <3>4, <4>1
    <3> QED BY <2>1, <3>5, <3>7 DEF BlindInv, ss
  <2> QED BY <1>5, <2>2, <2>3 DEF Expire
<1>6. ASSUME NEW g \in Grenades, InfernoCreated(g) PROVE BlindInv'
  BY <1>6, BlindSame DEF InfernoCreated, server
<1>7. ASSUME NEW g \in Grenades, InfernoDestroyed(g) PROVE BlindInv'
  BY <1>7, BlindSame DEF InfernoDestroyed, server
<1>8. ASSUME NEW g \in Grenades, Destroy(g) PROVE BlindInv'
  <2>0. /\ UNCHANGED <<mimic, thrower, kind, flashed, delayedEventHandlers>>
        /\ g \in toDestroy /\ g \in grenadeProjectiles /\ toDestroy' = toDestroy \ {g}
    BY <1>8, OnDestroyIs DEF Destroy, server, LiveInv
  <2>1. CASE mimic
    BY <2>0, <2>1 DEF BlindInv
  <2>2. CASE ~mimic /\ IsFlash(g)
    <3>1. lastFlash' = [lastFlash EXCEPT !.projectileByPlayer[thrower[g]] = g]
      BY <1>8, <2>0, <2>2, OnDestroyQueue DEF Destroy
    <3>2. thrower[g] \in Players
      BY <2>0 DEF LiveInv, ThrowsInv, Types
    <3>3. lastFlash'.projectileByPlayer[thrower[g]] = g
      BY <3>1, <3>2 DEF FlashTypes
    <3>4. \A p \in Players, h \in Grenades : <<p, h>> \in flashed => h = g
      BY <1>0, <2>0, <2>2
    <3> QED BY <2>0, <2>2, <3>3, <3>4 DEF BlindInv
  <2>3. CASE ~mimic /\ ~IsFlash(g)
    <3>1. UNCHANGED lastFlash
      BY <1>8, <2>3, OnDestroyQueue DEF Destroy
    <3>2. \A p \in Players, h \in Grenades : <<p, h>> \in flashed => h # g
      BY <1>0, <2>3
    <3> QED BY <2>0, <3>1, <3>2, BlindSame
  <2> QED BY <2>1, <2>2, <2>3
<1>9. ASSUME NEW g \in Grenades, DestroyLeft(g) PROVE BlindInv'
  <2>1. /\ UNCHANGED <<mimic, thrower, flashed, delayedEventHandlers, toDestroy, lastFlash>>
    BY <1>9, OnDestroyIs, OnDestroyQueue DEF DestroyLeft, server, LiveInv
  <2> QED BY <2>1, BlindSame
<1>10. CASE ClearGrenadeProjectiles
  <2>1. flashed = {} /\ UNCHANGED <<mimic, flashed, delayedEventHandlers>>
    BY <1>10 DEF ClearGrenadeProjectiles
  <2> QED BY <2>1 DEF BlindInv
<1>11. CASE EndFrame
  <2>1. flashed' = {} /\ delayedEventHandlers' = << >> /\ Len(delayedEventHandlers') = 0
    BY <1>11 DEF EndFrame
  <2> QED BY <2>1 DEF BlindInv
<1> QED
  BY <1>1, <1>2, <1>3, <1>4, <1>5, <1>6, <1>7, <1>8, <1>9, <1>10, <1>11 DEF Next

(* What playerBlind's handlers tell at the end of a frame is who was flashed *)
(* in it, and the last flashbang of the player whom the burst's event named. *)
LEMMA BlindEnds ==
  ASSUME StateInv, FlashInv, EndFrame, ~mimic
  PROVE  Tells(told', flashed)
<1> USE DEF StateInv, FlashInv
<1>0. told' = BlindTold /\ toDestroy = {}
  BY DEF EndFrame
<1> DEFINE s == delayedEventHandlers
           attacker == lastFlash.player
           by == IF attacker = Nil THEN 0 ELSE lastFlash.projectileByPlayer[attacker]
<1>1. s \in Seq(Delays) /\ Len(s) \in Nat /\ DOMAIN s = 1 .. Len(s)
  BY LenProperties DEF Types
<1>2. BlindTold = {PlayerFlashed(d.who, attacker, by) : d \in {d \in ToSet(s) : d.do = "blind"}}
  BY DEF BlindTold
<1>3. ToSet(s) = {s[i] : i \in 1 .. Len(s)}
  BY <1>1 DEF ToSet
<1>4. /\ by \in Grenades \cup {0}
      /\ by # 0 => stage[by] # "none" /\ thrower[by] = attacker
  <2>1. attacker \in Players \cup {Nil}
    BY DEF FlashTypes
  <2>2. CASE attacker = Nil
    BY <2>2
  <2>3. CASE attacker \in Players /\ attacker # Nil
    <3>1. by = lastFlash.projectileByPlayer[attacker]
      BY <2>3
    <3> QED BY <2>3, <3>1 DEF FlashTypes, LastInv
  <2> QED BY <2>1, <2>2, <2>3
<1>5. /\ \A i \in 1 .. Len(s) : s[i].do = "blind" => \E g \in Grenades : <<s[i].who, g>> \in flashed
      /\ \A p \in Players, g \in Grenades :
           <<p, g>> \in flashed =>
             /\ \E i \in 1 .. Len(s) : s[i].do = "blind" /\ s[i].who = p
             /\ attacker = thrower[g] => by = g
  <2> SUFFICES ASSUME NEW p \in Players, NEW g \in Grenades, <<p, g>> \in flashed,
                      attacker = thrower[g]
               PROVE  by = g
    BY DEF BlindInv
  <2>1. lastFlash.projectileByPlayer[thrower[g]] = g
    BY <1>0 DEF BlindInv
  <2>2. stage[g] # "none"
    <3>1. burst[g] = frame /\ frame # 0
      BY DEF BurstInv, Types
    <3> QED BY <3>1 DEF BurstInv
  <2>3. thrower[g] # Nil
    BY <2>2, GrenadesAssumption DEF ThrowsInv
  <2> QED BY <2>1, <2>3
<1> HIDE DEF by, s, attacker
<1>6. \A x \in flashed : x = <<x[1], x[2]>> /\ x[1] \in Players /\ x[2] \in Grenades
  BY DEF FlashTypes
<1>7. ASSUME NEW t \in told'
      PROVE  /\ t.attacker = attacker /\ t.projectile = by
             /\ \E f \in flashed : f[1] = t.player
  <2>1. PICK i \in 1 .. Len(s) : s[i].do = "blind" /\ t = PlayerFlashed(s[i].who, attacker, by)
    BY <1>0, <1>2, <1>3
  <2>2. PICK g \in Grenades : <<s[i].who, g>> \in flashed
    BY <1>5, <2>1
  <2> QED BY <2>1, <2>2 DEF PlayerFlashed
<1>8. ASSUME NEW f \in flashed PROVE \E t \in told' : t.player = f[1]
  <2>1. PICK i \in 1 .. Len(s) : s[i].do = "blind" /\ s[i].who = f[1]
    BY <1>5, <1>6
  <2>2. PlayerFlashed(s[i].who, attacker, by) \in told'
    BY <1>0, <1>2, <1>3, <2>1
  <2> QED BY <2>1, <2>2 DEF PlayerFlashed
<1>9. {t.player : t \in told'} = {f[1] : f \in flashed}
  BY <1>7, <1>8
<1>10. \A f \in flashed : attacker = thrower[f[2]] => by = f[2]
  BY <1>5, <1>6
<1> QED
  BY <1>4, <1>7, <1>9, <1>10 DEF Tells

---------------------------------------------------------------------------
(* What is remembered of grenades that were thrown                         *)

(* A grenade that was thrown stays so, and its thrower who they are.       *)
LEMMA StaysThrown ==
  ASSUME StateInv, Next, NEW g \in Grenades, stage[g] # "none"
  PROVE  stage'[g] # "none" /\ thrower'[g] = thrower[g]
<1> USE DEF StateInv
<1>1. ASSUME NEW h \in Grenades, NEW p \in Players, NEW t \in kit, Throw(h, p, t)
      PROVE  stage'[g] # "none" /\ thrower'[g] = thrower[g]
  BY <1>1 DEF Throw, Types
<1>2. ASSUME NEW h \in Grenades, NEW blinded \in SUBSET Players, FlashBursts(h, blinded)
      PROVE  stage'[g] # "none" /\ thrower'[g] = thrower[g]
  BY <1>2 DEF FlashBursts, Types
<1>3. ASSUME NEW h \in Grenades,
             Detonate(h) \/ Expire(h) \/ InfernoDestroyed(h) \/ DestroyLeft(h)
      PROVE  stage'[g] # "none" /\ thrower'[g] = thrower[g]
  <2>1. UNCHANGED thrower /\ \E v \in Stages \ {"none"} : stage' = [stage EXCEPT ![h] = v]
    BY <1>3, OnDestroyIs DEF Detonate, Expire, InfernoDestroyed, DestroyLeft, server, Stages
  <2> QED BY <2>1 DEF Types
<1>4. CASE ClearGrenadeProjectiles
  BY <1>4 DEF ClearGrenadeProjectiles
<1>5. CASE UNCHANGED <<stage, thrower>>
  BY <1>5
<1>6. ASSUME NEW h \in Grenades, Destroy(h) PROVE UNCHANGED <<stage, thrower>>
  BY <1>6, OnDestroyIs DEF Destroy, server
<1> QED
  BY <1>1, <1>2, <1>3, <1>4, <1>5, <1>6
  DEF Next, EndFrame, FlashDuration, InfernoCreated, server

(* The flashbang kept for a player changes to one of theirs.               *)
LEMMA LastNext == ASSUME StateInv, FlashInv, Next PROVE LastInv'
<1> USE DEF StateInv, FlashInv
<1> DEFINE of(p) == lastFlash.projectileByPlayer[p]
<1>1. SUFFICES ASSUME NEW p \in Players, lastFlash'.projectileByPlayer[p] # 0
      PROVE  \/ lastFlash'.projectileByPlayer[p] = of(p)
             \/ /\ lastFlash'.projectileByPlayer[p] \in grenadeProjectiles
                /\ thrower[lastFlash'.projectileByPlayer[p]] = p
  <2> SUFFICES ASSUME NEW p \in Players, lastFlash'.projectileByPlayer[p] # 0
               PROVE  /\ stage'[lastFlash'.projectileByPlayer[p]] # "none"
                      /\ thrower'[lastFlash'.projectileByPlayer[p]] = p
    BY DEF LastInv
  <2> DEFINE g == lastFlash'.projectileByPlayer[p]
  <2>1. g \in Grenades /\ stage[g] # "none" /\ thrower[g] = p
    BY <1>1 DEF LastInv, LiveInv, Types, FlashTypes
  <2> QED BY <2>1, StaysThrown
<1>2. CASE lastFlash' = lastFlash
  BY <1>2
<1>3. ASSUME NEW g \in Grenades, NEW blinded \in SUBSET Players, FlashBursts(g, blinded)
      PROVE  lastFlash'.projectileByPlayer[p] = of(p)
  BY <1>3 DEF FlashBursts, FlashTypes
<1>4. ASSUME NEW g \in Grenades, OnDestroy(g)
      PROVE  \/ lastFlash'.projectileByPlayer[p] = of(p)
             \/ g \in grenadeProjectiles /\ lastFlash'.projectileByPlayer[p] = g /\ thrower[g] = p
  BY <1>4, OnDestroyQueue DEF FlashTypes
<1>5. CASE ClearGrenadeProjectiles
  <2>1. PICK last \in [Players -> Grenades \cup {0}] :
          /\ \A q \in Players :
               LET flashes == {g \in Forgotten : kind[g] = "Flash" /\ thrower[g] = q}
               IN  last[q] \in IF flashes = {} THEN {of(q)} ELSE flashes
          /\ lastFlash' = [lastFlash EXCEPT !.projectileByPlayer = last]
    BY <1>5 DEF ClearGrenadeProjectiles
  <2>2. lastFlash'.projectileByPlayer[p] = last[p]
    BY <2>1 DEF FlashTypes
  <2> QED BY <2>1, <2>2 DEF Forgotten
<1> QED
  BY <1>2, <1>3, <1>4, <1>5
  DEF Next, Throw, EndFrame, FlashDuration, Detonate, Expire, InfernoCreated, InfernoDestroyed,
      Destroy, DestroyLeft

(* What is told of a frame stays what it was.                              *)
LEMMA ToldNext == ASSUME StateInv, FlashInv, Next PROVE ToldInv'
<1> USE DEF StateInv, FlashInv
<1>1. CASE EndFrame
  <2>1. lastFlashed' = flashed /\ UNCHANGED <<mimic, stage, thrower>>
    BY <1>1 DEF EndFrame, server
  <2>2. Tells(told', flashed)
    BY <1>1, QueueEnds, BlindEnds
  <2>3. \A f \in flashed : f[2] \in Grenades /\ stage[f[2]] # "none"
    <3> SUFFICES ASSUME NEW f \in flashed PROVE f[2] \in Grenades /\ stage[f[2]] # "none"
      OBVIOUS
    <3>1. f = <<f[1], f[2]>> /\ f[1] \in Players /\ f[2] \in Grenades
      BY DEF FlashTypes
    <3>2. burst[f[2]] = frame /\ frame # 0
      BY <3>1 DEF BurstInv, Types
    <3> QED BY <3>1, <3>2 DEF BurstInv
  <2> QED BY <2>1, <2>2, <2>3 DEF ToldInv, Tells
<1>2. CASE UNCHANGED <<told, lastFlashed, mimic>>
  <2>1. \A g \in Grenades : stage[g] # "none" => stage'[g] # "none" /\ thrower'[g] = thrower[g]
    BY StaysThrown
  <2>2. \A t \in told :
          t.projectile # 0 => t.projectile \in Grenades /\ stage[t.projectile] # "none"
    BY DEF ToldInv, Tells
  <2>3. \A f \in lastFlashed : f[2] \in Grenades /\ stage[f[2]] # "none"
    BY DEF ToldInv
  <2> QED BY <1>2, <2>1, <2>2, <2>3 DEF ToldInv, Tells
<1>3. ASSUME NEW g \in Grenades, OnDestroy(g) PROVE UNCHANGED <<told, lastFlashed, mimic>>
  BY <1>3, OnDestroyIs DEF history, server
<1> QED
  BY ZenonT(60), <1>1, <1>2, <1>3
  DEF Next, Throw, FlashBursts, FlashDuration, Detonate, Expire, InfernoCreated,
      InfernoDestroyed, Destroy, DestroyLeft, ClearGrenadeProjectiles, history, server

LEMMA InitFlash == ASSUME Init PROVE FlashInv
<1> USE DEF Init
<1>1. Len(flyingFlashbangs) = 0 /\ Len(delayedEventHandlers) = 0
  OBVIOUS
<1>2. FlashTypes
  BY DEF FlashTypes
<1>3. BurstInv /\ OrderInv /\ ExactInv
  BY DEF BurstInv, OrderInv, ExactInv
<1>4. QueueInv /\ BlindInv
  BY <1>1 DEF QueueInv, BlindInv, AtHead
<1>5. LastInv /\ ToldInv
  BY DEF LastInv, ToldInv, Tells
<1> QED
  BY <1>2, <1>3, <1>4, <1>5 DEF FlashInv

(* The invariant of the queue holds of every run in which flashbangs burst *)
(* apart.                                                                  *)
THEOREM QueueInductive == ASSUME BurstsApart PROVE Spec => [](StateInv /\ FlashInv)
<1>1. Init => StateInv /\ FlashInv
  BY InitInv, InitFlash
<1>2. FlashInv /\ StateInv /\ StateInv' /\ [Next]_vars => FlashInv'
  <2>1. ASSUME StateInv, FlashInv, Next PROVE FlashInv'
    BY <2>1, FlashTypesNext, BurstNext, OrderNext, ExactNext, QueueNext, BlindNext, LastNext,
       ToldNext DEF FlashInv
  <2>2. ASSUME FlashInv, UNCHANGED vars PROVE FlashInv'
    <3>1. FlashTypes' /\ BurstInv' /\ OrderInv' /\ ExactInv'
      BY <2>2 DEF FlashInv, vars, server, FlashTypes, BurstInv, OrderInv, ExactInv,
                  IsFlash, InFlight
    <3>3. LastInv'
      BY <2>2 DEF FlashInv, vars, server, LastInv
    <3>4. ToldInv'
      BY <2>2 DEF FlashInv, vars, server, history, ToldInv, Tells
    <3>2. QueueInv' /\ BlindInv'
      BY <2>2, QueueSame, BlindSame DEF FlashInv, vars, server
    <3> QED BY <3>1, <3>2, <3>3, <3>4 DEF FlashInv
  <2> QED BY <2>1, <2>2
<1> QED
  BY <1>1, <1>2, GrenadesInductive, PTL DEF Spec

(* The PlayerFlashed events of a frame tell who was blinded in it and      *)
(* nobody else, with a flashbang of the attacker's, and with the one that  *)
(* did it unless the game event of its burst named another player than its *)
(* thrower.                                                                *)
THEOREM FlashesAreTold == ASSUME BurstsApart PROVE Spec => []FlashesTold
<1>1. StateInv /\ FlashInv => FlashesTold
  BY DEF FlashInv, ToldInv, Tells, FlashesTold
<1> QED
  BY <1>1, QueueInductive, PTL

(* Projectiles and infernos are those in flight or with an effect, and     *)
(* each that leaves is told once.                                          *)
THEOREM GrenadesAreLive == ASSUME BurstsApart PROVE Spec => []LiveGrenades
<1>1. StateInv /\ FlashInv => LiveGrenades
  <2> SUFFICES ASSUME StateInv, FlashInv PROVE LiveGrenades
    OBVIOUS
  <2>1. toDestroy = {} => grenadeProjectiles = {g \in Grenades : InFlight(g)}
    BY DEF StateInv, FlashInv, Types, LiveInv, ExactInv
  <2>2. infernos \subseteq {g \in Grenades : stage[g] = "effect" /\ kind[g] \in Fires}
    BY DEF StateInv, Types, LiveInv
  <2>3. \A g \in Grenades :
          destroyed[g] = IF stage[g] # "none" /\ g \notin grenadeProjectiles THEN 1 ELSE 0
    BY DEF StateInv, LiveInv
  <2> QED BY <2>1, <2>2, <2>3 DEF LiveGrenades
<1> QED
  BY <1>1, QueueInductive, PTL
===============================================================================
