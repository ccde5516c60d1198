---------------------------- MODULE Entities_proofs ----------------------------
(***************************************************************************)
(* What the parser knows of entities: the table of them (EntityTable), and *)
(* the weapons and inventories that follow from their updates (Weapons).   *)
(*                                                                         *)
(* EntityTable is proved for every set of indices, classes, properties and *)
(* values, any number of entities and packets, and panics anywhere;        *)
(* Weapons for every finite set of players, any weapons, types and amounts *)
(* of money, and for the updates of a frame in any order.                  *)
(***************************************************************************)
EXTENDS EntityTable, Weapons, SequenceTheorems, FiniteSetTheorems, WellFoundedInduction, TLAPS

---------------------------------------------------------------------------
(* The inductive invariant of Weapons                                      *)

(* What the parser keeps: an Equipment is one of its entity ID.            *)
Infos == [type : AllTypes \cup {EqUnknown}, owner : Players \cup {Nil}]
Inventories == UNION {[W -> Ids] : W \in SUBSET Weps}
GameStates ==
  {st \in [weapons : [Weps -> Ids \cup {NoEquipment}], equipment : [Ids -> Infos],
           inventory : [Players -> Inventories]] :
     /\ \A i \in Weps : st.weapons[i] # NoEquipment => st.weapons[i][1] = i
     /\ \A p \in Players : \A i \in DOMAIN st.inventory[p] : st.inventory[p][i][1] = i}

(* The server: the slots of a player are the weapons they own.             *)
Handles == [idx : Weps, new : BOOLEAN]
Servers ==
  [wep   : [Weps -> [type : AllTypes \cup {Nil}, owner : Players \cup {Nil},
                     new : BOOLEAN, takes : Nat]],
   slots : [Players -> Seq(Handles)],
   money : [Players -> Nat]]

Lists(seq, H) ==
  /\ seq \in Seq(Handles) /\ {seq[k] : k \in DOMAIN seq} = H
  /\ \A j, k \in DOMAIN seq : seq[j].idx = seq[k].idx => j = k

Owned(s, p) == {w \in Weps : s.wep[w].owner = p}
Handed(s, p) == {[idx |-> w, new |-> s.wep[w].new] : w \in Owned(s, p)}

SlotsOK(s) ==
  /\ \A w \in Weps : s.wep[w].type = Nil => s.wep[w].owner = Nil
  /\ \A p \in Players : Lists(s.slots[p], Handed(s, p))

Old(s) == \A w \in Weps : ~s.wep[w].new

(* What a frame may do to weapons                                          *)
Moves(s, t) ==
  \A w \in Weps :
    /\ t.wep[w].new => t.wep[w].type # Nil /\ t.wep[w].owner # Nil
    /\ t.wep[w].type # Nil /\ ~t.wep[w].new => s.wep[w].type = t.wep[w].type

ServerInv ==
  /\ before \in Servers /\ SlotsOK(before) /\ Old(before)
  /\ server \in Servers /\ SlotsOK(server) /\ Moves(before, server)
  /\ DOMAIN shots \subseteq Weps
  /\ \A w \in DOMAIN shots : shots[w] = before.wep[w].owner /\ shots[w] # Nil
  /\ updates \subseteq Players \cup Weps /\ firsts \subseteq {w \in Weps : Created(w)}
  /\ \A p \in Players : p \in updates => before.slots[p] # server.slots[p]
  /\ \A w \in Weps : w \in updates => Exists(before, w) \/ Exists(server, w)
  /\ inFrame \in BOOLEAN
  /\ ~inFrame => /\ before = server /\ updates = {} /\ firsts = {}
                 /\ DOMAIN shots = {} /\ log = << >>

(* The inventories: before a pawn's update as they were, then as they are. *)
InventoryInv ==
  \A p \in Players :
    /\ DOMAIN inventory[p] = Owned(IF p \in updates THEN before ELSE server, p)
    /\ \A w \in DOMAIN inventory[p] :
         Exists(server, w) \/ w \in updates =>
           weapons[w] # NoEquipment /\ inventory[p][w] = weapons[w]

(* The weapons whose Equipment has its type, and those whose has its owner.*)
Typed(w) == Exists(server, w) /\ (~Created(w) \/ w \notin updates)
Settled(w) ==
  LET owner == server.wep[w].owner
  IN  \/ before.wep[w].owner = owner /\ ~Created(w)
      \/ IF owner = Nil THEN w \notin updates ELSE owner \notin updates

EquipmentInv ==
  \A w \in Weps :
    /\ Exists(before, w) /\ w \in updates => weapons[w] # NoEquipment
    /\ Typed(w) => weapons[w] # NoEquipment /\ equipment[weapons[w]].type = server.wep[w].type
    /\ Exists(server, w) /\ Settled(w) /\ weapons[w] # NoEquipment =>
         equipment[weapons[w]].owner = server.wep[w].owner

(* Each weapon was told of once at most, when its update came.             *)
FireOf(i) == log[i].t = "WeaponFire" /\ log[i].wep \in DOMAIN shots /\ Exists(server, log[i].wep)
RefundOf(i) ==
  LET owner == before.wep[log[i].wep].owner
  IN  /\ log[i].t = "ItemRefund" /\ ~Exists(server, log[i].wep)
      /\ log[i].who = owner /\ owner \in Zone

LogInv ==
  /\ log \in Seq([t : {"WeaponFire", "ItemRefund"}, who : Players, wep : Weps, eq : Ids])
  /\ \A i \in DOMAIN log : log[i].wep \notin updates /\ (FireOf(i) \/ RefundOf(i))
  /\ \A i, j \in DOMAIN log : log[i].wep = log[j].wep => i = j
  /\ \A w \in DOMAIN shots :
       ~Created(w) /\ server.wep[w].owner = shots[w] /\ w \notin updates =>
         \E i \in DOMAIN log : /\ log[i].t = "WeaponFire" /\ log[i].wep = w
                               /\ log[i].who = shots[w] /\ log[i].eq = weapons[w]

(* The refund detection of a weapon that has had one owner                 *)
Gain(p) == server.money[p] > before.money[p]
Refunds == [oldOwnerMoney : Nat, thisTick : BOOLEAN, increased : BOOLEAN, watched : Seq(Players)]

RefundInv ==
  /\ refund \in [Weps -> Refunds]
  /\ \A w \in Weps, p \in Players :
       refund[w].watched = <<p>> =>
         /\ Exists(server, w) => refund[w].oldOwnerMoney = server.money[p]
         /\ Exists(before, w) /\ ~Exists(server, w) /\ w \in updates =>
              (refund[w].thisTick /\ refund[w].increased <=> Gain(p))
         /\ Exists(before, w) /\ ~Exists(server, w) /\ w \notin updates /\ before.wep[w].owner = p =>
              (Told("ItemRefund", w) # {} <=> p \in Zone /\ Gain(p))
  /\ ~inFrame => \A w \in Weps : /\ ~refund[w].thisTick /\ ~refund[w].increased
                                 /\ ~Exists(server, w) => refund[w].watched = << >>

PossessionInv ==
  ServerInv /\ State \in GameStates /\ InventoryInv /\ EquipmentInv /\ LogInv /\ RefundInv

---------------------------------------------------------------------------
(* Identities of Equipments                                                *)
LEMMA NotAnId == NoEquipment \notin Ids
BY DEF NoEquipment, Ids

(* An identity has an entity ID and a number.                              *)
LEMMA IdIs ==
  ASSUME NEW e \in Ids
  PROVE  e[1] \in Weps /\ e[2] \in 1 .. Cardinality(Players) + 2 /\ e = <<e[1], e[2]>>
BY DEF Ids

(* The parts of what the parser keeps                                      *)
LEMMA GameStateIs ==
  ASSUME NEW st \in GameStates
  PROVE  /\ st.weapons \in [Weps -> Ids \cup {NoEquipment}] /\ st.equipment \in [Ids -> Infos]
         /\ st.inventory \in [Players -> Inventories]
         /\ \A i \in Weps : st.weapons[i] # NoEquipment =>
              st.weapons[i] \in Ids /\ st.weapons[i][1] = i
         /\ \A p \in Players :
              /\ DOMAIN st.inventory[p] \subseteq Weps
              /\ \A i \in DOMAIN st.inventory[p] :
                   st.inventory[p][i] \in Ids /\ st.inventory[p][i][1] = i
<1>1. /\ st \in [weapons : [Weps -> Ids \cup {NoEquipment}], equipment : [Ids -> Infos],
                 inventory : [Players -> Inventories]]
      /\ \A i \in Weps : st.weapons[i] # NoEquipment => st.weapons[i][1] = i
      /\ \A p \in Players : \A i \in DOMAIN st.inventory[p] : st.inventory[p][i][1] = i
  BY DEF GameStates
<1>2. \A f \in Inventories : DOMAIN f \subseteq Weps /\ \A i \in DOMAIN f : f[i] \in Ids
  BY DEF Inventories
<1> QED
  BY <1>1, <1>2

(* A player refers to one Equipment of an entity ID at most, and weapons   *)
(* to another: there is always a free one.                                 *)
LEMMA FreshIs ==
  ASSUME NEW st \in GameStates, NEW i \in Weps
  PROVE  /\ Fresh(st, i) \in Ids /\ Fresh(st, i)[1] = i
         /\ \A j \in Weps : st.weapons[j] # Fresh(st, i)
         /\ \A p \in Players : \A j \in DOMAIN st.inventory[p] : st.inventory[p][j] # Fresh(st, i)
<1> DEFINE N == Cardinality(Players)
           Has == {p \in Players : i \in DOMAIN st.inventory[p]}
           number == [p \in Has |-> st.inventory[p][i][2]]
           Used == {number[p] : p \in Has}
           own == st.weapons[i][2]
           All == Used \cup {own}
<1>1. N \in Nat /\ IsFiniteSet(Has) /\ Cardinality(Has) <= N /\ Cardinality(Has) \in Nat
  BY WeaponsAssumption, FS_CardinalityType, FS_Subset
<1>2. IsFiniteSet(Used) /\ Cardinality(Used) <= Cardinality(Has)
  <2>1. number \in Surjection(Has, Used)
    BY DEF Surjection
  <2> HIDE DEF number, Used, Has
  <2> QED BY <1>1, <2>1, FS_Surjection
<1>3. IsFiniteSet(All) /\ Cardinality(All) <= N + 1 /\ Cardinality(All) \in Nat
  <2> HIDE DEF Used, own, N
  <2>1. Cardinality(Used) \in Nat
    BY <1>2, FS_CardinalityType
  <2>2. IsFiniteSet(All) /\ Cardinality(All) = IF own \in Used THEN Cardinality(Used) ELSE Cardinality(Used) + 1
    BY <1>2, FS_AddElement
  <2> QED BY <1>1, <1>2, <2>1, <2>2
<1>4. PICK n \in 1 .. N + 2 : n \notin All
  <2> SUFFICES ASSUME 1 .. N + 2 \subseteq All PROVE FALSE
    OBVIOUS
  <2> HIDE DEF All, N
  <2>1. Cardinality(1 .. N + 2) <= Cardinality(All)
    BY <1>3, FS_Subset
  <2>2. Cardinality(1 .. N + 2) = N + 2
    <3>1. 1 \in Int /\ N + 2 \in Int /\ ~(1 > N + 2) /\ (N + 2) - 1 + 1 = N + 2
      BY <1>1
    <3> HIDE DEF N
    <3> QED BY <3>1, FS_Interval
  <2> QED BY <1>1, <1>3, <2>1, <2>2
<1> DEFINE e == <<i, n>>
<1>5. e \in Ids /\ e[1] = i /\ e[2] = n
  BY <1>4 DEF Ids
<1>6. e \notin Referred(st)
  <2> SUFFICES ASSUME e \in Referred(st) PROVE FALSE
    OBVIOUS
  <2>1. \/ \E j \in Weps : e = st.weapons[j]
        \/ \E p \in Players : \E j \in DOMAIN st.inventory[p] : e = st.inventory[p][j]
    BY DEF Referred
  <2>2. CASE \E j \in Weps : e = st.weapons[j]
    <3>1. PICK j \in Weps : e = st.weapons[j]
      BY <2>2
    <3>2. j = i
      BY <1>5, <3>1, GameStateIs, NotAnId
    <3> QED BY <1>4, <1>5, <3>1, <3>2
  <2>3. CASE \E p \in Players : \E j \in DOMAIN st.inventory[p] : e = st.inventory[p][j]
    <3> PICK p \in Players : \E j \in DOMAIN st.inventory[p] : e = st.inventory[p][j]
      BY <2>3
    <3>1. PICK j \in DOMAIN st.inventory[p] : e = st.inventory[p][j]
      OBVIOUS
    <3>2. j = i
      BY <1>5, <3>1, GameStateIs
    <3>3. p \in Has /\ number[p] = n
      BY <1>5, <3>1, <3>2
    <3> QED BY <1>4, <3>3
  <2> QED BY <2>1, <2>2, <2>3
<1>7. Fresh(st, i) \in Ids /\ Fresh(st, i)[1] = i /\ Fresh(st, i) \notin Referred(st)
  <2> HIDE DEF e
  <2> QED BY <1>5, <1>6 DEF Fresh
<1> QED
  BY <1>7 DEF Referred

---------------------------------------------------------------------------
(* What the handlers of a pawn do to what the parser keeps                 *)

(* A record of its fields is what the parser keeps, if each of them is.    *)
LEMMA MakesState ==
  ASSUME NEW a \in [Weps -> Ids \cup {NoEquipment}], NEW b \in [Ids -> Infos],
         NEW c \in [Players -> Inventories],
         \A i \in Weps : a[i] # NoEquipment => a[i][1] = i,
         \A p \in Players : \A i \in DOMAIN c[p] : c[p][i][1] = i
  PROVE  [weapons |-> a, equipment |-> b, inventory |-> c] \in GameStates
BY DEF GameStates

LEMMA NewIs ==
  ASSUME NEW st \in GameStates, NEW I \in SUBSET Weps, \A i \in I : st.weapons[i] = NoEquipment,
         NEW type \in AllTypes \cup {EqUnknown}
  PROVE  /\ NewEquipment(st, I, type) \in GameStates
         /\ NewEquipment(st, I, type).inventory = st.inventory
         /\ \A i \in Weps \ I : NewEquipment(st, I, type).weapons[i] = st.weapons[i]
         /\ \A i \in I : /\ NewEquipment(st, I, type).weapons[i] \in Ids
                         /\ NewEquipment(st, I, type).equipment[NewEquipment(st, I, type).weapons[i]]
                              = NewEq(type)
         /\ \A i \in Weps : st.weapons[i] # NoEquipment =>
              NewEquipment(st, I, type).equipment[st.weapons[i]] = st.equipment[st.weapons[i]]
<1> DEFINE a == [i \in Weps |-> IF i \in I THEN Fresh(st, i) ELSE st.weapons[i]]
           b == [e \in Ids |-> IF \E i \in I : e = Fresh(st, i) THEN NewEq(type) ELSE st.equipment[e]]
           c == st.inventory
<1>1. NewEquipment(st, I, type) = [weapons |-> a, equipment |-> b, inventory |-> c]
  <2>1. st = [weapons |-> st.weapons, equipment |-> st.equipment, inventory |-> st.inventory]
    BY DEF GameStates
  <2> HIDE DEF a, b
  <2>2. NewEquipment(st, I, type) = [st EXCEPT !.weapons = a, !.equipment = b]
    BY DEF NewEquipment, a, b
  <2> QED BY <2>1, <2>2
<1>2. \A i \in I : Fresh(st, i) \in Ids /\ Fresh(st, i)[1] = i /\ \A j \in Weps : st.weapons[j] # Fresh(st, i)
  BY FreshIs
<1>3. NewEq(type) \in Infos
  BY DEF NewEq, Infos
<1>4. a \in [Weps -> Ids \cup {NoEquipment}] /\ \A i \in Weps : a[i] # NoEquipment => a[i][1] = i
  BY <1>2, GameStateIs
<1>5. b \in [Ids -> Infos]
  BY <1>3, GameStateIs
<1>6. \A i \in I : a[i] \in Ids /\ b[a[i]] = NewEq(type)
  BY <1>2
<1>7. \A i \in Weps : st.weapons[i] # NoEquipment => b[st.weapons[i]] = st.equipment[st.weapons[i]]
  BY <1>2, GameStateIs
<1>8. c \in [Players -> Inventories] /\ \A p \in Players : \A i \in DOMAIN c[p] : c[p][i][1] = i
  BY GameStateIs
<1>9. \A i \in Weps \ I : a[i] = st.weapons[i]
  OBVIOUS
<1> HIDE DEF a, b, c
<1>10. [weapons |-> a, equipment |-> b, inventory |-> c] \in GameStates
  BY <1>4, <1>5, <1>8, MakesState
<1> QED
  BY <1>1, <1>6, <1>7, <1>9, <1>10 DEF c

(* getWep gives an Equipment to whoever has none, and changes no other.    *)
LEMMA GotIs ==
  ASSUME NEW st \in GameStates, NEW I \in SUBSET Weps
  PROVE  /\ GetWep(st, I) \in GameStates /\ GetWep(st, I).inventory = st.inventory
         /\ \A i \in Weps : st.weapons[i] # NoEquipment =>
              /\ GetWep(st, I).weapons[i] = st.weapons[i]
              /\ GetWep(st, I).equipment[st.weapons[i]] = st.equipment[st.weapons[i]]
         /\ \A i \in I : GetWep(st, I).weapons[i] # NoEquipment
<1> DEFINE J == {i \in I : st.weapons[i] = NoEquipment}
<1>1. GetWep(st, I) = NewEquipment(st, J, EqUnknown)
  BY DEF GetWep
<1>2. J \in SUBSET Weps /\ \A i \in J : st.weapons[i] = NoEquipment
  OBVIOUS
<1>3. \A i \in I : i \in J \/ st.weapons[i] # NoEquipment
  OBVIOUS
<1>4. \A i \in Weps : st.weapons[i] # NoEquipment => i \in Weps \ J
  OBVIOUS
<1> HIDE DEF J
<1> DEFINE new == NewEquipment(st, J, EqUnknown)
<1>5. /\ new \in GameStates /\ new.inventory = st.inventory
      /\ \A i \in Weps \ J : new.weapons[i] = st.weapons[i]
      /\ \A i \in J : new.weapons[i] \in Ids
      /\ \A i \in Weps : st.weapons[i] # NoEquipment =>
           new.equipment[st.weapons[i]] = st.equipment[st.weapons[i]]
  <2>1. EqUnknown \in AllTypes \cup {EqUnknown}
    OBVIOUS
  <2> QED BY <1>2, <2>1, NewIs
<1> HIDE DEF new
<1> QED
  BY <1>1, <1>3, <1>4, <1>5, NotAnId DEF new

(* setPlayerInventory gives a player an inventory of what weapons has.     *)
Slots == UNION {[K -> Handles \cup {NoHandle}] : K \in SUBSET Nat}

LEMMA HeldIs == ASSUME NEW slots \in Slots PROVE Held(slots) \in SUBSET Weps
<1> SUFFICES ASSUME NEW k \in DOMAIN slots, slots[k] # NoHandle PROVE slots[k].idx \in Weps
  BY DEF Held
<1>1. slots[k] \in Handles
  BY DEF Slots
<1> QED
  BY <1>1 DEF Handles

LEMMA InventoryIs ==
  ASSUME NEW st \in GameStates, NEW p \in Players, NEW slots \in Slots
  PROVE  /\ SetPlayerInventory(st, p, slots) \in GameStates
         /\ \A q \in Players \ {p} : SetPlayerInventory(st, p, slots).inventory[q] = st.inventory[q]
         /\ DOMAIN SetPlayerInventory(st, p, slots).inventory[p] = Held(slots)
         /\ \A i \in Held(slots) :
              /\ SetPlayerInventory(st, p, slots).weapons[i] # NoEquipment
              /\ SetPlayerInventory(st, p, slots).inventory[p][i]
                   = SetPlayerInventory(st, p, slots).weapons[i]
         /\ \A i \in Weps : st.weapons[i] # NoEquipment =>
              /\ SetPlayerInventory(st, p, slots).weapons[i] = st.weapons[i]
              /\ SetPlayerInventory(st, p, slots).equipment[st.weapons[i]] = st.equipment[st.weapons[i]]
<1> DEFINE got == GetWep(st, Held(slots))
           inv == [i \in Held(slots) |-> got.weapons[i]]
           c == [got.inventory EXCEPT ![p] = inv]
           new == [weapons |-> got.weapons, equipment |-> got.equipment, inventory |-> c]
<1>1. Held(slots) \in SUBSET Weps
  BY HeldIs
<1>2. /\ got \in GameStates /\ got.inventory = st.inventory
      /\ \A i \in Weps : st.weapons[i] # NoEquipment =>
              /\ got.weapons[i] = st.weapons[i]
              /\ got.equipment[st.weapons[i]] = st.equipment[st.weapons[i]]
      /\ \A i \in Held(slots) : got.weapons[i] # NoEquipment
  BY <1>1, GotIs
<1> HIDE DEF got
<1>3. SetPlayerInventory(st, p, slots) = new
  <2>1. got = [weapons |-> got.weapons, equipment |-> got.equipment, inventory |-> got.inventory]
    BY <1>2 DEF GameStates
  <2> HIDE DEF inv
  <2>2. SetPlayerInventory(st, p, slots) = [got EXCEPT !.inventory = [@ EXCEPT ![p] = inv]]
    BY DEF SetPlayerInventory, got, inv
  <2> QED BY <2>1, <2>2
<1>4. /\ got.weapons \in [Weps -> Ids \cup {NoEquipment}] /\ got.equipment \in [Ids -> Infos]
      /\ got.inventory \in [Players -> Inventories]
      /\ \A i \in Weps : got.weapons[i] # NoEquipment =>
           got.weapons[i] \in Ids /\ got.weapons[i][1] = i
      /\ \A q \in Players : \A i \in DOMAIN got.inventory[q] : got.inventory[q][i][1] = i
  BY <1>2, GameStateIs
<1>5. inv \in Inventories /\ DOMAIN inv = Held(slots) /\ \A i \in Held(slots) : inv[i] = got.weapons[i] /\ inv[i][1] = i
  <2>1. inv \in [Held(slots) -> Ids] /\ \A i \in Held(slots) : inv[i] = got.weapons[i] /\ inv[i][1] = i
    BY <1>1, <1>2, <1>4
  <2> HIDE DEF inv
  <2> QED BY <1>1, <2>1 DEF Inventories
<1> HIDE DEF inv
<1>6. /\ c \in [Players -> Inventories] /\ c[p] = inv /\ \A q \in Players \ {p} : c[q] = got.inventory[q]
  BY <1>4, <1>5
<1>7. \A q \in Players : \A i \in DOMAIN c[q] : c[q][i][1] = i
  BY <1>4, <1>5, <1>6
<1> HIDE DEF c
<1>8. new \in GameStates
  BY <1>4, <1>6, <1>7, MakesState
<1> QED
  BY <1>2, <1>3, <1>5, <1>6, <1>8

---------------------------------------------------------------------------
(* Recursive functions                                                     *)
LEMMA UpTo ==
    ASSUME NEW N \in Nat, NEW S, 0 \in S, \A n \in 0..(N - 1) : n \in S => n + 1 \in S
    PROVE  \A n \in 0..N : n \in S
<1> SUFFICES ASSUME NEW k \in 0..N, k \notin S PROVE FALSE
  OBVIOUS
<1> DEFINE Others == {n \in 0..N : n \notin S}
<1>0. Others \subseteq Nat /\ Others # {}
  OBVIOUS
<1>1. IsWellFoundedOn(OpToRel(<, Nat), Nat)
  BY NatLessThanWellFounded
<1>2. PICK m \in Others : \A y \in Others : ~(<<y, m>> \in OpToRel(<, Nat))
  <2> HIDE DEF Others
  <2> QED BY <1>0, <1>1, WFMin
<1>3. m \in 0..N /\ m \notin S /\ m - 1 \in 0..(N - 1) /\ (m - 1) + 1 = m
  <2>1. m \in 0..N /\ m \notin S /\ m # 0
    BY <1>2
  <2> QED BY <2>1
<1>4. m - 1 \notin Others
  <2> HIDE DEF Others
  <2>1. \A y \in Others : ~(y < m)
    BY <1>0, <1>2 DEF OpToRel
  <2> QED BY <1>3, <2>1
<1> QED
  BY <1>3, <1>4

(* A function of this form exists: the first value, and a step to the next.*)
Iterates(f, a, step, n) ==
  f = [i \in 0 .. n |-> IF i = 0 THEN a ELSE step[i][f[i - 1]]]

LEMMA Iterated ==
  ASSUME NEW D, NEW a \in D, NEW N \in Nat, NEW step \in [1 .. N -> [D -> D]]
  PROVE  \E f \in [0 .. N -> D] : Iterates(f, a, step, N)
<1> DEFINE Some == {n \in 0 .. N : \E f \in [0 .. n -> D] : Iterates(f, a, step, n)}
<1>1. 0 \in Some
  <2> DEFINE f == [i \in 0 .. 0 |-> a]
  <2>1. f \in [0 .. 0 -> D] /\ Iterates(f, a, step, 0)
    BY DEF Iterates
  <2> QED BY <2>1
<1>2. ASSUME NEW n \in 0 .. (N - 1), n \in Some PROVE n + 1 \in Some
  <2>1. PICK f \in [0 .. n -> D] : Iterates(f, a, step, n)
    BY <1>2
  <2>2. n \in 0 .. n /\ n + 1 \in 1 .. N /\ n + 1 \in 0 .. N
    OBVIOUS
  <2>3. step[n + 1][f[n]] \in D
    BY <2>2
  <2> DEFINE last == step[n + 1][f[n]]
             g == [i \in 0 .. (n + 1) |-> IF i = n + 1 THEN last ELSE f[i]]
  <2>4. ASSUME NEW i \in 0 .. (n + 1), i # n + 1 PROVE i \in 0 .. n
    BY <2>4
  <2>5. g \in [0 .. (n + 1) -> D]
    <3> HIDE DEF last
    <3>1. last \in D
      BY <2>3 DEF last
    <3> QED BY <2>4, <3>1
  <2>6. ASSUME NEW i \in 0 .. (n + 1)
        PROVE  g[i] = IF i = 0 THEN a ELSE step[i][g[i - 1]]
    <3>1. CASE i = n + 1
      <4>1. i # 0 /\ i - 1 = n /\ n \in 0 .. (n + 1) /\ n # n + 1
        BY <3>1
      <4>2. g[n] = f[n] /\ g[i] = last
        BY <3>1, <4>1
      <4> QED BY <3>1, <4>1, <4>2
    <3>2. CASE i # n + 1
      <4>1. i \in 0 .. n /\ (i # 0 => i - 1 \in 0 .. (n + 1) /\ i - 1 # n + 1)
        BY <3>2
      <4>2. f[i] = IF i = 0 THEN a ELSE step[i][f[i - 1]]
        BY <2>1, <4>1 DEF Iterates
      <4>3. g[i] = f[i] /\ (i # 0 => g[i - 1] = f[i - 1])
        BY <3>2, <4>1
      <4> QED BY <4>1, <4>2, <4>3
    <3> QED BY <3>1, <3>2
  <2>7. Iterates(g, a, step, n + 1)
    <3>1. g = [i \in 0 .. (n + 1) |-> g[i]]
      OBVIOUS
    <3> HIDE DEF g
    <3> QED BY <2>6, <3>1 DEF Iterates
  <2> HIDE DEF g
  <2> QED BY <2>2, <2>5, <2>7
<1>3. N \in Some
  <2> HIDE DEF Some
  <2>1. \A n \in 0 .. N : n \in Some
    BY <1>1, <1>2, UpTo
  <2> QED BY <2>1
<1> QED
  BY <1>3

(* The handler of a slot                                                   *)
LEMMA UpdateIs ==
  ASSUME NEW st \in GameStates, NEW p \in Players, NEW slots \in Slots,
         NEW k \in DOMAIN slots, slots[k] \in Handles
  PROVE  /\ UpdateWeapon(st, p, slots, k) \in GameStates
         /\ \A q \in Players \ {p} : UpdateWeapon(st, p, slots, k).inventory[q] = st.inventory[q]
         /\ DOMAIN UpdateWeapon(st, p, slots, k).inventory[p] = Held(slots)
         /\ \A i \in Held(slots) :
              /\ UpdateWeapon(st, p, slots, k).weapons[i] # NoEquipment
              /\ UpdateWeapon(st, p, slots, k).inventory[p][i]
                   = UpdateWeapon(st, p, slots, k).weapons[i]
         /\ \A i \in Weps : st.weapons[i] # NoEquipment =>
              /\ UpdateWeapon(st, p, slots, k).weapons[i] = st.weapons[i]
              /\ UpdateWeapon(st, p, slots, k).equipment[st.weapons[i]].type
                   = st.equipment[st.weapons[i]].type
              /\ i # slots[k].idx =>
                   UpdateWeapon(st, p, slots, k).equipment[st.weapons[i]].owner
                     = st.equipment[st.weapons[i]].owner
         /\ LET e == UpdateWeapon(st, p, slots, k).weapons[slots[k].idx]
            IN  e # NoEquipment /\ UpdateWeapon(st, p, slots, k).equipment[e].owner = p
<1> DEFINE w == slots[k].idx
           got == GetWep(st, {w})
           e == got.weapons[w]
           b == [got.equipment EXCEPT ![e].owner = p]
           owned == [weapons |-> got.weapons, equipment |-> b, inventory |-> got.inventory]
           new == SetPlayerInventory(owned, p, slots)
<1>1. w \in Weps
  BY DEF Handles
<1>2. /\ got \in GameStates /\ got.inventory = st.inventory /\ e # NoEquipment
      /\ \A i \in Weps : st.weapons[i] # NoEquipment =>
              /\ got.weapons[i] = st.weapons[i]
              /\ got.equipment[st.weapons[i]] = st.equipment[st.weapons[i]]
  <2>1. {w} \in SUBSET Weps
    BY <1>1
  <2> HIDE DEF w
  <2> QED BY <2>1, GotIs
<1> HIDE DEF got, w
<1>3. UpdateWeapon(st, p, slots, k) = new
  <2>1. got = [weapons |-> got.weapons, equipment |-> got.equipment, inventory |-> got.inventory]
    BY <1>2 DEF GameStates
  <2> HIDE DEF b
  <2>2. [got EXCEPT !.equipment = b] = owned
    BY <2>1
  <2>3. UpdateWeapon(st, p, slots, k)
          = SetPlayerInventory([got EXCEPT !.equipment = b], p, slots)
    BY DEF UpdateWeapon, got, w, b
  <2> QED BY <2>2, <2>3
<1>4. /\ got.weapons \in [Weps -> Ids \cup {NoEquipment}] /\ got.equipment \in [Ids -> Infos]
      /\ got.inventory \in [Players -> Inventories]
      /\ \A i \in Weps : got.weapons[i] # NoEquipment =>
           got.weapons[i] \in Ids /\ got.weapons[i][1] = i
      /\ \A q \in Players : \A i \in DOMAIN got.inventory[q] : got.inventory[q][i][1] = i
  BY <1>2, GameStateIs
<1>5. e \in Ids /\ e[1] = w
  BY <1>1, <1>2, <1>4
<1>6. /\ b \in [Ids -> Infos] /\ b[e].owner = p
      /\ \A d \in Ids : b[d].type = got.equipment[d].type /\ (d # e => b[d] = got.equipment[d])
  BY <1>4, <1>5 DEF Infos
<1> HIDE DEF b
<1>7. owned \in GameStates
  BY <1>4, <1>6, MakesState
<1>8. owned.weapons = got.weapons /\ owned.equipment = b /\ owned.inventory = got.inventory
  OBVIOUS
<1> HIDE DEF owned
<1>9. /\ new \in GameStates
      /\ \A q \in Players \ {p} : new.inventory[q] = owned.inventory[q]
      /\ DOMAIN new.inventory[p] = Held(slots)
      /\ \A i \in Held(slots) :
           new.weapons[i] # NoEquipment /\ new.inventory[p][i] = new.weapons[i]
      /\ \A i \in Weps : owned.weapons[i] # NoEquipment =>
           /\ new.weapons[i] = owned.weapons[i]
           /\ new.equipment[owned.weapons[i]] = owned.equipment[owned.weapons[i]]
  BY <1>7, InventoryIs
<1> HIDE DEF new
<1>10. ASSUME NEW i \in Weps, st.weapons[i] # NoEquipment
       PROVE  /\ new.weapons[i] = st.weapons[i]
              /\ new.equipment[st.weapons[i]].type = st.equipment[st.weapons[i]].type
              /\ i # w => new.equipment[st.weapons[i]].owner = st.equipment[st.weapons[i]].owner
  <2>1. got.weapons[i] = st.weapons[i] /\ got.equipment[st.weapons[i]] = st.equipment[st.weapons[i]]
    BY <1>2, <1>10
  <2>2. st.weapons[i] \in Ids /\ (i # w => st.weapons[i] # e)
    BY <1>4, <1>5, <1>10, <2>1
  <2>3. new.weapons[i] = st.weapons[i] /\ new.equipment[st.weapons[i]] = b[st.weapons[i]]
    BY <1>8, <1>9, <1>10, <2>1
  <2> QED BY <1>6, <2>1, <2>2, <2>3
<1>11. new.weapons[w] # NoEquipment /\ new.equipment[new.weapons[w]].owner = p
  BY <1>1, <1>2, <1>6, <1>8, <1>9
<1> QED
  BY <1>3, <1>8, <1>2, <1>9, <1>10, <1>11 DEF w

(* What the handlers of a pawn make of what the parser keeps: the player's *)
(* inventory, and the owners of the weapons in slots that change.          *)
Changed(p) == {k \in DOMAIN server.slots[p] : Kept(p)[k] # server.slots[p][k]}
New(p) == {server.slots[p][k].idx : k \in Changed(p)}

LEMMA SlotsAre ==
  ASSUME server \in Servers, before \in Servers, NEW p \in Players
  PROVE  /\ server.slots[p] \in Seq(Handles) /\ Len(server.slots[p]) \in Nat
         /\ before.slots[p] \in Seq(Handles) /\ Len(before.slots[p]) \in Nat
         /\ DOMAIN server.slots[p] = 1 .. Len(server.slots[p])
         /\ DOMAIN before.slots[p] = 1 .. Len(before.slots[p])
         /\ \A k \in DOMAIN server.slots[p] : server.slots[p][k] \in Handles
         /\ \A k \in DOMAIN before.slots[p] : before.slots[p][k] \in Handles
<1>1. server.slots[p] \in Seq(Handles) /\ before.slots[p] \in Seq(Handles)
  BY DEF Servers
<1> QED
  BY <1>1, ElementOfSeq, LenProperties

LEMMA ReadIs ==
  ASSUME server \in Servers, before \in Servers, NEW p \in Players, NEW k \in Nat
  PROVE  /\ Read(p, k) \in Slots /\ Kept(p) \in Slots
         /\ DOMAIN Read(p, k) = 1 .. Len(server.slots[p])
         /\ DOMAIN Kept(p) = 1 .. Len(server.slots[p])
         /\ \A j \in 1 .. Len(server.slots[p]) :
              Read(p, k)[j] = IF j <= k THEN server.slots[p][j] ELSE Kept(p)[j]
<1>1. \A j \in 1 .. Len(server.slots[p]) : Kept(p)[j] \in Handles \cup {NoHandle}
  BY SlotsAre DEF Kept
<1>2. Kept(p) \in [1 .. Len(server.slots[p]) -> Handles \cup {NoHandle}]
  BY <1>1, SlotsAre DEF Kept
<1>3. Read(p, k) \in [1 .. Len(server.slots[p]) -> Handles \cup {NoHandle}]
  BY <1>1, SlotsAre DEF Read
<1>4. 1 .. Len(server.slots[p]) \in SUBSET Nat
  BY SlotsAre
<1>5. \A j \in 1 .. Len(server.slots[p]) :
        Read(p, k)[j] = IF j <= k THEN server.slots[p][j] ELSE Kept(p)[j]
  BY SlotsAre DEF Read
<1> QED
  BY <1>2, <1>3, <1>4, <1>5 DEF Slots

LEMMA PawnIs ==
  ASSUME server \in Servers, before \in Servers, State \in GameStates, NEW p \in Players,
         before.slots[p] # server.slots[p], PawnUpdate(p)
  PROVE  /\ State' \in GameStates
         /\ \A q \in Players \ {p} : inventory'[q] = inventory[q]
         /\ DOMAIN inventory'[p] = Held(server.slots[p])
         /\ \A i \in Held(server.slots[p]) :
              weapons'[i] # NoEquipment /\ inventory'[p][i] = weapons'[i]
         /\ \A i \in Weps : weapons[i] # NoEquipment =>
              /\ weapons'[i] = weapons[i]
              /\ equipment'[weapons[i]].type = equipment[weapons[i]].type
              /\ i \notin New(p) => equipment'[weapons[i]].owner = equipment[weapons[i]].owner
         /\ \A i \in New(p) : weapons'[i] # NoEquipment /\ equipment'[weapons'[i]].owner = p
<1> DEFINE new == server.slots[p]
           old == before.slots[p]
           N == Len(new)
           kept == Kept(p)
           Do(k, st) == IF kept[k] = new[k] THEN st ELSE UpdateWeapon(st, p, Read(p, k), k)
           step == [k \in 1 .. N |-> [st \in GameStates |-> Do(k, st)]]
           After(f) == f = [k \in 0 .. N |->
                              IF k = 0 THEN Sized(p)
                              ELSE IF kept[k] = new[k] THEN f[k - 1]
                                   ELSE UpdateWeapon(f[k - 1], p, Read(p, k), k)]
           after == CHOOSE f : After(f)
<1>1. /\ N \in Nat /\ Len(old) \in Nat /\ DOMAIN new = 1 .. N /\ DOMAIN old = 1 .. Len(old)
      /\ new \in Seq(Handles) /\ old \in Seq(Handles)
      /\ \A k \in 1 .. N : new[k] \in Handles
  BY SlotsAre
<1>2. /\ \A k \in 0 .. N : /\ Read(p, k) \in Slots /\ DOMAIN Read(p, k) = 1 .. N
                           /\ \A j \in 1 .. N : Read(p, k)[j] = IF j <= k THEN new[j] ELSE kept[j]
      /\ kept \in Slots /\ DOMAIN kept = 1 .. N
  <2> HIDE DEF kept
  <2>1. 0 .. N \subseteq Nat /\ 0 \in 0 .. N
    BY <1>1
  <2>2. kept \in Slots /\ DOMAIN kept = 1 .. N
    BY ReadIs DEF kept
  <2> QED BY <2>1, <2>2, ReadIs DEF kept
<1>3. \A k \in 1 .. N : /\ k \in 0 .. N /\ k \in DOMAIN Read(p, k) /\ Read(p, k)[k] = new[k]
                        /\ Read(p, k)[k] \in Handles /\ Read(p, k) \in Slots
  BY <1>1, <1>2
<1>4. \A k \in 1 .. N, st \in GameStates : Do(k, st) \in GameStates
  <2> HIDE DEF kept
  <2> QED BY <1>3, UpdateIs
<1>5. /\ Sized(p) \in GameStates
      /\ \A q \in Players \ {p} : Sized(p).inventory[q] = inventory[q]
      /\ Len(old) # N => /\ DOMAIN Sized(p).inventory[p] = Held(kept)
                         /\ \A i \in Held(kept) : /\ Sized(p).weapons[i] # NoEquipment
                                                  /\ Sized(p).inventory[p][i] = Sized(p).weapons[i]
      /\ \A i \in Weps : weapons[i] # NoEquipment =>
           /\ Sized(p).weapons[i] = weapons[i]
           /\ Sized(p).equipment[weapons[i]] = equipment[weapons[i]]
  <2>1. State.weapons = weapons /\ State.equipment = equipment /\ State.inventory = inventory
    BY DEF State
  <2> HIDE DEF kept
  <2>2. CASE Len(old) = N
    BY <2>1, <2>2 DEF Sized
  <2>3. CASE Len(old) # N
    <3>1. Sized(p) = SetPlayerInventory(State, p, kept)
      BY <2>3 DEF Sized, LengthUpdate, kept
    <3> QED BY <1>2, <2>1, <2>3, <3>1, InventoryIs
  <2> QED BY <2>2, <2>3
<1>6. \E f : After(f)
  <2>1. step \in [1 .. N -> [GameStates -> GameStates]]
    <3> HIDE DEF Do, N
    <3> QED BY <1>4
  <2>2. PICK f \in [0 .. N -> GameStates] : Iterates(f, Sized(p), step, N)
    <3> HIDE DEF step, N
    <3> QED BY <1>1, <1>5, <2>1, Iterated
  <2> HIDE DEF Do, N
  <2>3. ASSUME NEW k \in 0 .. N
        PROVE  (IF k = 0 THEN Sized(p) ELSE step[k][f[k - 1]])
                 = (IF k = 0 THEN Sized(p) ELSE Do(k, f[k - 1]))
    <3>1. k # 0 => k \in 1 .. N /\ k - 1 \in 0 .. N
      BY <1>1
    <3>2. k # 0 => f[k - 1] \in GameStates
      BY <3>1
    <3> QED BY <3>1, <3>2
  <2>4. f = [k \in 0 .. N |-> IF k = 0 THEN Sized(p) ELSE Do(k, f[k - 1])]
    <3> HIDE DEF step
    <3> QED BY <2>2, <2>3 DEF Iterates
  <2> HIDE DEF kept, new
  <2>5. After(f)
    BY <2>4 DEF Do
  <2> QED BY <2>5
<1>7. After(after)
  BY <1>6
<1>8. Becomes(after[N])
  BY DEF PawnUpdate
<1> HIDE DEF after
<1> DEFINE Had(st, k) ==
             Len(old) = N /\ (\A j \in 1 .. N : j <= k => kept[j] = new[j])
           Has(st, k) ==
             /\ DOMAIN st.inventory[p] = Held(Read(p, k))
             /\ \A i \in Held(Read(p, k)) :
                  st.weapons[i] # NoEquipment /\ st.inventory[p][i] = st.weapons[i]
           Found(k) == {new[j].idx : j \in {l \in 1 .. N : l <= k /\ kept[l] # new[l]}}
           Good(st, k) ==
             /\ st \in GameStates
             /\ \A q \in Players \ {p} : st.inventory[q] = inventory[q]
             /\ Had(st, k) \/ Has(st, k)
             /\ \A i \in Weps : weapons[i] # NoEquipment =>
                  /\ st.weapons[i] = weapons[i]
                  /\ st.equipment[weapons[i]].type = equipment[weapons[i]].type
                  /\ i \notin Found(k) => st.equipment[weapons[i]].owner = equipment[weapons[i]].owner
             /\ \A i \in Found(k) : st.weapons[i] # NoEquipment /\ st.equipment[st.weapons[i]].owner = p
           S == {k \in 0 .. N : Good(after[k], k)}
<1>9. Good(after[0], 0)
  <2>1. after[0] = Sized(p)
    BY <1>1, <1>7
  <2>2. Found(0) = {} /\ Read(p, 0) = kept
    <3>1. \A j \in 1 .. N : ~(j <= 0)
      OBVIOUS
    <3>2. Found(0) = {}
      BY <3>1
    <3>3. Read(p, 0) = [j \in DOMAIN new |-> kept[j]]
      BY <1>1, <3>1 DEF Read
    <3>4. kept = [j \in DOMAIN new |-> kept[j]]
      BY DEF Kept
    <3> QED BY <3>2, <3>3, <3>4
  <2> HIDE DEF Found, kept
  <2>3. Had(after[0], 0) \/ Has(after[0], 0)
    BY <1>5, <2>1, <2>2
  <2> QED BY <1>5, <2>1, <2>2, <2>3
<1>10. ASSUME NEW k \in 0 .. N - 1, Good(after[k], k) PROVE Good(after[k + 1], k + 1)
  <2> DEFINE m == k + 1
             st == after[k]
             nx == after[m]
  <2>1. m \in 1 .. N /\ m \in 0 .. N /\ m # 0 /\ m - 1 = k /\ k \in 0 .. N
    BY <1>1
  <2> HIDE DEF m, N, kept, new
  <2>2. nx = IF kept[m] = new[m] THEN st ELSE UpdateWeapon(st, p, Read(p, m), m)
    BY <1>7, <2>1
  <2>3. \A j \in 1 .. N : j <= m <=> j <= k \/ j = m
    BY <2>1 DEF m
  <2> HIDE DEF st, nx
  <2>4. CASE kept[m] = new[m]
    <3>1. nx = st
      BY <2>2, <2>4
    <3>2. Found(m) = Found(k)
      BY <2>3, <2>4
    <3>3. Read(p, m) = Read(p, k)
      <4>1. \A j \in 1 .. N : Read(p, m)[j] = Read(p, k)[j]
        BY <1>2, <2>1, <2>3, <2>4
      <4>2. \A n \in 0 .. N : Read(p, n) = [j \in 1 .. N |-> Read(p, n)[j]]
        BY <1>1 DEF Read, N, new
      <4> QED BY <2>1, <4>1, <4>2
    <3>4. Had(st, k) => Had(st, m)
      BY <2>3, <2>4
    <3>5. Good(st, k)
      BY <1>10 DEF st
    <3> HIDE DEF Had, Found
    <3>6. Has(st, k) => Has(st, m)
      BY <3>3
    <3>7. Good(st, m)
      <4> HIDE DEF Has
      <4> QED BY <3>2, <3>4, <3>5, <3>6
    <3> HIDE DEF Good
    <3> QED BY <3>1, <3>7 DEF nx, m
  <2>5. CASE kept[m] # new[m]
    <3>1. nx = UpdateWeapon(st, p, Read(p, m), m)
      BY <2>2, <2>5
    <3>2. st \in GameStates
      BY <1>10 DEF st
    <3> DEFINE w == new[m].idx
    <3>3. /\ nx \in GameStates
          /\ \A q \in Players \ {p} : nx.inventory[q] = st.inventory[q]
          /\ Has(nx, m)
          /\ \A i \in Weps : st.weapons[i] # NoEquipment =>
               /\ nx.weapons[i] = st.weapons[i]
               /\ nx.equipment[st.weapons[i]].type = st.equipment[st.weapons[i]].type
               /\ i # w => nx.equipment[st.weapons[i]].owner = st.equipment[st.weapons[i]].owner
          /\ nx.weapons[w] # NoEquipment /\ nx.equipment[nx.weapons[w]].owner = p
      <4> DEFINE slots == Read(p, m)
      <4>1. slots \in Slots /\ m \in DOMAIN slots /\ slots[m] \in Handles /\ slots[m].idx = w
        BY <1>3, <2>1
      <4>2. nx = UpdateWeapon(st, p, slots, m)
        BY <3>1
      <4> HIDE DEF slots, w
      <4>3. /\ UpdateWeapon(st, p, slots, m) \in GameStates
            /\ \A q \in Players \ {p} : UpdateWeapon(st, p, slots, m).inventory[q] = st.inventory[q]
            /\ DOMAIN UpdateWeapon(st, p, slots, m).inventory[p] = Held(slots)
            /\ \A i \in Held(slots) :
                 /\ UpdateWeapon(st, p, slots, m).weapons[i] # NoEquipment
                 /\ UpdateWeapon(st, p, slots, m).inventory[p][i]
                      = UpdateWeapon(st, p, slots, m).weapons[i]
            /\ \A i \in Weps : st.weapons[i] # NoEquipment =>
                 /\ UpdateWeapon(st, p, slots, m).weapons[i] = st.weapons[i]
                 /\ UpdateWeapon(st, p, slots, m).equipment[st.weapons[i]].type
                      = st.equipment[st.weapons[i]].type
                 /\ i # slots[m].idx =>
                      UpdateWeapon(st, p, slots, m).equipment[st.weapons[i]].owner
                        = st.equipment[st.weapons[i]].owner
            /\ UpdateWeapon(st, p, slots, m).weapons[slots[m].idx] # NoEquipment
            /\ UpdateWeapon(st, p, slots, m).equipment[
                 UpdateWeapon(st, p, slots, m).weapons[slots[m].idx]].owner = p
        BY <3>2, <4>1, UpdateIs
      <4> QED BY <4>1, <4>2, <4>3 DEF slots
    <3>4. Found(m) = Found(k) \cup {w}
      BY <2>1, <2>3, <2>5
    <3>5. w \in Weps /\ Found(k) \subseteq Weps
      BY <1>1, <2>1 DEF Handles, N, new
    <3> HIDE DEF w, Found
    <3>6. /\ \A q \in Players \ {p} : st.inventory[q] = inventory[q]
          /\ \A i \in Weps : weapons[i] # NoEquipment =>
               /\ st.weapons[i] = weapons[i]
               /\ st.equipment[weapons[i]].type = equipment[weapons[i]].type
               /\ i \notin Found(k) => st.equipment[weapons[i]].owner = equipment[weapons[i]].owner
          /\ \A i \in Found(k) : st.weapons[i] # NoEquipment /\ st.equipment[st.weapons[i]].owner = p
      BY <1>10 DEF st
    <3>7. \A i \in Found(m) : nx.weapons[i] # NoEquipment /\ nx.equipment[nx.weapons[i]].owner = p
      BY <3>3, <3>4, <3>5, <3>6
    <3>8. \A i \in Weps : weapons[i] # NoEquipment =>
            /\ nx.weapons[i] = weapons[i]
            /\ nx.equipment[weapons[i]].type = equipment[weapons[i]].type
            /\ i \notin Found(m) => nx.equipment[weapons[i]].owner = equipment[weapons[i]].owner
      BY <3>3, <3>4, <3>6
    <3> HIDE DEF Has, Had
    <3> QED BY <3>3, <3>6, <3>7, <3>8 DEF nx, m
  <2> QED BY <2>4, <2>5
<1>11. Good(after[N], N)
  <2>1. \A k \in 0 .. N : k \in S
    <3>1. 0 \in S /\ \A k \in 0 .. N - 1 : k \in S => k + 1 \in S
      <4>1. 0 \in 0 .. N /\ \A k \in 0 .. N - 1 : k + 1 \in 0 .. N
        BY <1>1
      <4> HIDE DEF Good, N
      <4> QED BY <1>9, <1>10, <4>1
    <3> HIDE DEF S, N
    <3> QED BY <1>1, <3>1, UpTo
  <2>2. N \in 0 .. N
    BY <1>1
  <2> HIDE DEF Good, N
  <2> QED BY <2>1, <2>2
<1>12. Read(p, N) = new /\ Found(N) = New(p)
  <2>1. \A j \in 1 .. N : j <= N
    BY <1>1
  <2>2. N \in 0 .. N
    BY <1>1
  <2>3. Read(p, N) = new
    <3>1. \A j \in 1 .. N : Read(p, N)[j] = new[j]
      BY <1>2, <2>1, <2>2
    <3>2. Read(p, N) = [j \in DOMAIN new |-> Read(p, N)[j]]
      BY DEF Read
    <3>3. new = [j \in 1 .. N |-> new[j]]
      BY <1>1
    <3> HIDE DEF new, N
    <3> QED BY <1>1, <3>1, <3>2, <3>3
  <2>4. Found(N) = New(p)
    BY <1>1, <2>1 DEF New, Changed
  <2> QED BY <2>3, <2>4
<1>13. ~Had(after[N], N)
  <2> SUFFICES ASSUME Had(after[N], N) PROVE FALSE
    OBVIOUS
  <2>1. Len(old) = N /\ \A j \in 1 .. N : kept[j] = new[j]
    BY <1>1
  <2>2. \A j \in 1 .. N : kept[j] = old[j]
    BY <1>1, <2>1 DEF Kept
  <2>3. old = new
    BY <1>1, <2>1, <2>2, SeqEqual
  <2> QED BY <2>3
<1>14. weapons' = after[N].weapons /\ equipment' = after[N].equipment /\ inventory' = after[N].inventory
  BY <1>8 DEF Becomes
<1>15. State' = after[N]
  <2>1. after[N] \in GameStates
    BY <1>11
  <2> HIDE DEF N
  <2> QED BY <1>14, <2>1 DEF State, GameStates
<1> HIDE DEF N, new, Had, Found
<1> QED
  BY <1>11, <1>12, <1>13, <1>14, <1>15 DEF new

---------------------------------------------------------------------------
(* The server's frames                                                     *)

LEMMA ListIs ==
  ASSUME NEW seq, NEW H, Lists(seq, H)
  PROVE  /\ seq \in Seq(Handles) /\ Len(seq) \in Nat /\ DOMAIN seq = 1 .. Len(seq)
         /\ \A k \in 1 .. Len(seq) : seq[k] \in H /\ seq[k] \in Handles
         /\ \A h \in H : \E k \in 1 .. Len(seq) : seq[k] = h
         /\ \A j, k \in 1 .. Len(seq) : seq[j].idx = seq[k].idx => j = k
<1>1. seq \in Seq(Handles) /\ Len(seq) \in Nat /\ DOMAIN seq = 1 .. Len(seq)
  BY LenProperties DEF Lists
<1>2. \A k \in 1 .. Len(seq) : seq[k] \in Handles
  BY <1>1, ElementOfSeq
<1> QED
  BY <1>1, <1>2 DEF Lists

LEMMA Listed ==
  ASSUME NEW seq, NEW H, seq \in Seq(Handles), \A k \in 1 .. Len(seq) : seq[k] \in H,
         \A h \in H : \E k \in 1 .. Len(seq) : seq[k] = h,
         \A j, k \in 1 .. Len(seq) : seq[j].idx = seq[k].idx => j = k
  PROVE  Lists(seq, H)
<1>1. DOMAIN seq = 1 .. Len(seq)
  BY LenProperties
<1> QED
  BY <1>1 DEF Lists

LEMMA ListsMore ==
  ASSUME NEW seq, NEW H, Lists(seq, H), NEW h \in Handles, \A g \in H : g.idx # h.idx
  PROVE  Lists(Append(seq, h), H \cup {h})
<1> DEFINE new == Append(seq, h)
           n == Len(seq)
<1>1. /\ seq \in Seq(Handles) /\ n \in Nat
      /\ \A k \in 1 .. n : seq[k] \in H
      /\ \A g \in H : \E k \in 1 .. n : seq[k] = g
      /\ \A j, k \in 1 .. n : seq[j].idx = seq[k].idx => j = k
  BY ListIs
<1>2. /\ new \in Seq(Handles) /\ Len(new) = n + 1 /\ new[n + 1] = h
      /\ \A k \in 1 .. n : new[k] = seq[k]
  BY <1>1, AppendProperties
<1> HIDE DEF new, n
<1>3. \A k \in 1 .. n + 1 : k \in 1 .. n \/ k = n + 1
  BY <1>1
<1>4. \A k \in 1 .. n : k \in 1 .. n + 1
  BY <1>1
<1>5. \A k \in 1 .. n + 1 : new[k] \in H \cup {h}
  BY <1>1, <1>2, <1>3
<1>6. \A g \in H \cup {h} : \E k \in 1 .. n + 1 : new[k] = g
  <2>1. n + 1 \in 1 .. n + 1
    BY <1>1
  <2> QED BY <1>1, <1>2, <1>4, <2>1
<1>7. \A j, k \in 1 .. n + 1 : new[j].idx = new[k].idx => j = k
  BY <1>1, <1>2, <1>3
<1> DEFINE G == H \cup {h}
<1>8. Lists(new, G)
  <2>1. new \in Seq(Handles) /\ Len(new) = n + 1
    BY <1>2
  <2> HIDE DEF G
  <2> QED BY <2>1, <1>5, <1>6, <1>7, Listed DEF G
<1> QED
  BY <1>8 DEF new, G

LEMMA ListsLess ==
  ASSUME NEW seq, NEW H, Lists(seq, H), NEW m \in 1 .. Len(seq)
  PROVE  Lists(RemoveAt(seq, m), {h \in H : h.idx # seq[m].idx})
<1> DEFINE new == RemoveAt(seq, m)
           a == SubSeq(seq, 1, m - 1)
           b == SubSeq(seq, m + 1, Len(seq))
           n == Len(seq)
           G == {h \in H : h.idx # seq[m].idx}
<1>1. /\ n \in Nat /\ \A k \in 1 .. n : seq[k] \in H /\ seq[k] \in Handles
      /\ \A g \in H : \E k \in 1 .. n : seq[k] = g
      /\ \A j, k \in 1 .. n : seq[j].idx = seq[k].idx => j = k
  BY ListIs
<1>2. /\ a \in Seq(Handles) /\ Len(a) = m - 1 /\ \A i \in 1 .. m - 1 : a[i] = seq[i]
      /\ b \in Seq(Handles) /\ Len(b) = n - m /\ \A i \in 1 .. n - m : b[i] = seq[m + i]
  <2> HIDE DEF n
  <2>1. m \in 1 .. n
    BY DEF n
  <2>2. /\ 1 \in Int /\ m - 1 \in Int /\ m + 1 \in Int /\ n \in Int
        /\ \A i \in 1 .. m - 1 : seq[i] \in Handles
        /\ \A i \in m + 1 .. n : seq[i] \in Handles
        /\ (m - 1) - 1 + 1 = m - 1 /\ n - (m + 1) + 1 = n - m
        /\ 1 <= m - 1 \/ m - 1 = 0
        /\ m + 1 <= n \/ n - m = 0
        /\ ~(1 <= 0) /\ (n = m => ~(m + 1 <= n))
        /\ \A i \in 1 .. m - 1 : 1 + i - 1 = i
        /\ \A i \in 1 .. n - m : (m + 1) + i - 1 = m + i
    BY <1>1, <2>1
  <2>3. /\ a \in Seq(Handles) /\ Len(a) = (IF 1 <= m - 1 THEN (m - 1) - 1 + 1 ELSE 0)
        /\ \A i \in 1 .. (m - 1) - 1 + 1 : a[i] = seq[1 + i - 1]
    BY <2>2, SubSeqProperties
  <2>4. /\ b \in Seq(Handles) /\ Len(b) = (IF m + 1 <= n THEN n - (m + 1) + 1 ELSE 0)
        /\ \A i \in 1 .. n - (m + 1) + 1 : b[i] = seq[(m + 1) + i - 1]
    <3> DEFINE c == m + 1
    <3>1. c \in Int /\ n \in Int /\ \A i \in c .. n : seq[i] \in Handles
      BY <2>2
    <3>2. b = SubSeq(seq, c, n)
      BY DEF n
    <3> HIDE DEF b, c
    <3>3. /\ b \in Seq(Handles) /\ Len(b) = (IF c <= n THEN n - c + 1 ELSE 0)
          /\ \A i \in 1 .. n - c + 1 : b[i] = seq[c + i - 1]
      BY <3>1, <3>2, SubSeqProperties
    <3> QED BY <3>3 DEF c
  <2> HIDE DEF a, b
  <2>5. n = m \/ m + 1 <= n
    BY <1>1, <2>1
  <2> QED BY <1>1, <2>1, <2>2, <2>3, <2>4, <2>5
<1>3. new = a \o b
  BY DEF RemoveAt
<1> HIDE DEF a, b, new, n
<1>4. m \in 1 .. n
  BY DEF n
<1>5. /\ new \in Seq(Handles) /\ Len(new) = n - 1
      /\ \A i \in 1 .. n - 1 : new[i] = IF i < m THEN seq[i] ELSE seq[i + 1]
  <2>1. /\ new \in Seq(Handles) /\ Len(new) = (m - 1) + (n - m)
        /\ \A i \in 1 .. (m - 1) + (n - m) :
             new[i] = IF i <= m - 1 THEN a[i] ELSE b[i - (m - 1)]
    BY <1>2, <1>3, ConcatProperties
  <2>2. (m - 1) + (n - m) = n - 1
    BY <1>1, <1>4
  <2>3. ASSUME NEW i \in 1 .. n - 1
        PROVE  new[i] = IF i < m THEN seq[i] ELSE seq[i + 1]
    <3>1. i <= m - 1 => i < m /\ i \in 1 .. m - 1
      BY <1>1, <1>4
    <3>2. ~(i <= m - 1) => ~(i < m) /\ i - (m - 1) \in 1 .. n - m /\ m + (i - (m - 1)) = i + 1
      BY <1>1, <1>4
    <3> QED BY <1>2, <2>1, <2>2, <3>1, <3>2
  <2> QED BY <2>1, <2>2, <2>3
<1>6. \A i \in 1 .. n - 1 : new[i] \in G
  <2> SUFFICES ASSUME NEW i \in 1 .. n - 1 PROVE new[i] \in G
    OBVIOUS
  <2>1. PICK k \in 1 .. n : k # m /\ new[i] = seq[k]
    <3>1. i \in 1 .. n /\ i + 1 \in 1 .. n /\ (i < m => i # m) /\ (~(i < m) => i + 1 # m)
      BY <1>1, <1>4
    <3> QED BY <1>5, <3>1
  <2> QED BY <1>1, <1>4, <2>1
<1>7. \A g \in G : \E i \in 1 .. n - 1 : new[i] = g
  <2> SUFFICES ASSUME NEW g \in G PROVE \E i \in 1 .. n - 1 : new[i] = g
    OBVIOUS
  <2>1. PICK k \in 1 .. n : seq[k] = g
    BY <1>1
  <2>2. k # m
    BY <2>1
  <2>3. CASE k < m
    <3>1. k \in 1 .. n - 1
      BY <1>1, <1>4, <2>3
    <3> QED BY <1>5, <2>1, <2>3, <3>1
  <2>4. CASE ~(k < m)
    <3>1. k - 1 \in 1 .. n - 1 /\ ~(k - 1 < m) /\ (k - 1) + 1 = k
      BY <1>1, <1>4, <2>2, <2>4
    <3> QED BY <1>5, <2>1, <3>1
  <2> QED BY <2>3, <2>4
<1>8. \A i, j \in 1 .. n - 1 : new[i].idx = new[j].idx => i = j
  <2> SUFFICES ASSUME NEW i \in 1 .. n - 1, NEW j \in 1 .. n - 1, new[i].idx = new[j].idx
               PROVE  i = j
    OBVIOUS
  <2> DEFINE K == IF i < m THEN i ELSE i + 1
             L == IF j < m THEN j ELSE j + 1
  <2>1. K \in 1 .. n /\ L \in 1 .. n /\ (K = L => i = j)
    BY <1>1, <1>4
  <2>2. new[i] = seq[K] /\ new[j] = seq[L]
    BY <1>5
  <2> HIDE DEF K, L
  <2> QED BY <1>1, <2>1, <2>2
<1> QED
  <2> HIDE DEF G
  <2>1. Lists(new, G)
    BY <1>5, <1>6, <1>7, <1>8, Listed
  <2> QED BY <2>1 DEF new, G

LEMMA GivenIs ==
  ASSUME NEW t \in Servers, SlotsOK(t), NEW p \in Players, NEW h \in Handles,
         \A g \in Handed(t, p) : g.idx # h.idx
  PROVE  /\ Given(t, p, h) \in [Players -> Seq(Handles)]
         /\ Lists(Given(t, p, h)[p], Handed(t, p) \cup {h})
         /\ \A q \in Players \ {p} : Lists(Given(t, p, h)[q], Handed(t, q))
<1>1. t.slots \in [Players -> Seq(Handles)] /\ \A q \in Players : Lists(t.slots[q], Handed(t, q))
  BY DEF Servers, SlotsOK
<1>2. Lists(Append(t.slots[p], h), Handed(t, p) \cup {h})
  BY <1>1, ListsMore
<1>3. Append(t.slots[p], h) \in Seq(Handles)
  BY <1>2 DEF Lists
<1> QED
  BY <1>1, <1>2, <1>3 DEF Given

LEMMA WithoutIs ==
  ASSUME NEW t \in Servers, SlotsOK(t), NEW w \in Weps
  PROVE  /\ Without(t, w) \in [Players -> Seq(Handles)]
         /\ \A q \in Players : Lists(Without(t, w)[q], {h \in Handed(t, q) : h.idx # w})
<1> DEFINE o == t.wep[w].owner
           k == CHOOSE j \in DOMAIN t.slots[o] : t.slots[o][j].idx = w
<1>1. t.slots \in [Players -> Seq(Handles)] /\ \A q \in Players : Lists(t.slots[q], Handed(t, q))
  BY DEF Servers, SlotsOK
<1>2. ASSUME NEW q \in Players, q # o PROVE Lists(t.slots[q], {h \in Handed(t, q) : h.idx # w})
  <2>1. {h \in Handed(t, q) : h.idx # w} = Handed(t, q)
    BY <1>2 DEF Handed, Owned
  <2> QED BY <1>1, <2>1
<1>3. CASE o = Nil
  <2>1. Without(t, w) = t.slots
    BY <1>3 DEF Without
  <2>2. o \notin Players
    BY <1>3, WeaponsAssumption
  <2> QED BY <1>1, <1>2, <2>1, <2>2
<1>4. CASE o # Nil
  <2>1. o \in Players
    BY <1>4 DEF Servers
  <2>2. k \in 1 .. Len(t.slots[o]) /\ t.slots[o][k].idx = w
    <3>1. [idx |-> w, new |-> t.wep[w].new] \in Handed(t, o)
      BY DEF Handed, Owned
    <3>2. PICK j \in 1 .. Len(t.slots[o]) : t.slots[o][j] = [idx |-> w, new |-> t.wep[w].new]
      BY <1>1, <2>1, <3>1, ListIs
    <3>3. DOMAIN t.slots[o] = 1 .. Len(t.slots[o])
      BY <1>1, <2>1, ListIs
    <3>4. \E i \in DOMAIN t.slots[o] : t.slots[o][i].idx = w
      <4>1. j \in DOMAIN t.slots[o]
        BY <3>2, <3>3
      <4>2. t.slots[o][j].idx = w
        BY <3>2
      <4> QED BY <4>1, <4>2
    <3>5. k \in DOMAIN t.slots[o] /\ t.slots[o][k].idx = w
      BY <3>4
    <3> QED BY <3>3, <3>5
  <2>3. Without(t, w) = [t.slots EXCEPT ![o] = RemoveAt(t.slots[o], k)]
    BY <1>4 DEF Without
  <2> HIDE DEF o, k
  <2>4. Lists(RemoveAt(t.slots[o], k), {h \in Handed(t, o) : h.idx # w})
    BY <1>1, <2>1, <2>2, ListsLess
  <2>5. RemoveAt(t.slots[o], k) \in Seq(Handles)
    BY <2>4 DEF Lists
  <2> QED BY <1>1, <1>2, <2>1, <2>3, <2>4, <2>5
<1> QED
  BY <1>3, <1>4

(* The fields of the server's weapons                                      *)
Weapon == [type : AllTypes \cup {Nil}, owner : Players \cup {Nil}, new : BOOLEAN, takes : Nat]

LEMMA ServerIs ==
  ASSUME NEW t \in Servers
  PROVE  /\ t.wep \in [Weps -> Weapon] /\ t.slots \in [Players -> Seq(Handles)]
         /\ t.money \in [Players -> Nat]
         /\ t = [wep |-> t.wep, slots |-> t.slots, money |-> t.money]
BY DEF Servers, Weapon

LEMMA MakesServer ==
  ASSUME NEW a \in [Weps -> Weapon], NEW b \in [Players -> Seq(Handles)], NEW c \in [Players -> Nat]
  PROVE  [wep |-> a, slots |-> b, money |-> c] \in Servers
BY DEF Servers, Weapon

(* A deed                                                                  *)
Fits(s, t) == t \in Servers /\ SlotsOK(t) /\ Moves(s, t)

LEMMA BoughtFits ==
  ASSUME NEW s, NEW t, Fits(s, t), NEW u \in Buys(t)
  PROVE  Fits(s, u)
<1>1. PICK p \in {q \in Players : t.money[q] > 0}, w \in {v \in Weps : ~Exists(t, v)} :
        u \in {Bought(t, p, w, y) : y \in Types[w]}
  BY DEF Buys
<1>2. PICK y \in Types[w] : u = Bought(t, p, w, y)
  BY <1>1
<1>3. p \in Players /\ w \in Weps /\ t.money[p] > 0 /\ t.wep[w].type = Nil /\ t.wep[w].owner = Nil
  BY DEF Exists, Fits, SlotsOK
<1>4. y \in AllTypes /\ y # Nil /\ p # Nil
  BY <1>3, WeaponsAssumption DEF AllTypes
<1> DEFINE new == [type |-> y, owner |-> p, new |-> TRUE, takes |-> 0]
           h == [idx |-> w, new |-> TRUE]
           a == [t.wep EXCEPT ![w] = new]
           b == Given(t, p, h)
           c == [t.money EXCEPT ![p] = @ - 1]
<1>5. u = [wep |-> a, slots |-> b, money |-> c]
  BY <1>2 DEF Bought
<1>6. t.wep \in [Weps -> Weapon] /\ t.money \in [Players -> Nat]
  BY ServerIs DEF Fits
<1>7. new \in Weapon /\ new.type = y /\ new.owner = p /\ new.new = TRUE
  BY <1>3, <1>4 DEF Weapon
<1> HIDE DEF new
<1>8. a \in [Weps -> Weapon] /\ a[w] = new /\ \A v \in Weps \ {w} : a[v] = t.wep[v]
  BY <1>3, <1>6, <1>7
<1>9. c \in [Players -> Nat]
  BY <1>3, <1>6
<1>10. h \in Handles /\ h.idx = w /\ \A g \in Handed(t, p) : g.idx # h.idx
  BY <1>3, <1>4 DEF Handles, Handed, Owned
<1>11. /\ b \in [Players -> Seq(Handles)] /\ Lists(b[p], Handed(t, p) \cup {h})
       /\ \A q \in Players \ {p} : Lists(b[q], Handed(t, q))
  <2> HIDE DEF h
  <2> QED BY <1>3, <1>10, GivenIs DEF Fits
<1> HIDE DEF a, b, c
<1>12. u \in Servers
  BY <1>5, <1>8, <1>9, <1>11, MakesServer
<1>13. u.wep = a /\ u.slots = b
  BY <1>5
<1>14. Handed(u, p) = Handed(t, p) \cup {h}
  <2>1. Owned(u, p) = Owned(t, p) \cup {w}
    BY <1>3, <1>7, <1>8, <1>13 DEF Owned
  <2>2. \A v \in Owned(t, p) : u.wep[v].new = t.wep[v].new
    BY <1>3, <1>4, <1>8, <1>13 DEF Owned
  <2>3. [idx |-> w, new |-> u.wep[w].new] = h
    BY <1>3, <1>7, <1>8, <1>13
  <2> HIDE DEF h
  <2> QED BY <2>1, <2>2, <2>3 DEF Handed
<1>15. ASSUME NEW q \in Players \ {p} PROVE Handed(u, q) = Handed(t, q)
  <2>1. Owned(u, q) = Owned(t, q) /\ \A v \in Owned(u, q) : u.wep[v].new = t.wep[v].new
    BY <1>3, <1>4, <1>7, <1>8, <1>13, WeaponsAssumption DEF Owned
  <2> QED BY <2>1 DEF Handed
<1>16. SlotsOK(u)
  <2>1. \A v \in Weps : u.wep[v].type = Nil => u.wep[v].owner = Nil
    BY <1>4, <1>7, <1>8, <1>13 DEF Fits, SlotsOK
  <2> QED BY <1>11, <1>13, <1>14, <1>15, <2>1 DEF SlotsOK
<1>17. Moves(s, u)
  BY <1>4, <1>7, <1>8, <1>13 DEF Moves, Fits
<1> QED
  BY <1>12, <1>16, <1>17 DEF Fits

LEMMA DroppedFits ==
  ASSUME NEW s, NEW t, Fits(s, t), Old(t), NEW u \in Drops(t)
  PROVE  Fits(s, u) /\ Old(u)
<1>1. PICK w \in Weps : t.wep[w].owner # Nil /\ u = Dropped(t, w)
  BY DEF Drops
<1> DEFINE new == [t.wep[w] EXCEPT !.owner = Nil]
           a == [t.wep EXCEPT ![w] = new]
           b == Without(t, w)
<1>2. t.wep \in [Weps -> Weapon] /\ t.money \in [Players -> Nat]
  BY ServerIs DEF Fits
<1>3. /\ new \in Weapon /\ new.owner = Nil /\ new.type = t.wep[w].type
      /\ new.new = t.wep[w].new
  BY <1>2 DEF Weapon
<1> HIDE DEF new
<1>4. a \in [Weps -> Weapon] /\ a[w] = new /\ \A v \in Weps \ {w} : a[v] = t.wep[v]
  BY <1>2, <1>3
<1>5. u = [wep |-> a, slots |-> b, money |-> t.money]
  <2>1. t = [wep |-> t.wep, slots |-> t.slots, money |-> t.money]
    BY ServerIs DEF Fits
  <2>2. a = [t.wep EXCEPT ![w].owner = Nil]
    BY DEF a, new
  <2> HIDE DEF a, b
  <2>3. u = [t EXCEPT !.wep = a, !.slots = b]
    BY <1>1, <2>2 DEF Dropped, b
  <2> QED BY <2>1, <2>3
<1>6. /\ b \in [Players -> Seq(Handles)]
      /\ \A q \in Players : Lists(b[q], {h \in Handed(t, q) : h.idx # w})
  BY WithoutIs DEF Fits
<1> HIDE DEF a, b
<1>7. u \in Servers
  BY <1>2, <1>4, <1>5, <1>6, MakesServer
<1>8. u.wep = a /\ u.slots = b
  BY <1>5
<1>9. ASSUME NEW q \in Players PROVE Handed(u, q) = {h \in Handed(t, q) : h.idx # w}
  <2>1. Owned(u, q) = Owned(t, q) \ {w}
    BY <1>3, <1>4, <1>8, WeaponsAssumption DEF Owned
  <2>2. \A v \in Owned(u, q) : v # w /\ u.wep[v].new = t.wep[v].new
    BY <1>4, <1>8, <2>1 DEF Owned
  <2> QED BY <2>1, <2>2 DEF Handed
<1>10. SlotsOK(u)
  <2>1. \A v \in Weps : u.wep[v].type = Nil => u.wep[v].owner = Nil
    BY <1>3, <1>4, <1>8 DEF Fits, SlotsOK
  <2> QED BY <1>6, <1>8, <1>9, <2>1 DEF SlotsOK
<1>11. Moves(s, u) /\ Old(u)
  BY <1>3, <1>4, <1>8 DEF Moves, Fits, Old
<1> QED
  BY <1>7, <1>10, <1>11 DEF Fits

LEMMA TakenFits ==
  ASSUME NEW s, NEW t, Fits(s, t), NEW u \in Takes(t)
  PROVE  Fits(s, u)
<1>1. PICK p \in Players, w \in Free(t) : u = Taken(t, p, w)
  BY DEF Takes
<1>2. w \in Weps /\ t.wep[w].type # Nil /\ t.wep[w].owner = Nil /\ p # Nil
  BY WeaponsAssumption DEF Free, Exists
<1> DEFINE new == [t.wep[w] EXCEPT !.owner = p, !.takes = t.wep[w].takes + 1]
           h == [idx |-> w, new |-> t.wep[w].new]
           a == [t.wep EXCEPT ![w] = new]
           b == Given(t, p, h)
<1>3. t.wep \in [Weps -> Weapon] /\ t.money \in [Players -> Nat]
  BY ServerIs DEF Fits
<1>4. new \in Weapon /\ new.owner = p /\ new.type = t.wep[w].type /\ new.new = t.wep[w].new
  <2>1. t.wep[w] \in Weapon
    BY <1>2, <1>3
  <2> DEFINE r == t.wep[w]
             n == t.wep[w].takes + 1
  <2>2. r = [type |-> r.type, owner |-> r.owner, new |-> r.new, takes |-> r.takes]
    BY <2>1 DEF Weapon
  <2>3. n \in Nat /\ r.type \in AllTypes \cup {Nil} /\ r.new \in BOOLEAN
    BY <2>1 DEF Weapon
  <2> HIDE DEF r, n
  <2>4. new = [r EXCEPT !.owner = p, !.takes = n]
    BY DEF r, n
  <2> HIDE DEF new
  <2>5. new = [type |-> r.type, owner |-> p, new |-> r.new, takes |-> n]
    BY <2>2, <2>4
  <2> QED BY <2>3, <2>5 DEF Weapon, r
<1>5. u = [wep |-> a, slots |-> b, money |-> t.money]
  <2>1. t = [wep |-> t.wep, slots |-> t.slots, money |-> t.money]
    BY ServerIs DEF Fits
  <2>2. a = [t.wep EXCEPT ![w].owner = p, ![w].takes = t.wep[w].takes + 1]
    BY <1>2, <1>3 DEF Weapon
  <2> HIDE DEF a, b
  <2>3. u = [t EXCEPT !.wep = a, !.slots = b]
    BY <1>1, <2>2 DEF Taken, b
  <2> QED BY <2>1, <2>3
<1> HIDE DEF new
<1>6. a \in [Weps -> Weapon] /\ a[w] = new /\ \A v \in Weps \ {w} : a[v] = t.wep[v]
  BY <1>2, <1>3, <1>4
<1>7. h \in Handles /\ h.idx = w /\ \A g \in Handed(t, p) : g.idx # h.idx
  BY <1>2, <1>3 DEF Handles, Handed, Owned, Weapon
<1>8. /\ b \in [Players -> Seq(Handles)] /\ Lists(b[p], Handed(t, p) \cup {h})
      /\ \A q \in Players \ {p} : Lists(b[q], Handed(t, q))
  <2> HIDE DEF h
  <2> QED BY <1>7, GivenIs DEF Fits
<1> HIDE DEF a, b
<1>9. u \in Servers
  BY <1>3, <1>5, <1>6, <1>8, MakesServer
<1>10. u.wep = a /\ u.slots = b
  BY <1>5
<1>11. Handed(u, p) = Handed(t, p) \cup {h}
  <2>1. Owned(u, p) = Owned(t, p) \cup {w}
    BY <1>2, <1>4, <1>6, <1>10 DEF Owned
  <2>2. \A v \in Owned(t, p) : u.wep[v].new = t.wep[v].new
    BY <1>2, <1>6, <1>10 DEF Owned
  <2>3. [idx |-> w, new |-> u.wep[w].new] = h
    BY <1>2, <1>4, <1>6, <1>10
  <2> HIDE DEF h
  <2> QED BY <2>1, <2>2, <2>3 DEF Handed
<1>12. ASSUME NEW q \in Players \ {p} PROVE Handed(u, q) = Handed(t, q)
  <2>1. Owned(u, q) = Owned(t, q) /\ \A v \in Owned(u, q) : u.wep[v].new = t.wep[v].new
    BY <1>2, <1>4, <1>6, <1>10, WeaponsAssumption DEF Owned
  <2> QED BY <2>1 DEF Handed
<1>13. SlotsOK(u)
  <2>1. \A v \in Weps : u.wep[v].type = Nil => u.wep[v].owner = Nil
    BY <1>2, <1>4, <1>6, <1>10 DEF Fits, SlotsOK
  <2> QED BY <1>8, <1>10, <1>11, <1>12, <2>1 DEF SlotsOK
<1>14. Moves(s, u)
  BY <1>2, <1>4, <1>6, <1>10 DEF Moves, Fits
<1> QED
  BY <1>9, <1>13, <1>14 DEF Fits

LEMMA GoneFits ==
  ASSUME NEW s, NEW t, Fits(s, t), NEW u \in Removals(t)
  PROVE  Fits(s, u) /\ (Old(t) => Old(u))
<1>1. PICK w \in Weps : u = Gone(t, w)
  BY DEF Removals
<1> DEFINE a == [t.wep EXCEPT ![w] = NoWeapon]
           b == Without(t, w)
<1>2. t.wep \in [Weps -> Weapon] /\ t.money \in [Players -> Nat]
  BY ServerIs DEF Fits
<1>3. /\ NoWeapon \in Weapon /\ NoWeapon.type = Nil /\ NoWeapon.owner = Nil
      /\ NoWeapon.new = FALSE
  BY DEF Weapon, NoWeapon
<1>4. a \in [Weps -> Weapon] /\ a[w] = NoWeapon /\ \A v \in Weps \ {w} : a[v] = t.wep[v]
  BY <1>2, <1>3
<1>5. u = [wep |-> a, slots |-> b, money |-> t.money]
  <2>1. t = [wep |-> t.wep, slots |-> t.slots, money |-> t.money]
    BY ServerIs DEF Fits
  <2> HIDE DEF a, b
  <2>2. u = [t EXCEPT !.wep = a, !.slots = b]
    BY <1>1 DEF Gone, a, b
  <2> QED BY <2>1, <2>2
<1>6. /\ b \in [Players -> Seq(Handles)]
      /\ \A q \in Players : Lists(b[q], {h \in Handed(t, q) : h.idx # w})
  BY WithoutIs DEF Fits
<1> HIDE DEF a, b
<1>7. u \in Servers
  BY <1>2, <1>4, <1>5, <1>6, MakesServer
<1>8. u.wep = a /\ u.slots = b
  BY <1>5
<1>9. ASSUME NEW q \in Players PROVE Handed(u, q) = {h \in Handed(t, q) : h.idx # w}
  <2>1. Owned(u, q) = Owned(t, q) \ {w}
    BY <1>3, <1>4, <1>8, WeaponsAssumption DEF Owned
  <2>2. \A v \in Owned(u, q) : v # w /\ u.wep[v].new = t.wep[v].new
    BY <1>4, <1>8, <2>1 DEF Owned
  <2> QED BY <2>1, <2>2 DEF Handed
<1>10. SlotsOK(u)
  <2>1. \A v \in Weps : u.wep[v].type = Nil => u.wep[v].owner = Nil
    BY <1>3, <1>4, <1>8 DEF Fits, SlotsOK
  <2> QED BY <1>6, <1>8, <1>9, <2>1 DEF SlotsOK
<1>11. Moves(s, u) /\ (Old(t) => Old(u))
  BY <1>3, <1>4, <1>8 DEF Moves, Fits, Old
<1> QED
  BY <1>7, <1>10, <1>11 DEF Fits

LEMMA PaidFits ==
  ASSUME NEW s, NEW t, Fits(s, t), NEW u \in Pays(t)
  PROVE  Fits(s, u) /\ (Old(t) => Old(u))
<1>1. PICK p \in Players : u = [t EXCEPT !.money = [t.money EXCEPT ![p] = @ + 1]]
  BY DEF Pays
<1> DEFINE c == [t.money EXCEPT ![p] = @ + 1]
<1>2. /\ t.wep \in [Weps -> Weapon] /\ t.slots \in [Players -> Seq(Handles)]
      /\ t.money \in [Players -> Nat] /\ t = [wep |-> t.wep, slots |-> t.slots, money |-> t.money]
  BY ServerIs DEF Fits
<1>3. c \in [Players -> Nat]
  BY <1>2
<1>4. u = [wep |-> t.wep, slots |-> t.slots, money |-> c]
  <2>1. u = [t EXCEPT !.money = c]
    BY <1>1
  <2> HIDE DEF c
  <2> QED BY <1>2, <2>1
<1> HIDE DEF c
<1>5. u \in Servers
  BY <1>2, <1>3, <1>4, MakesServer
<1>6. u.wep = t.wep /\ u.slots = t.slots
  BY <1>4
<1> QED
  BY <1>5, <1>6 DEF Fits, SlotsOK, Moves, Old, Handed, Owned

(* Whatever happens in a frame fits what was before.                       *)
LEMMA FrameFits ==
  ASSUME NEW s \in Servers, SlotsOK(s), Old(s), NEW t \in InOneFrame(s)
  PROVE  Fits(s, t)
<1>1. Fits(s, s)
  BY DEF Fits, Moves, Old
<1>2. ASSUME NEW v, Fits(s, v), Old(v), NEW u \in Deeds(v) PROVE Fits(s, u)
  <2>1. u \in Buys(v) \/ u \in Drops(v) \/ u \in Takes(v) \/ u \in Removals(v) \/ u \in Pays(v)
    BY DEF Deeds
  <2> QED BY <1>2, <2>1, BoughtFits, DroppedFits, TakenFits, GoneFits, PaidFits
<1>3. ASSUME NEW v \in Drops(s), t \in Takes(v) PROVE Fits(s, t)
  BY <1>1, <1>3, DroppedFits, TakenFits
<1>4. ASSUME NEW v \in Removals(s), t \in Buys(v) PROVE Fits(s, t)
  BY <1>1, <1>4, GoneFits, BoughtFits
<1>5. ASSUME NEW v \in Pays(s), t \in Deeds(v) PROVE Fits(s, t)
  <2>1. Fits(s, v) /\ Old(v)
    BY <1>1, PaidFits
  <2> QED BY <1>2, <1>5, <2>1
<1>6. \/ t = s \/ t \in Deeds(s) \/ \E v \in Drops(s) : t \in Takes(v)
      \/ \E v \in Removals(s) : t \in Buys(v)
      \/ \E v \in Pays(s) : t \in Deeds(v)
  BY DEF InOneFrame
<1> QED
  BY <1>1, <1>2, <1>3, <1>4, <1>5, <1>6

---------------------------------------------------------------------------
(* The handlers of a player's money                                        *)
LEMMA MoneyIs ==
  ASSUME NEW r \in Refunds, NEW old \in [Players -> Nat], NEW new \in [Players -> Nat]
  PROVE  /\ MoneyUpdate(r, old, new) \in Refunds
         /\ MoneyUpdate(r, old, new).watched = r.watched
         /\ r.watched = << >> => MoneyUpdate(r, old, new) = r
         /\ \A p \in Players : r.watched = <<p>> =>
              /\ new[p] = old[p] => MoneyUpdate(r, old, new) = r
              /\ new[p] # old[p] =>
                   /\ MoneyUpdate(r, old, new).thisTick
                   /\ MoneyUpdate(r, old, new).increased <=> new[p] > r.oldOwnerMoney
                   /\ MoneyUpdate(r, old, new).oldOwnerMoney = new[p]
<1> DEFINE N == Len(r.watched)
           D == {q \in Refunds : q.watched = r.watched}
           Do(n, q) == IF new[r.watched[n]] = old[r.watched[n]] THEN q
                       ELSE [q EXCEPT !.thisTick = TRUE,
                                      !.increased = new[r.watched[n]] > q.oldOwnerMoney,
                                      !.oldOwnerMoney = new[r.watched[n]]]
           step == [n \in 1 .. N |-> [q \in D |-> Do(n, q)]]
           After(f) == f = [n \in 0 .. N |-> IF n = 0 THEN r ELSE Do(n, f[n - 1])]
           after == CHOOSE f : After(f)
<1>1. N \in Nat /\ \A n \in 1 .. N : r.watched[n] \in Players
  <2>1. r.watched \in Seq(Players)
    BY DEF Refunds
  <2> QED BY <2>1, ElementOfSeq, LenProperties
<1>2. \A n \in 1 .. N, q \in D : Do(n, q) \in D
  <2> SUFFICES ASSUME NEW n \in 1 .. N, NEW q \in D PROVE Do(n, q) \in D
    OBVIOUS
  <2> DEFINE m == new[r.watched[n]]
             b == m > q.oldOwnerMoney
  <2>1. m \in Nat /\ b \in BOOLEAN
    BY <1>1
  <2>2. Do(n, q) = q \/ Do(n, q) = [q EXCEPT !.thisTick = TRUE, !.increased = b, !.oldOwnerMoney = m]
    OBVIOUS
  <2>3. q = [oldOwnerMoney |-> q.oldOwnerMoney, thisTick |-> q.thisTick,
             increased |-> q.increased, watched |-> q.watched]
    BY DEF Refunds
  <2> HIDE DEF Do, b, m
  <2>4. CASE Do(n, q) = [q EXCEPT !.thisTick = TRUE, !.increased = b, !.oldOwnerMoney = m]
    <3>1. Do(n, q) = [oldOwnerMoney |-> m, thisTick |-> TRUE, increased |-> b, watched |-> q.watched]
      BY <2>3, <2>4
    <3>2. q.watched \in Seq(Players) /\ q.watched = r.watched
      BY DEF Refunds
    <3> QED BY <2>1, <3>1, <3>2 DEF Refunds
  <2> QED BY <2>2, <2>4
<1>3. \E f : After(f)
  <2>1. step \in [1 .. N -> [D -> D]]
    <3> HIDE DEF Do, N, D
    <3> QED BY <1>2
  <2>2. PICK f \in [0 .. N -> D] : Iterates(f, r, step, N)
    <3>1. r \in D
      OBVIOUS
    <3> HIDE DEF step, N, D
    <3> QED BY <1>1, <2>1, <3>1, Iterated
  <2> HIDE DEF Do, N, D
  <2>3. ASSUME NEW n \in 0 .. N
        PROVE  (IF n = 0 THEN r ELSE step[n][f[n - 1]]) = (IF n = 0 THEN r ELSE Do(n, f[n - 1]))
    <3>1. n # 0 => n \in 1 .. N /\ n - 1 \in 0 .. N
      BY <1>1
    <3>2. n # 0 => f[n - 1] \in D
      BY <3>1
    <3> QED BY <3>1, <3>2
  <2>4. After(f)
    <3> HIDE DEF step
    <3> QED BY <2>2, <2>3 DEF Iterates
  <2> QED BY <2>4
<1>4. After(after)
  <2> HIDE DEF After
  <2> QED BY <1>3
<1>5. MoneyUpdate(r, old, new) = after[N]
  BY DEF MoneyUpdate
<1> HIDE DEF after
<1> DEFINE S == {n \in 0 .. N : after[n] \in D}
<1>6. after[0] = r /\ \A n \in 1 .. N : after[n] = Do(n, after[n - 1])
  <2> HIDE DEF Do
  <2>1. 0 \in 0 .. N /\ \A n \in 1 .. N : n \in 0 .. N /\ n # 0
    BY <1>1
  <2> QED BY <1>4, <2>1
<1>7. \A n \in 0 .. N : n \in S
  <2> HIDE DEF Do, N, D
  <2>1. 0 \in S
    <3>1. r \in D /\ 0 \in 0 .. N
      BY <1>1 DEF D
    <3> QED BY <1>6, <3>1
  <2>2. ASSUME NEW n \in 0 .. N - 1, n \in S PROVE n + 1 \in S
    <3>1. n + 1 \in 1 .. N /\ n + 1 \in 0 .. N /\ (n + 1) - 1 = n
      BY <1>1
    <3> QED BY <1>2, <1>6, <2>2, <3>1
  <2> HIDE DEF S
  <2> QED BY <1>1, <2>1, <2>2, UpTo
<1>8. after[N] \in D
  <2>1. N \in 0 .. N
    BY <1>1
  <2> HIDE DEF D, N
  <2> QED BY <1>7, <2>1
<1>9. r.watched = << >> => after[N] = r
  BY <1>6
<1>10. ASSUME NEW p \in Players, r.watched = <<p>>
       PROVE  after[N] = IF new[p] = old[p] THEN r
                         ELSE [r EXCEPT !.thisTick = TRUE, !.increased = new[p] > r.oldOwnerMoney,
                                        !.oldOwnerMoney = new[p]]
  <2>1. N = 1 /\ r.watched[1] = p
    BY <1>10
  <2>2. after[N] = Do(1, r)
    <3>1. 1 \in 1 .. 1 /\ 1 - 1 = 0
      OBVIOUS
    <3> HIDE DEF Do, N
    <3> QED BY <1>6, <2>1, <3>1
  <2> HIDE DEF N
  <2> QED BY <2>1, <2>2
<1>11. ASSUME NEW p \in Players, r.watched = <<p>>, new[p] # old[p]
       PROVE  /\ after[N].thisTick /\ (after[N].increased <=> new[p] > r.oldOwnerMoney)
              /\ after[N].oldOwnerMoney = new[p]
  <2> DEFINE b == new[p] > r.oldOwnerMoney
             m == new[p]
  <2>1. after[N] = [r EXCEPT !.thisTick = TRUE, !.increased = b, !.oldOwnerMoney = m]
    <3> HIDE DEF N
    <3> QED BY <1>10, <1>11
  <2>2. r = [oldOwnerMoney |-> r.oldOwnerMoney, thisTick |-> r.thisTick,
             increased |-> r.increased, watched |-> r.watched]
    BY DEF Refunds
  <2> HIDE DEF N, b, m
  <2>3. after[N] = [oldOwnerMoney |-> m, thisTick |-> TRUE, increased |-> b, watched |-> r.watched]
    BY <2>1, <2>2
  <2>4. after[N].thisTick = TRUE /\ after[N].increased = b /\ after[N].oldOwnerMoney = m
    BY <2>3
  <2> QED BY <2>4 DEF b, m
<1> HIDE DEF N, D
<1>12. after[N] \in Refunds /\ after[N].watched = r.watched
  BY <1>8 DEF D
<1> QED
  BY <1>5, <1>9, <1>10, <1>11, <1>12

---------------------------------------------------------------------------
(* What the invariant says                                                 *)
LEMMA HandedIs ==
  ASSUME NEW s \in Servers, SlotsOK(s), NEW p \in Players
  PROVE  /\ s.slots[p] \in Seq(Handles) /\ Len(s.slots[p]) \in Nat
         /\ DOMAIN s.slots[p] = 1 .. Len(s.slots[p])
         /\ \A k \in 1 .. Len(s.slots[p]) :
              LET h == s.slots[p][k]
              IN  h \in Handles /\ h.idx \in Owned(s, p) /\ h.new = s.wep[h.idx].new
         /\ \A w \in Owned(s, p) : \E k \in 1 .. Len(s.slots[p]) : s.slots[p][k].idx = w
         /\ Held(s.slots[p]) = Owned(s, p)
<1> DEFINE seq == s.slots[p]
           H == Handed(s, p)
<1>1. /\ seq \in Seq(Handles) /\ Len(seq) \in Nat /\ DOMAIN seq = 1 .. Len(seq)
      /\ \A k \in 1 .. Len(seq) : seq[k] \in H /\ seq[k] \in Handles
      /\ \A h \in H : \E k \in 1 .. Len(seq) : seq[k] = h
  <2>1. Lists(seq, H)
    BY DEF SlotsOK
  <2> HIDE DEF seq, H
  <2> QED BY <2>1, ListIs
<1> HIDE DEF seq
<1>2. \A h \in H : h.idx \in Owned(s, p) /\ h.new = s.wep[h.idx].new
  BY DEF Handed
<1>3. ASSUME NEW w \in Owned(s, p) PROVE \E k \in 1 .. Len(seq) : seq[k].idx = w
  <2> DEFINE h == [idx |-> w, new |-> s.wep[w].new]
  <2>1. h \in H /\ h.idx = w
    BY DEF Handed
  <2> HIDE DEF h, H
  <2> QED BY <1>1, <2>1
<1> HIDE DEF H
<1>4. \A k \in 1 .. Len(seq) : seq[k].idx \in Owned(s, p) /\ seq[k] # NoHandle
  <2>1. NoHandle.idx \notin Weps
    BY WeaponsAssumption DEF NoHandle
  <2>2. \A w \in Owned(s, p) : w \in Weps
    BY DEF Owned
  <2> QED BY <1>1, <1>2, <2>1, <2>2
<1>5. Held(seq) = Owned(s, p)
  BY <1>1, <1>3, <1>4 DEF Held
<1> QED
  BY <1>1, <1>2, <1>3, <1>5 DEF seq

(* A weapon that is owned exists, and its owner is a player.               *)
LEMMA OwnersAre ==
  ASSUME NEW s \in Servers, SlotsOK(s), NEW w \in Weps
  PROVE  /\ s.wep[w].owner \in Players \cup {Nil} /\ s.wep[w].type \in AllTypes \cup {Nil}
         /\ s.wep[w].new \in BOOLEAN
         /\ s.wep[w].owner # Nil => Exists(s, w) /\ s.wep[w].owner \in Players
                                    /\ w \in Owned(s, s.wep[w].owner)
         /\ Exists(s, w) => s.wep[w].type \in AllTypes
BY DEF Servers, SlotsOK, Exists, Owned

LEMMA StateIs ==
  ASSUME State \in GameStates
  PROVE  /\ weapons \in [Weps -> Ids \cup {NoEquipment}] /\ equipment \in [Ids -> Infos]
         /\ inventory \in [Players -> Inventories]
         /\ \A i \in Weps : weapons[i] # NoEquipment => weapons[i] \in Ids /\ weapons[i][1] = i
         /\ \A p \in Players :
              /\ DOMAIN inventory[p] \subseteq Weps
              /\ \A i \in DOMAIN inventory[p] : inventory[p][i] \in Ids /\ inventory[p][i][1] = i
<1>1. State.weapons = weapons /\ State.equipment = equipment /\ State.inventory = inventory
  BY DEF State
<1> QED
  BY <1>1, GameStateIs

LEMMA StateKeeps ==
  ASSUME State \in GameStates, UNCHANGED <<weapons, equipment, inventory>>
  PROVE  State' \in GameStates
BY DEF State

(* Between frames everything is the server's.                              *)
LEMMA BetweenFrames ==
  ASSUME PossessionInv, updates = {}
  PROVE  /\ \A p \in Players : DOMAIN inventory[p] = Owned(server, p)
         /\ \A w \in Weps : Exists(server, w) =>
              /\ weapons[w] # NoEquipment
              /\ equipment[weapons[w]].type = server.wep[w].type
              /\ equipment[weapons[w]].owner = server.wep[w].owner
              /\ server.wep[w].owner # Nil =>
                   /\ server.wep[w].owner \in Players
                   /\ w \in DOMAIN inventory[server.wep[w].owner]
                   /\ inventory[server.wep[w].owner][w] = weapons[w]
<1>1. server \in Servers /\ SlotsOK(server)
  BY DEF PossessionInv, ServerInv
<1>2. \A p \in Players : /\ DOMAIN inventory[p] = Owned(server, p)
                         /\ \A w \in DOMAIN inventory[p] :
                              Exists(server, w) => inventory[p][w] = weapons[w]
  BY DEF PossessionInv, InventoryInv
<1>3. ASSUME NEW w \in Weps, Exists(server, w)
      PROVE  /\ weapons[w] # NoEquipment
             /\ equipment[weapons[w]].type = server.wep[w].type
             /\ equipment[weapons[w]].owner = server.wep[w].owner
  <2>1. Typed(w) /\ Settled(w)
    BY <1>3 DEF Typed, Settled
  <2> QED BY <1>3, <2>1 DEF PossessionInv, EquipmentInv
<1> QED
  BY <1>1, <1>2, <1>3, OwnersAre

---------------------------------------------------------------------------
(* A frame begins                                                          *)
LEMMA FrameBegins ==
  ASSUME PossessionInv, NEW new \in InOneFrame(server), NEW fired \in Shots(server),
         Frame(new, fired)
  PROVE  PossessionInv'
<1>1. /\ ~inFrame /\ before = server /\ updates = {} /\ firsts = {} /\ log = << >>
      /\ server \in Servers /\ SlotsOK(server) /\ Old(server)
  BY DEF PossessionInv, ServerInv, Frame
<1>2. /\ inFrame' = TRUE /\ server' = new /\ shots' = fired
      /\ updates' = {p \in Players : new.slots[p] # server.slots[p]}
                       \cup {w \in Weps : /\ (Exists(server, w) \/ Exists(new, w))
                                     /\ (new.wep[w] # server.wep[w] \/ w \in DOMAIN fired)}
      /\ refund' = [w \in Weps |-> MoneyUpdate(refund[w], server.money, new.money)]
      /\ UNCHANGED <<before, firsts, weapons, equipment, inventory, log>>
  BY DEF Frame
<1>3. new \in Servers /\ SlotsOK(new) /\ Moves(server, new)
  BY <1>1, FrameFits DEF Fits
<1>4. /\ DOMAIN fired \subseteq Weps
      /\ \A w \in DOMAIN fired : fired[w] = server.wep[w].owner /\ fired[w] # Nil
  <2>1. CASE fired = << >>
    BY <2>1
  <2>2. CASE fired # << >>
    <3>1. PICK w \in {v \in Weps : server.wep[v].owner # Nil} :
            fired = [v \in {w} |-> server.wep[w].owner]
      BY <2>2 DEF Shots
    <3> QED BY <3>1
  <2> QED BY <2>1, <2>2
<1>5. /\ \A p \in Players : p \in updates' <=> new.slots[p] # server.slots[p]
      /\ \A w \in Weps : w \in updates' <=> /\ Exists(server, w) \/ Exists(new, w)
                                            /\ new.wep[w] # server.wep[w] \/ w \in DOMAIN fired
      /\ updates' \subseteq Players \cup Weps
  BY <1>2, WeaponsAssumption
<1>6. ServerInv'
  BY <1>1, <1>2, <1>3, <1>4, <1>5 DEF ServerInv
<1>7. State' \in GameStates
  BY <1>2, StateKeeps DEF PossessionInv
<1>8. /\ \A p \in Players : DOMAIN inventory[p] = Owned(server, p)
      /\ \A w \in Weps : Exists(server, w) =>
           /\ weapons[w] # NoEquipment
           /\ equipment[weapons[w]].type = server.wep[w].type
           /\ equipment[weapons[w]].owner = server.wep[w].owner
           /\ server.wep[w].owner # Nil =>
                /\ server.wep[w].owner \in Players
                /\ inventory[server.wep[w].owner][w] = weapons[w]
  BY <1>1, BetweenFrames
<1>9. ASSUME NEW p \in Players, p \notin updates' PROVE Owned(new, p) = Owned(server, p)
  <2>1. new.slots[p] = server.slots[p]
    BY <1>5, <1>9
  <2> QED BY <1>1, <1>3, <2>1, HandedIs
<1>10. InventoryInv'
  <2>1. ASSUME NEW p \in Players
        PROVE  DOMAIN inventory[p] = Owned(IF p \in updates' THEN server ELSE new, p)
    BY <1>8, <1>9
  <2>2. ASSUME NEW p \in Players, NEW w \in Owned(server, p)
        PROVE  weapons[w] # NoEquipment /\ inventory[p][w] = weapons[w]
    <3>1. w \in Weps /\ server.wep[w].owner = p /\ p # Nil
      BY WeaponsAssumption DEF Owned
    <3> QED BY <1>1, <1>8, <3>1, OwnersAre
  <2> QED BY <1>1, <1>2, <1>8, <2>1, <2>2 DEF InventoryInv
<1>11. EquipmentInv'
  <2> SUFFICES ASSUME NEW w \in Weps
               PROVE  /\ Exists(server, w) => weapons[w] # NoEquipment
                      /\ Typed(w)' => /\ weapons[w] # NoEquipment
                                      /\ equipment[weapons[w]].type = new.wep[w].type
                      /\ Exists(new, w) /\ Settled(w)' =>
                           equipment[weapons[w]].owner = new.wep[w].owner
    BY <1>1, <1>2 DEF EquipmentInv
  <2>1. ASSUME Typed(w)'
        PROVE  weapons[w] # NoEquipment /\ equipment[weapons[w]].type = new.wep[w].type
    <3>1. Exists(new, w) /\ (~new.wep[w].new \/ w \notin updates')
      BY <1>2, <2>1 DEF Typed, Created
    <3>2. Exists(server, w) /\ server.wep[w].type = new.wep[w].type
      <4>1. CASE ~new.wep[w].new
        BY <1>3, <3>1, <4>1 DEF Moves, Exists
      <4>2. CASE w \notin updates'
        BY <1>5, <3>1, <4>2 DEF Exists
      <4> QED BY <3>1, <4>1, <4>2
    <3> QED BY <1>8, <3>2
  <2>2. ASSUME Exists(new, w), Settled(w)'
        PROVE  equipment[weapons[w]].owner = new.wep[w].owner
    <3> DEFINE o == new.wep[w].owner
    <3>1. CASE o = Nil
      <4>1. w \notin updates' \/ (server.wep[w].owner = Nil /\ ~new.wep[w].new)
        BY <1>1, <1>2, <2>2, <3>1 DEF Settled, Created
      <4>2. Exists(server, w) /\ server.wep[w].owner = Nil
        <5>1. CASE w \notin updates'
          BY <1>5, <2>2, <3>1, <5>1 DEF Exists
        <5>2. CASE server.wep[w].owner = Nil /\ ~new.wep[w].new
          BY <1>3, <2>2, <5>2 DEF Moves, Exists
        <5> QED BY <4>1, <5>1, <5>2
      <4> QED BY <1>8, <3>1, <4>2
    <3>2. CASE o # Nil
      <4>1. o \in Players /\ w \in Owned(new, o)
        BY <1>3, <3>2, OwnersAre
      <4>2. o \notin updates' \/ server.wep[w].owner = o
        BY <1>1, <1>2, <2>2, <3>2 DEF Settled
      <4>3. server.wep[w].owner = o
        <5>1. CASE o \notin updates'
          BY <1>9, <4>1, <5>1 DEF Owned
        <5> QED BY <4>2, <5>1
      <4> QED BY <1>1, <1>8, <3>2, <4>3, OwnersAre
    <3> QED BY <3>1, <3>2
  <2> QED BY <1>8, <2>1, <2>2
<1>12. LogInv'
  <2>1. ASSUME NEW w \in DOMAIN fired PROVE w \in updates'
    <3>1. w \in Weps /\ Exists(server, w)
      BY <1>1, <1>4, OwnersAre
    <3> QED BY <1>5, <3>1
  <2>2. log' = << >> /\ DOMAIN log' = {}
    BY <1>1, <1>2
  <2>3. log' \in Seq([t : {"WeaponFire", "ItemRefund"}, who : Players, wep : Weps, eq : Ids])
    BY <2>2
  <2> QED BY <1>2, <2>1, <2>2, <2>3 DEF LogInv
<1>13. RefundInv'
  <2>1. /\ refund \in [Weps -> Refunds] /\ server.money \in [Players -> Nat]
        /\ new.money \in [Players -> Nat]
    BY <1>1, <1>3, ServerIs DEF PossessionInv, RefundInv
  <2>2. refund' \in [Weps -> Refunds]
    BY <1>2, <2>1, MoneyIs
  <2>3. ASSUME NEW w \in Weps, NEW p \in Players, refund'[w].watched = <<p>>
        PROVE  /\ Exists(new, w) => refund'[w].oldOwnerMoney = new.money[p]
               /\ Exists(server, w) =>
                    (refund'[w].thisTick /\ refund'[w].increased <=> new.money[p] > server.money[p])
    <3> DEFINE r == refund[w]
               u == MoneyUpdate(r, server.money, new.money)
    <3>1. refund'[w] = u /\ r \in Refunds
      BY <1>2, <2>1
    <3>2. r.watched = <<p>>
      BY <2>1, <2>3, <3>1, MoneyIs
    <3>3. <<p>> # << >>
      OBVIOUS
    <3>4. Exists(server, w) /\ ~r.thisTick /\ ~r.increased
      BY <1>1, <3>2, <3>3 DEF PossessionInv, RefundInv
    <3>5. r.oldOwnerMoney = server.money[p]
      BY <1>1, <3>2, <3>4 DEF PossessionInv, RefundInv
    <3>6. /\ new.money[p] = server.money[p] => u = r
          /\ new.money[p] # server.money[p] =>
               /\ u.thisTick /\ u.oldOwnerMoney = new.money[p]
               /\ u.increased <=> new.money[p] > r.oldOwnerMoney
      <4> DEFINE old == server.money
                 now == new.money
      <4>1. old \in [Players -> Nat] /\ now \in [Players -> Nat] /\ r \in Refunds
        BY <2>1, <3>1
      <4>2. r.watched = <<p>>
        BY <3>2
      <4>3. u = MoneyUpdate(r, old, now)
        OBVIOUS
      <4> HIDE DEF r, u, old, now
      <4>4. /\ now[p] = old[p] => MoneyUpdate(r, old, now) = r
            /\ now[p] # old[p] =>
                 /\ MoneyUpdate(r, old, now).thisTick
                 /\ MoneyUpdate(r, old, now).increased <=> now[p] > r.oldOwnerMoney
                 /\ MoneyUpdate(r, old, now).oldOwnerMoney = now[p]
        BY <4>1, <4>2, MoneyIs
      <4> QED BY <4>3, <4>4 DEF old, now
    <3> HIDE DEF r, u
    <3>7. new.money[p] \in Nat /\ server.money[p] \in Nat
      BY <2>1
    <3>8. CASE new.money[p] = server.money[p]
      <4>1. ~(new.money[p] > server.money[p])
        BY <3>7, <3>8
      <4> QED BY <3>1, <3>4, <3>5, <3>6, <3>8, <4>1
    <3>9. CASE new.money[p] # server.money[p]
      BY <3>1, <3>5, <3>6, <3>9
    <3> QED BY <3>8, <3>9
  <2>4. ASSUME NEW w \in Weps, Exists(server, w), ~Exists(new, w) PROVE w \in updates'
    BY <1>5, <2>4 DEF Exists
  <2>5. before' = server /\ server' = new /\ inFrame'
    BY <1>1, <1>2
  <2> QED BY <2>2, <2>3, <2>4, <2>5 DEF RefundInv, Gain
<1> QED
  BY <1>6, <1>7, <1>10, <1>11, <1>12, <1>13 DEF PossessionInv

---------------------------------------------------------------------------
(* The update of a pawn                                                    *)

(* A weapon whose owner is settled has an Equipment.                       *)
LEMMA SettledIs ==
  ASSUME PossessionInv, NEW w \in Weps, Exists(server, w), Settled(w)
  PROVE  weapons[w] # NoEquipment
<1>1. server \in Servers /\ SlotsOK(server) /\ Moves(before, server)
  BY DEF PossessionInv, ServerInv
<1>2. CASE ~Created(w)
  <2>1. Typed(w)
    BY <1>2 DEF Typed
  <2> QED BY <2>1 DEF PossessionInv, EquipmentInv
<1>3. CASE Created(w)
  <2> DEFINE o == server.wep[w].owner
  <2>1. o # Nil /\ o \in Players /\ w \in Owned(server, o)
    BY <1>1, <1>3, OwnersAre DEF Moves, Created
  <2>2. o \notin updates
    BY <1>3, <2>1 DEF Settled
  <2>3. w \in DOMAIN inventory[o]
    BY <2>1, <2>2 DEF PossessionInv, InventoryInv
  <2> QED BY <2>1, <2>3 DEF PossessionInv, InventoryInv
<1> QED
  BY <1>2, <1>3

LEMMA PawnKeeps ==
  ASSUME PossessionInv, NEW p \in Players, PawnComes(p)
  PROVE  PossessionInv'
<1>1. /\ inFrame /\ p \in updates /\ updates' = updates \ {p} /\ PawnUpdate(p)
      /\ UNCHANGED <<server, before, shots, firsts, inFrame, refund, log>>
  BY DEF PawnComes
<1>2. /\ server \in Servers /\ SlotsOK(server) /\ Moves(before, server)
      /\ before \in Servers /\ SlotsOK(before) /\ Old(before)
      /\ before.slots[p] # server.slots[p] /\ State \in GameStates
  BY <1>1 DEF PossessionInv, ServerInv
<1>3. /\ State' \in GameStates
      /\ \A q \in Players \ {p} : inventory'[q] = inventory[q]
      /\ DOMAIN inventory'[p] = Held(server.slots[p])
      /\ \A i \in Held(server.slots[p]) :
           weapons'[i] # NoEquipment /\ inventory'[p][i] = weapons'[i]
      /\ \A i \in Weps : weapons[i] # NoEquipment =>
           /\ weapons'[i] = weapons[i]
           /\ equipment'[weapons[i]].type = equipment[weapons[i]].type
           /\ i \notin New(p) => equipment'[weapons[i]].owner = equipment[weapons[i]].owner
      /\ \A i \in New(p) : weapons'[i] # NoEquipment /\ equipment'[weapons'[i]].owner = p
  BY <1>1, <1>2, PawnIs
<1>4. /\ \A w \in Weps : w \in updates' <=> w \in updates
      /\ \A q \in Players \ {p} : q \in updates' <=> q \in updates
      /\ p \notin updates' /\ p # Nil
  BY <1>1, WeaponsAssumption
<1>5. /\ \A k \in 1 .. Len(server.slots[p]) :
           LET h == server.slots[p][k]
           IN  h \in Handles /\ h.idx \in Owned(server, p) /\ h.new = server.wep[h.idx].new
      /\ \A w \in Owned(server, p) : \E k \in 1 .. Len(server.slots[p]) : server.slots[p][k].idx = w
      /\ Held(server.slots[p]) = Owned(server, p)
      /\ DOMAIN server.slots[p] = 1 .. Len(server.slots[p])
  BY <1>2, HandedIs
<1>6. ServerInv'
  BY <1>1 DEF PossessionInv, ServerInv, Created, Exists
<1>7. InventoryInv'
  <2>1. ASSUME NEW q \in Players \ {p}
        PROVE  /\ DOMAIN inventory'[q] = Owned(IF q \in updates' THEN before ELSE server, q)
               /\ \A w \in DOMAIN inventory'[q] :
                    Exists(server, w) \/ w \in updates' =>
                      weapons'[w] # NoEquipment /\ inventory'[q][w] = weapons'[w]
    <3>1. DOMAIN inventory[q] = Owned(IF q \in updates THEN before ELSE server, q)
      BY DEF PossessionInv, InventoryInv
    <3>2. \A w \in DOMAIN inventory[q] : w \in Weps
      BY <3>1 DEF Owned
    <3>3. \A w \in DOMAIN inventory[q] :
            Exists(server, w) \/ w \in updates =>
              weapons[w] # NoEquipment /\ inventory[q][w] = weapons[w]
      BY DEF PossessionInv, InventoryInv
    <3> QED BY <1>3, <1>4, <3>1, <3>2, <3>3
  <2>2. /\ DOMAIN inventory'[p] = Owned(server, p)
        /\ \A w \in DOMAIN inventory'[p] :
             weapons'[w] # NoEquipment /\ inventory'[p][w] = weapons'[w]
    BY <1>3, <1>5
  <2>3. ASSUME NEW q \in Players
        PROVE  /\ DOMAIN inventory'[q] = Owned(IF q \in updates' THEN before ELSE server, q)
               /\ \A w \in DOMAIN inventory'[q] :
                    Exists(server, w) \/ w \in updates' =>
                      weapons'[w] # NoEquipment /\ inventory'[q][w] = weapons'[w]
    <3>1. CASE q = p
      BY <1>4, <2>2, <3>1
    <3>2. CASE q # p
      BY <2>1, <3>2
    <3> QED BY <3>1, <3>2
  <2> QED BY <1>1, <2>3 DEF InventoryInv
<1>8. EquipmentInv'
  <2> SUFFICES ASSUME NEW w \in Weps
               PROVE  /\ Exists(before, w) /\ w \in updates => weapons'[w] # NoEquipment
                      /\ Typed(w) => /\ weapons'[w] # NoEquipment
                                     /\ equipment'[weapons'[w]].type = server.wep[w].type
                      /\ Exists(server, w) /\ Settled(w)' /\ weapons'[w] # NoEquipment =>
                           equipment'[weapons'[w]].owner = server.wep[w].owner
    BY <1>1, <1>4 DEF EquipmentInv, Typed, Created, Exists
  <2>1. Exists(before, w) /\ w \in updates => weapons'[w] # NoEquipment
    BY <1>3 DEF PossessionInv, EquipmentInv
  <2>2. Typed(w) => weapons'[w] # NoEquipment /\ equipment'[weapons'[w]].type = server.wep[w].type
    BY <1>3 DEF PossessionInv, EquipmentInv
  <2>3. ASSUME Exists(server, w), Settled(w)'
        PROVE  equipment'[weapons'[w]].owner = server.wep[w].owner
    <3>1. CASE w \in New(p)
      <4>1. server.wep[w].owner = p
        BY <1>5, <3>1 DEF New, Changed, Owned
      <4> QED BY <1>3, <3>1, <4>1
    <3>2. CASE w \notin New(p)
      <4>1. Settled(w)
        <5>1. CASE server.wep[w].owner # p
          BY <1>1, <1>2, <1>4, <2>3, <5>1, OwnersAre DEF Settled, Created
        <5>2. CASE server.wep[w].owner = p
          <6>1. w \in Owned(server, p)
            BY <5>2 DEF Owned
          <6>2. PICK k \in 1 .. Len(server.slots[p]) : server.slots[p][k].idx = w
            BY <1>5, <6>1
          <6>3. Kept(p)[k] = server.slots[p][k]
            BY <1>5, <3>2, <6>2 DEF New, Changed
          <6>4. k \in DOMAIN before.slots[p] /\ before.slots[p][k] = server.slots[p][k]
            <7>1. NoHandle.idx = Nil /\ Nil \notin Weps
              BY WeaponsAssumption DEF NoHandle
            <7> QED BY <1>5, <6>2, <6>3, <7>1 DEF Kept
          <6>5. w \in Owned(before, p) /\ server.wep[w].new = before.wep[w].new
            <7>1. /\ DOMAIN before.slots[p] = 1 .. Len(before.slots[p])
                  /\ \A j \in 1 .. Len(before.slots[p]) :
                       LET h == before.slots[p][j]
                       IN  h.idx \in Owned(before, p) /\ h.new = before.wep[h.idx].new
              BY <1>2, HandedIs
            <7>2. before.slots[p][k].idx = w /\ server.slots[p][k].new = server.wep[w].new
              BY <1>5, <6>2, <6>4
            <7> QED BY <6>4, <7>1, <7>2
          <6> QED BY <1>2, <5>2, <6>5 DEF Settled, Created, Owned, Old
        <5> QED BY <5>1, <5>2
      <4>2. weapons[w] # NoEquipment
        BY <2>3, <4>1, SettledIs
      <4>3. equipment[weapons[w]].owner = server.wep[w].owner
        BY <2>3, <4>1, <4>2 DEF PossessionInv, EquipmentInv
      <4> QED BY <1>3, <3>2, <4>2, <4>3
    <3> QED BY <3>1, <3>2
  <2> QED BY <2>1, <2>2, <2>3
<1>9. LogInv'
  <2>1. /\ log \in Seq([t : {"WeaponFire", "ItemRefund"}, who : Players, wep : Weps, eq : Ids])
        /\ \A i \in DOMAIN log : log[i].wep \notin updates /\ (FireOf(i) \/ RefundOf(i))
        /\ \A i, j \in DOMAIN log : log[i].wep = log[j].wep => i = j
    BY DEF PossessionInv, LogInv
  <2>2. ASSUME NEW w \in DOMAIN shots, ~Created(w), server.wep[w].owner = shots[w], w \notin updates
        PROVE  \E i \in DOMAIN log : /\ log[i].t = "WeaponFire" /\ log[i].wep = w
                                     /\ log[i].who = shots[w] /\ log[i].eq = weapons'[w]
    <3>1. w \in Weps /\ shots[w] # Nil
      BY DEF PossessionInv, ServerInv
    <3>2. Typed(w)
      BY <1>2, <2>2, <3>1, OwnersAre DEF Typed
    <3>3. weapons'[w] = weapons[w]
      BY <1>3, <3>1, <3>2 DEF PossessionInv, EquipmentInv
    <3> QED BY <2>2, <3>3 DEF PossessionInv, LogInv
  <2>3. \A i \in DOMAIN log : log[i].wep \notin updates'
    BY <1>1, <2>1
  <2>4. \A w \in DOMAIN shots : w \in updates' <=> w \in updates
    BY <1>4 DEF PossessionInv, ServerInv
  <2> QED BY <1>1, <2>1, <2>2, <2>3, <2>4 DEF LogInv, FireOf, RefundOf, Created, Exists
<1>10. RefundInv'
  BY <1>1, <1>4 DEF PossessionInv, RefundInv, Told, Gain, Exists
<1> QED
  BY <1>3, <1>6, <1>7, <1>8, <1>9, <1>10 DEF PossessionInv

---------------------------------------------------------------------------
(* The update of a weapon                                                  *)

(* Its Equipment gets the type and keeps the owner a pawn gave it.         *)
LEMMA BindIs ==
  ASSUME State \in GameStates, server \in Servers, NEW w \in Weps, Exists(server, w), BindWeapon(w)
  PROVE  /\ State' \in GameStates /\ inventory' = inventory
         /\ \A i \in Weps \ {w} :
              /\ weapons'[i] = weapons[i]
              /\ weapons[i] # NoEquipment => equipment'[weapons[i]] = equipment[weapons[i]]
         /\ weapons'[w] # NoEquipment /\ equipment'[weapons'[w]].type = server.wep[w].type
         /\ weapons[w] # NoEquipment =>
              weapons'[w] = weapons[w] /\ equipment'[weapons[w]].owner = equipment[weapons[w]].owner
<1> DEFINE type == server.wep[w].type
<1>1. type \in AllTypes
  BY DEF Servers, Exists
<1>2. /\ weapons \in [Weps -> Ids \cup {NoEquipment}] /\ equipment \in [Ids -> Infos]
      /\ inventory \in [Players -> Inventories]
      /\ \A i \in Weps : weapons[i] # NoEquipment => weapons[i] \in Ids /\ weapons[i][1] = i
      /\ \A p \in Players :
           \A i \in DOMAIN inventory[p] : inventory[p][i] \in Ids /\ inventory[p][i][1] = i
  BY StateIs
<1>3. State.weapons = weapons /\ State.equipment = equipment /\ State.inventory = inventory
  BY DEF State
<1>4. CASE weapons[w] = NoEquipment
  <2> DEFINE st == NewEquipment(State, {w}, type)
  <2>1. weapons' = st.weapons /\ equipment' = st.equipment /\ inventory' = st.inventory
    BY <1>4 DEF BindWeapon, Becomes
  <2>2. /\ st \in GameStates /\ st.inventory = State.inventory
        /\ \A i \in Weps \ {w} : st.weapons[i] = State.weapons[i]
        /\ st.weapons[w] \in Ids /\ st.equipment[st.weapons[w]] = NewEq(type)
        /\ \A i \in Weps : State.weapons[i] # NoEquipment =>
             st.equipment[State.weapons[i]] = State.equipment[State.weapons[i]]
    <3> DEFINE I == {w}
    <3>1. /\ I \in SUBSET Weps /\ \A i \in I : State.weapons[i] = NoEquipment
          /\ type \in AllTypes \cup {EqUnknown}
      BY <1>1, <1>3, <1>4
    <3>2. w \in I /\ st = NewEquipment(State, I, type)
      OBVIOUS
    <3> HIDE DEF I, type, st
    <3> QED BY <3>1, <3>2, NewIs DEF I
  <2> HIDE DEF st
  <2>3. State' = st
    <3>1. st = [weapons |-> st.weapons, equipment |-> st.equipment, inventory |-> st.inventory]
      BY <2>2 DEF GameStates
    <3> QED BY <2>1, <3>1 DEF State
  <2>4. NewEq(type).type = type
    BY DEF NewEq
  <2> QED BY <1>3, <1>4, <2>1, <2>2, <2>3, <2>4, NotAnId
<1>5. CASE weapons[w] # NoEquipment
  <2> DEFINE b == [equipment EXCEPT ![weapons[w]].type = type]
  <2>1. weapons' = weapons /\ equipment' = b /\ inventory' = inventory
    <3> HIDE DEF type
    <3>1. Becomes([State EXCEPT !.equipment = [@ EXCEPT ![weapons[w]].type = type]])
      BY <1>5 DEF BindWeapon, type
    <3> QED BY <3>1 DEF Becomes, State
  <2>2. weapons[w] \in Ids
    BY <1>2, <1>5
  <2>3. /\ b[weapons[w]].type = type /\ b[weapons[w]].owner = equipment[weapons[w]].owner
        /\ \A e \in Ids \ {weapons[w]} : b[e] = equipment[e]
        /\ b \in [Ids -> Infos]
    BY <1>1, <1>2, <2>2 DEF Infos
  <2> HIDE DEF b, type
  <2>4. \A i \in Weps \ {w} : weapons[i] # NoEquipment => weapons[i] \in Ids \ {weapons[w]}
    BY <1>2, <1>5
  <2>5. [weapons |-> weapons, equipment |-> b, inventory |-> inventory] \in GameStates
    BY <1>2, <2>3, MakesState
  <2>6. State' \in GameStates
    BY <2>1, <2>5 DEF State
  <2> QED BY <1>5, <2>1, <2>3, <2>4, <2>6 DEF type
<1> QED
  BY <1>4, <1>5

(* An Equipment without its owner                                          *)
LEMMA LostIs ==
  ASSUME State \in GameStates, NEW w \in Weps, weapons[w] # NoEquipment
  PROVE  /\ OwnerLost(w) \in [Ids -> Infos] /\ weapons[w] \in Ids
         /\ OwnerLost(w)[weapons[w]].owner = Nil
         /\ OwnerLost(w)[weapons[w]].type = equipment[weapons[w]].type
         /\ \A i \in Weps \ {w} : weapons[i] # NoEquipment =>
              OwnerLost(w)[weapons[i]] = equipment[weapons[i]]
<1>1. /\ equipment \in [Ids -> Infos] /\ weapons[w] \in Ids
      /\ \A i \in Weps : weapons[i] # NoEquipment => weapons[i] \in Ids /\ weapons[i][1] = i
  BY StateIs
<1>2. \A i \in Weps \ {w} : weapons[i] # NoEquipment => weapons[i] # weapons[w]
  BY <1>1
<1>3. \A e \in Ids : equipment[e].type \in AllTypes \cup {EqUnknown}
  BY <1>1 DEF Infos
<1> QED
  BY <1>1, <1>2, <1>3 DEF OwnerLost, Infos

(* An event of a weapon whose update comes is its first.                   *)
Entries == [t : {"WeaponFire", "ItemRefund"}, who : Players, wep : Weps, eq : Ids]

LEMMA LogMore ==
  ASSUME PossessionInv, NEW w \in Weps, w \in updates, updates' = updates \ {w},
         UNCHANGED <<server, before, shots>>, NEW e \in Entries, e.wep = w, log' = Append(log, e),
         \/ e.t = "WeaponFire" /\ w \in DOMAIN shots /\ Exists(server, w)
         \/ /\ e.t = "ItemRefund" /\ ~Exists(server, w)
            /\ e.who = before.wep[w].owner /\ e.who \in Zone
  PROVE  /\ log' \in Seq(Entries)
         /\ \A i \in DOMAIN log' : log'[i].wep \notin updates' /\ (FireOf(i)' \/ RefundOf(i)')
         /\ \A i, j \in DOMAIN log' : log'[i].wep = log'[j].wep => i = j
         /\ \A i \in DOMAIN log : i \in DOMAIN log' /\ log'[i] = log[i] /\ log[i].wep # w
         /\ Len(log) + 1 \in DOMAIN log' /\ log'[Len(log) + 1] = e
         /\ \A i \in DOMAIN log' : i \in DOMAIN log \/ log'[i] = e
<1>1. /\ log \in Seq(Entries)
      /\ \A i \in DOMAIN log : log[i].wep \notin updates /\ (FireOf(i) \/ RefundOf(i))
      /\ \A i, j \in DOMAIN log : log[i].wep = log[j].wep => i = j
  BY DEF PossessionInv, LogInv, Entries
<1>0. PICK n \in Nat : n = Len(log) + 1
  BY <1>1, LenProperties
<1>2. /\ log' \in Seq(Entries) /\ DOMAIN log' = 1 .. n /\ DOMAIN log = 1 .. n - 1 /\ n \in Nat
      /\ n \in DOMAIN log' /\ log'[n] = e /\ \A i \in 1 .. n - 1 : log'[i] = log[i]
  BY <1>0, <1>1, LenProperties, AppendProperties
<1>3. \A i \in DOMAIN log : i \in DOMAIN log' /\ log'[i] = log[i] /\ log[i].wep # w
  BY <1>1, <1>2
<1>4. \A i \in DOMAIN log' : i \in DOMAIN log \/ (i = n /\ log'[i] = e)
  BY <1>2
<1>5. \A i \in DOMAIN log : FireOf(i)' \/ RefundOf(i)'
  BY <1>1, <1>3 DEF FireOf, RefundOf, Exists
<1>6. FireOf(n)' \/ RefundOf(n)'
  BY <1>2 DEF FireOf, RefundOf, Exists
<1>7. \A i \in DOMAIN log' : log'[i].wep \notin updates' /\ (FireOf(i)' \/ RefundOf(i)')
  <2>1. ASSUME NEW i \in DOMAIN log' PROVE log'[i].wep \notin updates' /\ (FireOf(i)' \/ RefundOf(i)')
    <3>1. CASE i \in DOMAIN log
      BY <1>1, <1>3, <1>5, <3>1
    <3>2. CASE i = n
      BY <1>2, <1>6, <3>2
    <3> QED BY <1>4, <3>1, <3>2
  <2> QED BY <2>1
<1>8. \A i, j \in DOMAIN log' : log'[i].wep = log'[j].wep => i = j
  BY <1>1, <1>3, <1>4
<1> QED
  BY <1>0, <1>2, <1>3, <1>4, <1>7, <1>8

(* What the update of a weapon does not change, and that of the others     *)
LEMMA OneLess ==
  ASSUME PossessionInv, NEW w \in Weps, updates' = updates \ {w}
  PROVE  /\ \A u \in Weps : u \in updates' <=> u \in updates /\ u # w
         /\ \A p \in Players : p \in updates' <=> p \in updates
         /\ \A p \in Players \cup {Nil} : p # w
BY WeaponsAssumption

LEMMA ServerKeeps ==
  ASSUME PossessionInv, inFrame, updates' \subseteq updates, firsts' \subseteq {v \in Weps : Created(v)},
         UNCHANGED <<server, before, shots, inFrame>>
  PROVE  ServerInv'
BY DEF PossessionInv, ServerInv, Created, Exists

LEMMA OthersKeep ==
  ASSUME PossessionInv, NEW w \in Weps, updates' = updates \ {w},
         UNCHANGED <<server, before, shots, inventory>>,
         \A i \in Weps \ {w} :
           /\ weapons'[i] = weapons[i]
           /\ weapons[i] # NoEquipment => equipment'[weapons[i]] = equipment[weapons[i]],
         Exists(server, w) =>
           /\ weapons'[w] # NoEquipment /\ equipment'[weapons'[w]].type = server.wep[w].type
           /\ weapons[w] # NoEquipment => weapons'[w] = weapons[w]
           /\ Settled(w)' => equipment'[weapons'[w]].owner = server.wep[w].owner
  PROVE  InventoryInv' /\ EquipmentInv'
<1>1. /\ \A u \in Weps : u \in updates' <=> u \in updates /\ u # w
      /\ \A p \in Players : p \in updates' <=> p \in updates
      /\ \A p \in Players \cup {Nil} : p # w
  BY OneLess
<1>2. InventoryInv'
  <2> SUFFICES ASSUME NEW p \in Players
               PROVE  /\ DOMAIN inventory[p] = Owned(IF p \in updates THEN before ELSE server, p)
                      /\ \A u \in DOMAIN inventory[p] :
                           Exists(server, u) \/ u \in updates' =>
                             weapons'[u] # NoEquipment /\ inventory[p][u] = weapons'[u]
    BY <1>1 DEF InventoryInv
  <2>1. DOMAIN inventory[p] = Owned(IF p \in updates THEN before ELSE server, p)
    BY DEF PossessionInv, InventoryInv
  <2>2. \A u \in DOMAIN inventory[p] : u \in Weps
    BY <2>1 DEF Owned
  <2>3. ASSUME NEW u \in DOMAIN inventory[p], Exists(server, u) \/ u \in updates'
        PROVE  weapons'[u] # NoEquipment /\ inventory[p][u] = weapons'[u]
    <3>1. weapons[u] # NoEquipment /\ inventory[p][u] = weapons[u]
      BY <1>1, <2>2, <2>3 DEF PossessionInv, InventoryInv
    <3> QED BY <1>1, <2>2, <2>3, <3>1
  <2> QED BY <2>1, <2>3
<1>3. EquipmentInv'
  <2> SUFFICES ASSUME NEW u \in Weps
               PROVE  /\ Exists(before, u) /\ u \in updates' => weapons'[u] # NoEquipment
                      /\ Typed(u)' => /\ weapons'[u] # NoEquipment
                                      /\ equipment'[weapons'[u]].type = server.wep[u].type
                      /\ Exists(server, u) /\ Settled(u)' /\ weapons'[u] # NoEquipment =>
                           equipment'[weapons'[u]].owner = server.wep[u].owner
    BY DEF EquipmentInv, Exists
  <2>1. CASE u = w
    BY <1>1, <2>1 DEF Typed, Exists
  <2>2. CASE u # w
    <3>1. server.wep[u].owner \in Players \cup {Nil}
      BY OwnersAre DEF PossessionInv, ServerInv
    <3>2. Typed(u)' <=> Typed(u)
      BY <1>1, <2>2 DEF Typed, Created, Exists
    <3>3. Settled(u)' <=> Settled(u)
      BY <1>1, <2>2, <3>1 DEF Settled, Created
    <3>4. /\ Exists(before, u) /\ u \in updates => weapons[u] # NoEquipment
          /\ Typed(u) => weapons[u] # NoEquipment /\ equipment[weapons[u]].type = server.wep[u].type
          /\ Exists(server, u) /\ Settled(u) /\ weapons[u] # NoEquipment =>
               equipment[weapons[u]].owner = server.wep[u].owner
      BY DEF PossessionInv, EquipmentInv
    <3> QED BY <1>1, <2>2, <3>2, <3>3, <3>4
  <2> QED BY <2>1, <2>2
<1> QED
  BY <1>2, <1>3

(* The shots told of remain so.                                            *)
LEMMA ShotsKeep ==
  ASSUME PossessionInv, NEW w \in Weps, updates' = updates \ {w},
         UNCHANGED <<server, before, shots>>,
         \A i \in Weps \ {w} : weapons'[i] = weapons[i],
         \A i \in DOMAIN log : i \in DOMAIN log' /\ log'[i] = log[i]
  PROVE  \A u \in DOMAIN shots \ {w} :
           ~Created(u) /\ server.wep[u].owner = shots[u] /\ u \notin updates' =>
             \E i \in DOMAIN log' : /\ log'[i].t = "WeaponFire" /\ log'[i].wep = u
                                    /\ log'[i].who = shots[u] /\ log'[i].eq = weapons'[u]
<1>1. DOMAIN shots \subseteq Weps
  BY DEF PossessionInv, ServerInv
<1>2. ASSUME NEW u \in DOMAIN shots \ {w},
             ~Created(u), server.wep[u].owner = shots[u], u \notin updates'
      PROVE  \E i \in DOMAIN log' : /\ log'[i].t = "WeaponFire" /\ log'[i].wep = u
                                    /\ log'[i].who = shots[u] /\ log'[i].eq = weapons'[u]
  <2>1. u \notin updates /\ u \in Weps \ {w}
    BY <1>1, <1>2
  <2>2. PICK i \in DOMAIN log : /\ log[i].t = "WeaponFire" /\ log[i].wep = u
                                /\ log[i].who = shots[u] /\ log[i].eq = weapons[u]
    BY <1>2, <2>1 DEF PossessionInv, LogInv
  <2>3. i \in DOMAIN log' /\ log'[i] = log[i] /\ weapons'[u] = weapons[u]
    BY <2>1
  <2> QED BY <2>2, <2>3
<1> QED
  BY <1>2

(* A weapon is created.                                                    *)
LEMMA CreatedKeeps ==
  ASSUME PossessionInv, NEW w \in Weps, inFrame, w \in updates, updates' = updates \ {w},
         UNCHANGED <<server, before, shots, inFrame>>,
         Created(w), BindWeapon(w), refund' = [refund EXCEPT ![w] = NewRefund(w)],
         firsts' = firsts \cup {w}, UNCHANGED log
  PROVE  PossessionInv'
<1>1. /\ server \in Servers /\ SlotsOK(server) /\ Moves(before, server) /\ State \in GameStates
      /\ firsts \subseteq {v \in Weps : Created(v)} /\ DOMAIN shots \subseteq Weps
  BY DEF PossessionInv, ServerInv
<1>2. Exists(server, w) /\ server.wep[w].owner # Nil
  BY <1>1 DEF Moves, Created, Exists
<1>3. /\ State' \in GameStates /\ inventory' = inventory
      /\ \A i \in Weps \ {w} :
           /\ weapons'[i] = weapons[i]
           /\ weapons[i] # NoEquipment => equipment'[weapons[i]] = equipment[weapons[i]]
      /\ weapons'[w] # NoEquipment /\ equipment'[weapons'[w]].type = server.wep[w].type
      /\ weapons[w] # NoEquipment =>
           weapons'[w] = weapons[w] /\ equipment'[weapons[w]].owner = equipment[weapons[w]].owner
  BY <1>1, <1>2, BindIs
<1>4. /\ \A u \in Weps : u \in updates' <=> u \in updates /\ u # w
      /\ \A p \in Players : p \in updates' <=> p \in updates
      /\ \A p \in Players \cup {Nil} : p # w
  BY OneLess
<1>5. ServerInv'
  BY <1>1, ServerKeeps
<1>6. InventoryInv' /\ EquipmentInv'
  <2>1. ASSUME Settled(w)' PROVE equipment'[weapons'[w]].owner = server.wep[w].owner
    <3>1. server.wep[w].owner \in Players
      BY <1>1, <1>2, OwnersAre
    <3>2. Settled(w)
      BY <1>2, <1>4, <2>1, <3>1 DEF Settled, Created
    <3>3. weapons[w] # NoEquipment
      BY <1>2, <3>2, SettledIs
    <3>4. equipment[weapons[w]].owner = server.wep[w].owner
      BY <1>2, <3>2, <3>3 DEF PossessionInv, EquipmentInv
    <3> QED BY <1>3, <3>3, <3>4
  <2> QED BY <1>3, <2>1, OthersKeep
<1>7. LogInv'
  <2>1. /\ log \in Seq([t : {"WeaponFire", "ItemRefund"}, who : Players, wep : Weps, eq : Ids])
        /\ \A i \in DOMAIN log : log[i].wep \notin updates /\ (FireOf(i) \/ RefundOf(i))
        /\ \A i, j \in DOMAIN log : log[i].wep = log[j].wep => i = j
    BY DEF PossessionInv, LogInv
  <2>2. \A u \in DOMAIN shots \ {w} :
          ~Created(u) /\ server.wep[u].owner = shots[u] /\ u \notin updates' =>
            \E i \in DOMAIN log' : /\ log'[i].t = "WeaponFire" /\ log'[i].wep = u
                                   /\ log'[i].who = shots[u] /\ log'[i].eq = weapons'[u]
    BY <1>3, ShotsKeep
  <2>3. \A i \in DOMAIN log' : log'[i].wep \notin updates' /\ (FireOf(i)' \/ RefundOf(i)')
    BY <2>1 DEF FireOf, RefundOf, Exists
  <2>4. \A u \in DOMAIN shots' :
          ~Created(u)' /\ server'.wep[u].owner = shots'[u] /\ u \notin updates' =>
            \E i \in DOMAIN log' : /\ log'[i].t = "WeaponFire" /\ log'[i].wep = u
                                   /\ log'[i].who = shots'[u] /\ log'[i].eq = weapons'[u]
    BY <2>2 DEF Created
  <2> QED BY <2>1, <2>3, <2>4 DEF LogInv
<1>8. RefundInv'
  <2>1. refund \in [Weps -> Refunds]
    BY DEF PossessionInv, RefundInv
  <2>2. NewRefund(w) \in Refunds /\ NewRefund(w).watched = << >>
    BY DEF NewRefund, NoRefund, Refunds
  <2>3. /\ refund' \in [Weps -> Refunds] /\ refund'[w].watched = << >>
        /\ \A u \in Weps \ {w} : refund'[u] = refund[u]
    BY <2>1, <2>2
  <2>4. \A p \in Players : <<p>> # << >>
    OBVIOUS
  <2>5. \A u \in Weps \ {w}, p \in Players :
       refund[u].watched = <<p>> =>
         /\ Exists(server, u) => refund[u].oldOwnerMoney = server.money[p]
         /\ Exists(before, u) /\ ~Exists(server, u) /\ u \in updates =>
              (refund[u].thisTick /\ refund[u].increased <=> Gain(p))
         /\ Exists(before, u) /\ ~Exists(server, u) /\ u \notin updates /\ before.wep[u].owner = p =>
              (Told("ItemRefund", u) # {} <=> p \in Zone /\ Gain(p))
    BY DEF PossessionInv, RefundInv
  <2>6. \A u \in Weps \ {w}, p \in Players :
       refund'[u].watched = <<p>> =>
         /\ Exists(server, u) => refund'[u].oldOwnerMoney = server.money[p]
         /\ Exists(before, u) /\ ~Exists(server, u) /\ u \in updates' =>
              (refund'[u].thisTick /\ refund'[u].increased <=> Gain(p))
         /\ Exists(before, u) /\ ~Exists(server, u) /\ u \notin updates' /\ before.wep[u].owner = p =>
              (Told("ItemRefund", u) # {} <=> p \in Zone /\ Gain(p))
    BY <1>4, <2>3, <2>5
  <2>7. \A u \in Weps, p \in Players : refund'[u].watched = <<p>> => u # w
    BY <2>3, <2>4
  <2> QED BY <2>3, <2>6, <2>7 DEF RefundInv, Gain, Told, Exists
<1> QED
  BY <1>3, <1>5, <1>6, <1>7, <1>8 DEF PossessionInv

(* The refund detections of the others remain what they are.               *)
LEMMA RefundsKeep ==
  ASSUME PossessionInv, NEW w \in Weps, inFrame, updates' = updates \ {w},
         UNCHANGED <<server, before, inFrame>>,
         refund' \in [Weps -> Refunds], \A u \in Weps \ {w} : refund'[u] = refund[u],
         \A i \in DOMAIN log : i \in DOMAIN log' /\ log'[i] = log[i],
         \A i \in DOMAIN log' : i \in DOMAIN log \/ log'[i].wep = w,
         \A p \in Players :
           refund'[w].watched = <<p>> =>
             /\ Exists(server, w) => refund'[w].oldOwnerMoney = server.money[p]
             /\ Exists(before, w) /\ ~Exists(server, w) /\ before.wep[w].owner = p =>
                  (Told("ItemRefund", w)' # {} <=> p \in Zone /\ Gain(p))
  PROVE  RefundInv'
<1>1. \A u \in Weps : u \in updates' <=> u \in updates /\ u # w
  BY OneLess
<1>2. ASSUME NEW u \in Weps \ {w}
      PROVE  Told("ItemRefund", u)' # {} <=> Told("ItemRefund", u) # {}
  BY DEF Told
<1>3. \A u \in Weps \ {w}, p \in Players :
       refund[u].watched = <<p>> =>
         /\ Exists(server, u) => refund[u].oldOwnerMoney = server.money[p]
         /\ Exists(before, u) /\ ~Exists(server, u) /\ u \in updates =>
              (refund[u].thisTick /\ refund[u].increased <=> Gain(p))
         /\ Exists(before, u) /\ ~Exists(server, u) /\ u \notin updates /\ before.wep[u].owner = p =>
              (Told("ItemRefund", u) # {} <=> p \in Zone /\ Gain(p))
  BY DEF PossessionInv, RefundInv
<1>4. ASSUME NEW u \in Weps, NEW p \in Players, refund'[u].watched = <<p>>
      PROVE  /\ Exists(server, u) => refund'[u].oldOwnerMoney = server.money[p]
             /\ Exists(before, u) /\ ~Exists(server, u) /\ u \in updates' =>
                  (refund'[u].thisTick /\ refund'[u].increased <=> Gain(p))
             /\ Exists(before, u) /\ ~Exists(server, u) /\ u \notin updates' /\ before.wep[u].owner = p =>
                  (Told("ItemRefund", u)' # {} <=> p \in Zone /\ Gain(p))
  <2>1. CASE u = w
    BY <1>1, <1>4, <2>1
  <2>2. CASE u # w
    BY <1>1, <1>2, <1>3, <1>4, <2>2
  <2> QED BY <2>1, <2>2
<1> QED
  BY <1>4 DEF RefundInv, Gain, Exists

(* A weapon is destroyed.                                                  *)
LEMMA DestroyedKeeps ==
  ASSUME PossessionInv, NEW w \in Weps, inFrame, w \in updates, updates' = updates \ {w},
         UNCHANGED <<server, before, shots, inFrame>>,
         ~Exists(server, w), WeaponDestroyed(w), UNCHANGED firsts
  PROVE  PossessionInv'
<1>1. /\ server \in Servers /\ SlotsOK(server) /\ before \in Servers /\ SlotsOK(before)
      /\ State \in GameStates /\ firsts \subseteq {v \in Weps : Created(v)} /\ Exists(before, w)
      /\ \A u \in DOMAIN shots : u \in Weps /\ shots[u] # Nil
  BY DEF PossessionInv, ServerInv
<1>2. weapons[w] # NoEquipment
  BY <1>1 DEF PossessionInv, EquipmentInv
<1>3. /\ log' = IF Refunded(w)
                THEN Append(log, [t |-> "ItemRefund", who |-> before.wep[w].owner, wep |-> w,
                                  eq |-> weapons[w]]) ELSE log
      /\ equipment' = OwnerLost(w)
      /\ weapons' = [weapons EXCEPT ![w] = NoEquipment]
      /\ refund' = [refund EXCEPT ![w].increased = FALSE]
      /\ UNCHANGED inventory
  BY DEF WeaponDestroyed
<1>4. /\ weapons \in [Weps -> Ids \cup {NoEquipment}] /\ inventory \in [Players -> Inventories]
      /\ \A i \in Weps : weapons[i] # NoEquipment => weapons[i] \in Ids /\ weapons[i][1] = i
      /\ \A p \in Players : \A i \in DOMAIN inventory[p] : inventory[p][i][1] = i
  BY <1>1, StateIs
<1>5. /\ OwnerLost(w) \in [Ids -> Infos] /\ weapons[w] \in Ids
      /\ \A i \in Weps \ {w} : weapons[i] # NoEquipment =>
           OwnerLost(w)[weapons[i]] = equipment[weapons[i]]
  BY <1>1, <1>2, LostIs
<1>6. /\ weapons' \in [Weps -> Ids \cup {NoEquipment}] /\ weapons'[w] = NoEquipment
      /\ \A i \in Weps \ {w} : weapons'[i] = weapons[i]
  BY <1>3, <1>4
<1>7. State' \in GameStates
  <2>1. \A i \in Weps : weapons'[i] # NoEquipment => weapons'[i][1] = i
    BY <1>4, <1>6
  <2>2. [weapons |-> weapons', equipment |-> equipment', inventory |-> inventory'] \in GameStates
    BY <1>3, <1>4, <1>5, <1>6, <2>1, MakesState
  <2> QED BY <2>2 DEF State
<1>8. ServerInv'
  BY <1>1, ServerKeeps
<1>9. InventoryInv' /\ EquipmentInv'
  BY <1>3, <1>5, <1>6, OthersKeep
<1>10. /\ refund \in [Weps -> Refunds] /\ refund[w] \in Refunds
       /\ refund' \in [Weps -> Refunds] /\ refund'[w].watched = refund[w].watched
       /\ \A u \in Weps \ {w} : refund'[u] = refund[u]
  <2>1. refund \in [Weps -> Refunds]
    BY DEF PossessionInv, RefundInv
  <2> QED BY <1>3, <2>1 DEF Refunds
<1>11. ASSUME NEW p \in Players, refund[w].watched = <<p>>, before.wep[w].owner = p
       PROVE  Refunded(w) <=> p \in Zone /\ Gain(p)
  BY <1>1, <1>11 DEF PossessionInv, RefundInv, Refunded
<1>12. \A i \in DOMAIN log : log[i].wep # w
  BY DEF PossessionInv, LogInv
<1>13. \A u \in DOMAIN shots : server.wep[u].owner = shots[u] => u # w
  BY <1>1, OwnersAre
<1> DEFINE Rest == /\ log' \in Seq(Entries)
                   /\ \A i \in DOMAIN log' : log'[i].wep \notin updates' /\ (FireOf(i)' \/ RefundOf(i)')
                   /\ \A i, j \in DOMAIN log' : log'[i].wep = log'[j].wep => i = j
                   /\ \A i \in DOMAIN log : i \in DOMAIN log' /\ log'[i] = log[i]
                   /\ \A i \in DOMAIN log' : i \in DOMAIN log \/ log'[i].wep = w
                   /\ Told("ItemRefund", w)' # {} <=> Refunded(w)
<1>14. Rest
  <2>1. CASE Refunded(w)
    <3> DEFINE e == [t |-> "ItemRefund", who |-> before.wep[w].owner, wep |-> w, eq |-> weapons[w]]
    <3>1. /\ e \in Entries /\ e.wep = w /\ e.t = "ItemRefund" /\ e.who = before.wep[w].owner
          /\ e.who \in Zone
      BY <1>5, <2>1, WeaponsAssumption DEF Entries, Refunded
    <3>2. log' = Append(log, e)
      BY <1>3, <2>1
    <3> HIDE DEF e
    <3>3. /\ log' \in Seq(Entries)
          /\ \A i \in DOMAIN log' : log'[i].wep \notin updates' /\ (FireOf(i)' \/ RefundOf(i)')
          /\ \A i, j \in DOMAIN log' : log'[i].wep = log'[j].wep => i = j
          /\ \A i \in DOMAIN log : i \in DOMAIN log' /\ log'[i] = log[i] /\ log[i].wep # w
          /\ Len(log) + 1 \in DOMAIN log' /\ log'[Len(log) + 1] = e
          /\ \A i \in DOMAIN log' : i \in DOMAIN log \/ log'[i] = e
      BY <3>1, <3>2, LogMore
    <3>4. Len(log) + 1 \in Told("ItemRefund", w)'
      BY <3>1, <3>3 DEF Told
    <3> QED BY <2>1, <3>1, <3>3, <3>4
  <2>2. CASE ~Refunded(w)
    <3>1. log' = log
      BY <1>3, <2>2
    <3>2. /\ log \in Seq(Entries)
          /\ \A i \in DOMAIN log : log[i].wep \notin updates /\ (FireOf(i) \/ RefundOf(i))
          /\ \A i, j \in DOMAIN log : log[i].wep = log[j].wep => i = j
      BY DEF PossessionInv, LogInv, Entries
    <3>3. \A i \in DOMAIN log' : log'[i].wep \notin updates' /\ (FireOf(i)' \/ RefundOf(i)')
      BY <3>1, <3>2 DEF FireOf, RefundOf, Exists
    <3>4. Told("ItemRefund", w)' = {}
      BY <1>12, <3>1 DEF Told
    <3> QED BY <2>2, <3>1, <3>2, <3>3, <3>4
  <2> QED BY <2>1, <2>2
<1>15. LogInv'
  <2>1. \A u \in DOMAIN shots \ {w} :
          ~Created(u) /\ server.wep[u].owner = shots[u] /\ u \notin updates' =>
            \E i \in DOMAIN log' : /\ log'[i].t = "WeaponFire" /\ log'[i].wep = u
                                   /\ log'[i].who = shots[u] /\ log'[i].eq = weapons'[u]
    BY <1>6, <1>14, ShotsKeep
  <2>2. \A u \in DOMAIN shots' :
          ~Created(u)' /\ server'.wep[u].owner = shots'[u] /\ u \notin updates' =>
            \E i \in DOMAIN log' : /\ log'[i].t = "WeaponFire" /\ log'[i].wep = u
                                   /\ log'[i].who = shots'[u] /\ log'[i].eq = weapons'[u]
    BY <1>13, <2>1 DEF Created
  <2> QED BY <1>14, <2>2 DEF LogInv, Entries
<1>16. RefundInv'
  BY <1>10, <1>11, <1>14, RefundsKeep
<1> QED
  BY <1>7, <1>8, <1>9, <1>15, <1>16 DEF PossessionInv


(* An owner more is watched, from the money they have.                     *)
LEMMA FoundIs ==
  ASSUME PossessionInv, NEW w \in Weps, server.wep[w].owner # Nil, OwnerFound(w)
  PROVE  /\ refund' \in [Weps -> Refunds] /\ \A u \in Weps \ {w} : refund'[u] = refund[u]
         /\ \A p \in Players : refund'[w].watched = <<p>> => refund'[w].oldOwnerMoney = server.money[p]
<1> DEFINE owner == server.wep[w].owner
           s == refund[w].watched
           new == [refund[w] EXCEPT !.oldOwnerMoney = server.money[owner], !.watched = Append(@, owner)]
<1>1. /\ refund \in [Weps -> Refunds] /\ server \in Servers /\ SlotsOK(server)
      /\ server.money \in [Players -> Nat]
  BY ServerIs DEF PossessionInv, ServerInv, RefundInv
<1>2. refund' = [refund EXCEPT ![w] = new]
  <2>1. refund' = [refund EXCEPT ![w].oldOwnerMoney = server.money[owner],
                                 ![w].watched = Append(@, owner)]
    BY DEF OwnerFound
  <2> QED BY <1>1, <2>1
<1>3. /\ owner \in Players /\ server.money[owner] \in Nat /\ refund[w] \in Refunds
      /\ s \in Seq(Players)
  BY <1>1, OwnersAre DEF Refunds
<1> HIDE DEF owner
<1>4. Append(s, owner) \in Seq(Players)
  BY <1>3
<1>5. /\ new \in Refunds /\ new.oldOwnerMoney = server.money[owner]
      /\ new.watched = Append(s, owner)
  BY <1>3, <1>4 DEF Refunds
<1> HIDE DEF s, new
<1>6. ASSUME NEW p \in Players, Append(s, owner) = <<p>> PROVE p = owner
  <2>1. Len(Append(s, owner)) = Len(s) + 1 /\ Append(s, owner)[Len(s) + 1] = owner /\ Len(s) \in Nat
    BY <1>3, AppendProperties, LenProperties
  <2>2. Len(<<p>>) = 1 /\ <<p>>[1] = p
    OBVIOUS
  <2> QED BY <1>6, <2>1, <2>2
<1> QED
  BY <1>1, <1>2, <1>5, <1>6

(* A weapon that was there before changes.                                 *)
LEMMA UpdateOf ==
  ASSUME NEW w \in Weps, WeaponUpdate(w)
  PROVE  /\ UNCHANGED <<weapons, inventory>>
         /\ equipment' = IF server.wep[w].owner = Nil /\ before.wep[w].owner # Nil THEN OwnerLost(w)
                         ELSE equipment
         /\ LET shooter == IF server.wep[w].owner # Nil THEN server.wep[w].owner
                           ELSE equipment'[weapons[w]].owner
            IN  log' = IF w \in DOMAIN shots /\ shooter # Nil
                       THEN Append(log, [t |-> "WeaponFire", who |-> shooter, wep |-> w,
                                         eq |-> weapons[w]]) ELSE log
         /\ IF server.wep[w].owner \notin {Nil, before.wep[w].owner} THEN OwnerFound(w)
            ELSE UNCHANGED refund
<1> DEFINE loses == server.wep[w].owner = Nil /\ before.wep[w].owner # Nil
           b == IF loses THEN OwnerLost(w) ELSE equipment
           st == [weapons |-> weapons, equipment |-> b, inventory |-> inventory]
<1>1. [State EXCEPT !.equipment = IF loses THEN OwnerLost(w) ELSE @] = st
  <2> HIDE DEF loses
  <2> QED BY DEF State
<1>2. /\ Becomes(st) /\ log' = Fired(st, w)
      /\ IF server.wep[w].owner \notin {Nil, before.wep[w].owner} THEN OwnerFound(w)
         ELSE UNCHANGED refund
  BY <1>1 DEF WeaponUpdate
<1>3. st.weapons = weapons /\ st.equipment = b /\ st.inventory = inventory
  OBVIOUS
<1> HIDE DEF st, loses
<1>4. UNCHANGED <<weapons, inventory>> /\ equipment' = b
  BY <1>2, <1>3 DEF Becomes
<1> HIDE DEF b
<1> QED
  BY <1>2, <1>3, <1>4 DEF Fired, b, loses

LEMMA UpdatedKeeps ==
  ASSUME PossessionInv, NEW w \in Weps, inFrame, w \in updates, updates' = updates \ {w},
         UNCHANGED <<server, before, shots, inFrame>>,
         Exists(server, w), ~Created(w), WeaponUpdate(w), UNCHANGED firsts
  PROVE  PossessionInv'
<1> DEFINE owner == server.wep[w].owner
           shooter == IF owner # Nil THEN owner ELSE equipment'[weapons[w]].owner
<1>1. /\ server \in Servers /\ SlotsOK(server) /\ before \in Servers /\ SlotsOK(before)
      /\ Moves(before, server)
      /\ State \in GameStates /\ firsts \subseteq {v \in Weps : Created(v)}
      /\ \A u \in DOMAIN shots : u \in Weps /\ shots[u] # Nil
  BY DEF PossessionInv, ServerInv
<1>2. weapons[w] # NoEquipment /\ equipment[weapons[w]].type = server.wep[w].type
  <2>1. Typed(w)
    BY DEF Typed
  <2> QED BY <2>1 DEF PossessionInv, EquipmentInv
<1>3. /\ UNCHANGED <<weapons, inventory>>
      /\ equipment' = IF owner = Nil /\ before.wep[w].owner # Nil THEN OwnerLost(w) ELSE equipment
      /\ log' = IF w \in DOMAIN shots /\ shooter # Nil
                THEN Append(log, [t |-> "WeaponFire", who |-> shooter, wep |-> w, eq |-> weapons[w]])
                ELSE log
      /\ IF owner \notin {Nil, before.wep[w].owner} THEN OwnerFound(w) ELSE UNCHANGED refund
  BY UpdateOf
<1>4. owner \in Players \cup {Nil} /\ Nil \notin Players
  BY <1>1, OwnersAre, WeaponsAssumption
<1>5. /\ weapons \in [Weps -> Ids \cup {NoEquipment}] /\ equipment \in [Ids -> Infos]
      /\ inventory \in [Players -> Inventories]
      /\ \A i \in Weps : weapons[i] # NoEquipment => weapons[i] \in Ids /\ weapons[i][1] = i
      /\ \A p \in Players : \A i \in DOMAIN inventory[p] : inventory[p][i][1] = i
  BY <1>1, StateIs
<1>6. /\ OwnerLost(w) \in [Ids -> Infos] /\ weapons[w] \in Ids
      /\ OwnerLost(w)[weapons[w]].owner = Nil
      /\ OwnerLost(w)[weapons[w]].type = equipment[weapons[w]].type
      /\ \A i \in Weps \ {w} : weapons[i] # NoEquipment =>
           OwnerLost(w)[weapons[i]] = equipment[weapons[i]]
  BY <1>1, <1>2, LostIs
<1>7. /\ equipment' \in [Ids -> Infos] /\ equipment'[weapons[w]].type = server.wep[w].type
      /\ \A i \in Weps \ {w} : weapons[i] # NoEquipment =>
           equipment'[weapons[i]] = equipment[weapons[i]]
  BY <1>2, <1>3, <1>5, <1>6
<1>8. State' \in GameStates
  <2>1. [weapons |-> weapons, equipment |-> equipment', inventory |-> inventory] \in GameStates
    BY <1>5, <1>7, MakesState
  <2> QED BY <1>3, <2>1 DEF State
<1>9. ServerInv'
  BY <1>1, ServerKeeps
<1>10. InventoryInv' /\ EquipmentInv'
  <2>1. ASSUME Settled(w)' PROVE equipment'[weapons'[w]].owner = owner
    <3>1. CASE owner = Nil /\ before.wep[w].owner # Nil
      BY <1>3, <1>6, <3>1
    <3>2. CASE ~(owner = Nil /\ before.wep[w].owner # Nil)
      <4>1. Settled(w)
        <5>1. CASE owner = Nil
          BY <3>2, <5>1 DEF Settled
        <5>2. CASE owner # Nil
          <6>1. owner \in updates' <=> owner \in updates
            BY <1>4, <5>2, OneLess
          <6> QED BY <2>1, <5>2, <6>1 DEF Settled, Created
        <5> QED BY <5>1, <5>2
      <4>2. equipment[weapons[w]].owner = owner
        BY <1>2, <4>1 DEF PossessionInv, EquipmentInv
      <4> QED BY <1>3, <3>2, <4>2
    <3> QED BY <3>1, <3>2
  <2> HIDE DEF owner, shooter
  <2>2. Settled(w)' => equipment'[weapons'[w]].owner = server.wep[w].owner
    BY <2>1 DEF owner
  <2> QED BY <1>2, <1>3, <1>7, <2>2, OthersKeep
<1>11. shooter \in Players \cup {Nil}
  BY <1>4, <1>6, <1>7 DEF Infos
<1>12. owner # Nil => shooter = owner
  OBVIOUS
<1> DEFINE Rest == /\ log' \in Seq(Entries)
                   /\ \A i \in DOMAIN log' : log'[i].wep \notin updates' /\ (FireOf(i)' \/ RefundOf(i)')
                   /\ \A i, j \in DOMAIN log' : log'[i].wep = log'[j].wep => i = j
                   /\ \A i \in DOMAIN log : i \in DOMAIN log' /\ log'[i] = log[i]
                   /\ \A i \in DOMAIN log' : i \in DOMAIN log \/ log'[i].wep = w
                   /\ w \in DOMAIN shots /\ shooter # Nil =>
                        \E i \in DOMAIN log' : /\ log'[i].t = "WeaponFire" /\ log'[i].wep = w
                                               /\ log'[i].who = shooter /\ log'[i].eq = weapons[w]
<1>13. Rest
  <2> HIDE DEF shooter
  <2>1. CASE w \in DOMAIN shots /\ shooter # Nil
    <3> DEFINE e == [t |-> "WeaponFire", who |-> shooter, wep |-> w, eq |-> weapons[w]]
    <3>1. /\ e \in Entries /\ e.wep = w /\ e.t = "WeaponFire" /\ e.who = shooter /\ e.eq = weapons[w]
      BY <1>6, <1>11, <2>1 DEF Entries
    <3>2. log' = Append(log, e)
      BY <1>3, <2>1
    <3> HIDE DEF e
    <3>3. /\ log' \in Seq(Entries)
          /\ \A i \in DOMAIN log' : log'[i].wep \notin updates' /\ (FireOf(i)' \/ RefundOf(i)')
          /\ \A i, j \in DOMAIN log' : log'[i].wep = log'[j].wep => i = j
          /\ \A i \in DOMAIN log : i \in DOMAIN log' /\ log'[i] = log[i] /\ log[i].wep # w
          /\ Len(log) + 1 \in DOMAIN log' /\ log'[Len(log) + 1] = e
          /\ \A i \in DOMAIN log' : i \in DOMAIN log \/ log'[i] = e
      BY <2>1, <3>1, <3>2, LogMore
    <3> QED BY <3>1, <3>3
  <2>2. CASE ~(w \in DOMAIN shots /\ shooter # Nil)
    <3>1. log' = log
      BY <1>3, <2>2
    <3>2. /\ log \in Seq(Entries)
          /\ \A i \in DOMAIN log : log[i].wep \notin updates /\ (FireOf(i) \/ RefundOf(i))
          /\ \A i, j \in DOMAIN log : log[i].wep = log[j].wep => i = j
      BY DEF PossessionInv, LogInv, Entries
    <3>3. \A i \in DOMAIN log' : log'[i].wep \notin updates' /\ (FireOf(i)' \/ RefundOf(i)')
      BY <3>1, <3>2 DEF FireOf, RefundOf, Exists
    <3> QED BY <2>2, <3>1, <3>2, <3>3
  <2> QED BY <2>1, <2>2
<1>14. LogInv'
  <2>1. \A u \in DOMAIN shots \ {w} :
          ~Created(u) /\ server.wep[u].owner = shots[u] /\ u \notin updates' =>
            \E i \in DOMAIN log' : /\ log'[i].t = "WeaponFire" /\ log'[i].wep = u
                                   /\ log'[i].who = shots[u] /\ log'[i].eq = weapons'[u]
    BY <1>3, <1>13, ShotsKeep
  <2>2. ASSUME w \in DOMAIN shots, server.wep[w].owner = shots[w]
        PROVE \E i \in DOMAIN log' : /\ log'[i].t = "WeaponFire" /\ log'[i].wep = w
                                     /\ log'[i].who = shots[w] /\ log'[i].eq = weapons'[w]
    <3>1. shooter # Nil /\ shooter = shots[w]
      BY <1>1, <1>12, <2>2
    <3> HIDE DEF shooter
    <3> QED BY <1>3, <1>13, <2>2, <3>1
  <2>3. \A u \in DOMAIN shots' :
          ~Created(u)' /\ server'.wep[u].owner = shots'[u] /\ u \notin updates' =>
            \E i \in DOMAIN log' : /\ log'[i].t = "WeaponFire" /\ log'[i].wep = u
                                   /\ log'[i].who = shots'[u] /\ log'[i].eq = weapons'[u]
    BY <2>1, <2>2 DEF Created
  <2> HIDE DEF shooter
  <2> QED BY <1>13, <2>3 DEF LogInv, Entries
<1>15. RefundInv'
  <2>1. refund \in [Weps -> Refunds] /\ server.money \in [Players -> Nat]
    BY <1>1, ServerIs DEF PossessionInv, RefundInv
  <2>2. /\ refund' \in [Weps -> Refunds] /\ \A u \in Weps \ {w} : refund'[u] = refund[u]
        /\ \A p \in Players : refund'[w].watched = <<p>> => refund'[w].oldOwnerMoney = server.money[p]
    <3>1. CASE owner \notin {Nil, before.wep[w].owner}
      BY <1>3, <3>1, FoundIs
    <3>2. CASE owner \in {Nil, before.wep[w].owner}
      <4>1. refund' = refund
        BY <1>3, <3>2
      <4> QED BY <2>1, <4>1 DEF PossessionInv, RefundInv
    <3> QED BY <3>1, <3>2
  <2> HIDE DEF shooter
  <2> QED BY <1>13, <2>2, RefundsKeep
<1> QED
  BY <1>8, <1>9, <1>10, <1>14, <1>15 DEF PossessionInv

LEMMA WeaponKeeps ==
  ASSUME PossessionInv, NEW w \in Weps, WeaponComes(w)
  PROVE  PossessionInv'
<1>1. inFrame /\ w \in updates /\ updates' = updates \ {w} /\ UNCHANGED <<server, before, shots, inFrame>>
  BY DEF WeaponComes
<1>2. \/ /\ Created(w) /\ BindWeapon(w) /\ refund' = [refund EXCEPT ![w] = NewRefund(w)]
         /\ firsts' = firsts \cup {w} /\ UNCHANGED log
      \/ ~Exists(server, w) /\ WeaponDestroyed(w) /\ UNCHANGED firsts
      \/ Exists(server, w) /\ ~Created(w) /\ WeaponUpdate(w) /\ UNCHANGED firsts
  BY DEF WeaponComes
<1> QED
  BY <1>1, <1>2, CreatedKeeps, DestroyedKeeps, UpdatedKeeps

---------------------------------------------------------------------------
(* First values, and the end of a frame                                    *)
LEMMA FirstKeeps ==
  ASSUME PossessionInv, NEW w \in Weps, FirstValues(w)
  PROVE  PossessionInv'
<1>1. /\ inFrame /\ updates = {} /\ w \in firsts /\ firsts' = firsts \ {w}
      /\ IF server.wep[w].owner = Nil THEN equipment' = OwnerLost(w) /\ UNCHANGED refund
         ELSE OwnerFound(w) /\ UNCHANGED equipment
      /\ UNCHANGED <<server, before, shots, updates, inFrame, weapons, inventory, log>>
  BY DEF FirstValues
<1>2. /\ server.wep[w].owner # Nil /\ Exists(server, w) /\ State \in GameStates
      /\ firsts \subseteq {v \in Weps : Created(v)}
  BY <1>1 DEF PossessionInv, ServerInv, Moves, Created, Exists
<1>3. equipment' = equipment /\ OwnerFound(w)
  BY <1>1, <1>2
<1>4. ServerInv'
  BY <1>1, <1>2, ServerKeeps
<1>5. State' \in GameStates
  BY <1>1, <1>2, <1>3, StateKeeps
<1>6. InventoryInv' /\ EquipmentInv' /\ LogInv'
  BY <1>1, <1>3 DEF PossessionInv, InventoryInv, EquipmentInv, LogInv, FireOf, RefundOf, Typed,
                    Settled, Created, Exists
<1>7. RefundInv'
  <2>1. updates' = updates \ {w}
    BY <1>1
  <2>2. /\ refund' \in [Weps -> Refunds] /\ \A u \in Weps \ {w} : refund'[u] = refund[u]
        /\ \A p \in Players : refund'[w].watched = <<p>> => refund'[w].oldOwnerMoney = server.money[p]
    BY <1>2, <1>3, FoundIs
  <2> QED BY <1>1, <1>2, <2>1, <2>2, RefundsKeep
<1> QED
  BY <1>4, <1>5, <1>6, <1>7 DEF PossessionInv

LEMMA AgedIs ==
  ASSUME server \in Servers, SlotsOK(server)
  PROVE  /\ Aged \in Servers /\ SlotsOK(Aged) /\ Old(Aged) /\ Aged.money = server.money
         /\ \A w \in Weps : /\ Aged.wep[w].type = server.wep[w].type
                            /\ Aged.wep[w].owner = server.wep[w].owner
<1> DEFINE a == [w \in Weps |-> [server.wep[w] EXCEPT !.new = FALSE]]
           b == [p \in Players |-> [k \in DOMAIN server.slots[p] |->
                                      [server.slots[p][k] EXCEPT !.new = FALSE]]]
<1>1. /\ server.wep \in [Weps -> Weapon] /\ server.slots \in [Players -> Seq(Handles)]
      /\ server.money \in [Players -> Nat]
      /\ server = [wep |-> server.wep, slots |-> server.slots, money |-> server.money]
  BY ServerIs
<1>2. Aged = [wep |-> a, slots |-> b, money |-> server.money]
  <2>1. Aged = [server EXCEPT !.wep = a, !.slots = b]
    BY DEF Aged
  <2> HIDE DEF a, b
  <2> QED BY <1>1, <2>1
<1>3. a \in [Weps -> Weapon]
      /\ \A w \in Weps : /\ a[w].type = server.wep[w].type /\ a[w].owner = server.wep[w].owner
                         /\ a[w].new = FALSE
  BY <1>1 DEF Weapon
<1>4. ASSUME NEW p \in Players
      PROVE  /\ b[p] \in Seq(Handles) /\ Len(b[p]) = Len(server.slots[p])
             /\ \A k \in 1 .. Len(b[p]) : b[p][k] = [idx |-> server.slots[p][k].idx, new |-> FALSE]
  <2> DEFINE seq == server.slots[p]
             aged == [k \in DOMAIN seq |-> [seq[k] EXCEPT !.new = FALSE]]
  <2>1. seq \in Seq(Handles) /\ Len(seq) \in Nat /\ DOMAIN seq = 1 .. Len(seq)
    BY <1>1, LenProperties
  <2>2. b[p] = aged
    OBVIOUS
  <2> HIDE DEF seq
  <2>3. ASSUME NEW k \in 1 .. Len(seq)
        PROVE  aged[k] = [idx |-> seq[k].idx, new |-> FALSE] /\ aged[k] \in Handles
    <3>1. seq[k] \in Handles
      BY <2>1
    <3> QED BY <2>1, <3>1 DEF Handles
  <2>4. aged = [k \in 1 .. Len(seq) |-> aged[k]]
    BY <2>1
  <2> HIDE DEF aged
  <2>5. aged \in [1 .. Len(seq) -> Handles]
    BY <2>3, <2>4
  <2>6. aged \in Seq(Handles) /\ Len(aged) = Len(seq)
    BY <2>1, <2>5
  <2> QED BY <2>2, <2>3, <2>6 DEF seq
<1> HIDE DEF a, b
<1>5. b \in [Players -> Seq(Handles)]
  <2>1. b = [p \in Players |-> b[p]]
    BY DEF b
  <2> QED BY <1>4, <2>1
<1>6. Aged \in Servers
  BY <1>1, <1>2, <1>3, <1>5, MakesServer
<1>7. \A w \in Weps : Aged.wep[w].type = Nil => Aged.wep[w].owner = Nil
  BY <1>2, <1>3 DEF SlotsOK
<1>8. ASSUME NEW p \in Players PROVE Lists(Aged.slots[p], Handed(Aged, p))
  <2> DEFINE seq == server.slots[p]
             aged == b[p]
             H == Handed(Aged, p)
             Hand(i) == [idx |-> i, new |-> FALSE]
  <2>1. /\ seq \in Seq(Handles) /\ Len(seq) \in Nat
        /\ \A k \in 1 .. Len(seq) : seq[k].idx \in Owned(server, p)
        /\ \A w \in Owned(server, p) : \E k \in 1 .. Len(seq) : seq[k].idx = w
        /\ \A j, k \in 1 .. Len(seq) : seq[j].idx = seq[k].idx => j = k
    <3>1. Lists(seq, Handed(server, p))
      BY DEF SlotsOK
    <3>2. \A j, k \in 1 .. Len(seq) : seq[j].idx = seq[k].idx => j = k
      <4> HIDE DEF seq
      <4> QED BY <3>1, ListIs
    <3> QED BY <3>2, HandedIs
  <2>2. aged \in Seq(Handles) /\ Len(aged) = Len(seq)
        /\ \A k \in 1 .. Len(aged) : aged[k] = Hand(seq[k].idx)
    BY <1>4
  <2>3. H = {Hand(w) : w \in Owned(server, p)} /\ \A w \in Owned(server, p) : Hand(w).idx = w
    <3>1. Owned(Aged, p) = Owned(server, p) /\ \A w \in Owned(Aged, p) : Aged.wep[w].new = FALSE
      BY <1>2, <1>3 DEF Owned
    <3> QED BY <3>1 DEF Handed
  <2> HIDE DEF seq, aged, H, Hand
  <2>4. \A k \in 1 .. Len(aged) : aged[k] \in H
    BY <2>1, <2>2, <2>3
  <2>5. ASSUME NEW h \in H PROVE \E k \in 1 .. Len(aged) : aged[k] = h
    <3>1. PICK w \in Owned(server, p) : h = Hand(w)
      BY <2>3
    <3> QED BY <2>1, <2>2, <3>1
  <2>6. \A j, k \in 1 .. Len(aged) : aged[j].idx = aged[k].idx => j = k
    <3>1. \A k \in 1 .. Len(aged) : aged[k].idx = seq[k].idx
      BY <2>1, <2>2, <2>3
    <3> QED BY <2>1, <2>2, <3>1
  <2>7. Lists(aged, H)
    BY <2>2, <2>4, <2>5, <2>6, Listed
  <2> QED BY <1>2, <2>7 DEF aged, H
<1> QED
  BY <1>2, <1>3, <1>6, <1>7, <1>8 DEF SlotsOK, Old

(* What is referred to is kept.                                            *)
LEMMA EndKeeps ==
  ASSUME PossessionInv, EndFrame
  PROVE  PossessionInv'
<1>1. /\ inFrame /\ updates = {} /\ firsts = {} /\ inFrame' = FALSE
      /\ server' = Aged /\ before' = Aged /\ shots' = << >> /\ log' = << >>
      /\ equipment' = [e \in Ids |-> IF e \in Referred(State) THEN equipment[e] ELSE NewEq(EqUnknown)]
      /\ refund' = [w \in Weps |-> IF Exists(server, w)
                                   THEN [refund[w] EXCEPT !.thisTick = FALSE, !.increased = FALSE]
                                   ELSE NoRefund]
      /\ UNCHANGED <<updates, firsts, weapons, inventory>>
  BY DEF EndFrame, FrameRead
<1>2. server \in Servers /\ SlotsOK(server) /\ State \in GameStates
  BY DEF PossessionInv, ServerInv
<1>3. /\ Aged \in Servers /\ SlotsOK(Aged) /\ Old(Aged) /\ Aged.money = server.money
      /\ \A w \in Weps : /\ Aged.wep[w].type = server.wep[w].type
                         /\ Aged.wep[w].owner = server.wep[w].owner
  BY <1>2, AgedIs
<1> HIDE DEF Aged
<1>4. \A w \in Weps : Exists(Aged, w) <=> Exists(server, w)
  BY <1>3 DEF Exists
<1>5. /\ \A p \in Players : DOMAIN inventory[p] = Owned(server, p)
      /\ \A w \in Weps : Exists(server, w) =>
           /\ weapons[w] # NoEquipment
           /\ equipment[weapons[w]].type = server.wep[w].type
           /\ equipment[weapons[w]].owner = server.wep[w].owner
           /\ server.wep[w].owner # Nil =>
                /\ server.wep[w].owner \in Players
                /\ w \in DOMAIN inventory[server.wep[w].owner]
                /\ inventory[server.wep[w].owner][w] = weapons[w]
  BY <1>1, BetweenFrames
<1>6. /\ weapons \in [Weps -> Ids \cup {NoEquipment}] /\ equipment \in [Ids -> Infos]
      /\ inventory \in [Players -> Inventories]
      /\ \A i \in Weps : weapons[i] # NoEquipment => weapons[i] \in Ids /\ weapons[i][1] = i
      /\ \A p \in Players : \A i \in DOMAIN inventory[p] : inventory[p][i][1] = i
  BY <1>2, StateIs
<1>7. \A w \in Weps : weapons[w] # NoEquipment => equipment'[weapons[w]] = equipment[weapons[w]]
  <2>1. \A w \in Weps : weapons[w] \in Referred(State)
    BY DEF Referred, State
  <2> QED BY <1>1, <1>6, <2>1
<1>8. ServerInv'
  <2>1. Moves(Aged, Aged)
    BY <1>3 DEF Moves, Old
  <2>2. DOMAIN shots' = {}
    <3>1. shots' = << >>
      BY <1>1
    <3> QED BY <3>1
  <2> QED BY <1>1, <1>3, <2>1, <2>2 DEF ServerInv
<1>9. State' \in GameStates
  <2>1. NewEq(EqUnknown) \in Infos
    BY DEF NewEq, Infos
  <2>2. equipment' \in [Ids -> Infos]
    BY <1>1, <1>6, <2>1
  <2>3. [weapons |-> weapons, equipment |-> equipment', inventory |-> inventory] \in GameStates
    BY <1>6, <2>2, MakesState
  <2> QED BY <1>1, <2>3 DEF State
<1>10. InventoryInv'
  <2> SUFFICES ASSUME NEW p \in Players
               PROVE  /\ DOMAIN inventory[p] = Owned(Aged, p)
                      /\ \A w \in DOMAIN inventory[p] :
                           Exists(Aged, w) =>
                             weapons[w] # NoEquipment /\ inventory[p][w] = weapons[w]
    BY <1>1 DEF InventoryInv
  <2>1. Owned(Aged, p) = Owned(server, p)
    BY <1>3 DEF Owned
  <2>2. ASSUME NEW w \in Owned(server, p)
        PROVE  weapons[w] # NoEquipment /\ inventory[p][w] = weapons[w]
    <3>1. w \in Weps /\ server.wep[w].owner = p /\ p # Nil
      BY WeaponsAssumption DEF Owned
    <3> QED BY <1>2, <1>5, <3>1, OwnersAre
  <2> QED BY <1>5, <2>1, <2>2
<1>11. EquipmentInv'
  <2> SUFFICES ASSUME NEW w \in Weps
               PROVE  Exists(Aged, w) => /\ weapons[w] # NoEquipment
                                         /\ equipment'[weapons[w]].type = Aged.wep[w].type
                                         /\ equipment'[weapons[w]].owner = Aged.wep[w].owner
    BY <1>1 DEF EquipmentInv, Typed
  <2> QED BY <1>3, <1>4, <1>5, <1>7
<1>12. LogInv'
  <2>0. log' = << >> /\ shots' = << >>
    BY <1>1
  <2>1. log' = << >> /\ DOMAIN log' = {} /\ DOMAIN shots' = {}
    BY <2>0
  <2>2. log' \in Seq([t : {"WeaponFire", "ItemRefund"}, who : Players, wep : Weps, eq : Ids])
    BY <2>1
  <2> QED BY <2>1, <2>2 DEF LogInv
<1>13. RefundInv'
  <2>1. refund \in [Weps -> Refunds]
    BY DEF PossessionInv, RefundInv
  <2>2. NoRefund \in Refunds /\ NoRefund.watched = << >> /\ ~NoRefund.thisTick /\ ~NoRefund.increased
    BY DEF NoRefund, Refunds
  <2>3. ASSUME NEW w \in Weps
        PROVE  /\ refund'[w] \in Refunds /\ ~refund'[w].thisTick /\ ~refund'[w].increased
               /\ Exists(server, w) => /\ refund'[w].watched = refund[w].watched
                                       /\ refund'[w].oldOwnerMoney = refund[w].oldOwnerMoney
               /\ ~Exists(server, w) => refund'[w].watched = << >>
    <3>1. CASE Exists(server, w)
      <4> DEFINE r == [refund[w] EXCEPT !.thisTick = FALSE, !.increased = FALSE]
      <4>1. refund'[w] = r
        BY <1>1, <3>1
      <4>2. r \in Refunds /\ ~r.thisTick /\ ~r.increased /\ r.watched = refund[w].watched
            /\ r.oldOwnerMoney = refund[w].oldOwnerMoney
        BY <2>1 DEF Refunds
      <4> HIDE DEF r
      <4> QED BY <3>1, <4>1, <4>2
    <3>2. CASE ~Exists(server, w)
      <4>1. refund'[w] = NoRefund
        BY <1>1, <3>2
      <4> QED BY <2>2, <3>2, <4>1
    <3> QED BY <3>1, <3>2
  <2>4. refund' \in [Weps -> Refunds]
    <3>1. refund' = [w \in Weps |-> refund'[w]]
      BY <1>1
    <3> QED BY <2>3, <3>1
  <2>5. \A w \in Weps, p \in Players :
          Exists(server, w) /\ refund[w].watched = <<p>> => refund[w].oldOwnerMoney = server.money[p]
    BY DEF PossessionInv, RefundInv
  <2>6. server'.money = server.money /\ \A w \in Weps : Exists(server, w)' <=> Exists(server, w)
    BY <1>1, <1>3, <1>4 DEF Exists
  <2>7. \A w \in Weps : Exists(before, w)' <=> Exists(server, w)
    BY <1>1, <1>3 DEF Exists
  <2>8. ASSUME NEW w \in Weps, NEW p \in Players, refund'[w].watched = <<p>>
        PROVE  /\ Exists(server, w) /\ refund'[w].oldOwnerMoney = server.money[p]
               /\ Exists(server, w)' /\ Exists(before, w)'
    <3>1. <<p>> # << >>
      OBVIOUS
    <3>2. Exists(server, w)
      BY <2>3, <2>8, <3>1
    <3> QED BY <2>3, <2>5, <2>6, <2>7, <2>8, <3>2
  <2>9. ASSUME NEW w \in Weps, ~Exists(server, w)' PROVE refund'[w].watched = << >>
    BY <2>3, <2>6, <2>9
  <2>10. (\A w \in Weps, p \in Players :
            refund[w].watched = <<p>> =>
              /\ Exists(server, w) => refund[w].oldOwnerMoney = server.money[p]
              /\ Exists(before, w) /\ ~Exists(server, w) /\ w \in updates =>
                   (refund[w].thisTick /\ refund[w].increased <=> Gain(p))
              /\ Exists(before, w) /\ ~Exists(server, w) /\ w \notin updates /\ before.wep[w].owner = p =>
                   (Told("ItemRefund", w) # {} <=> p \in Zone /\ Gain(p)))'
    BY <2>6, <2>8
  <2>11. \A w \in Weps : /\ ~refund'[w].thisTick /\ ~refund'[w].increased
                         /\ ~Exists(server, w)' => refund'[w].watched = << >>
    BY <2>3, <2>9
  <2> QED BY <2>4, <2>10, <2>11 DEF RefundInv
<1> QED
  BY <1>8, <1>9, <1>10, <1>11, <1>12, <1>13 DEF PossessionInv

---------------------------------------------------------------------------
(* The theorems about Weapons                                              *)

(* Nobody has a weapon at first.                                           *)
LEMMA PossessionBegins == WeaponsInit => PossessionInv
<1> SUFFICES ASSUME WeaponsInit PROVE PossessionInv
  OBVIOUS
<1>1. /\ server = [wep   |-> [w \in Weps |-> NoWeapon], slots |-> [p \in Players |-> << >>],
                   money |-> [p \in Players |-> 1]]
      /\ before = server /\ shots = << >> /\ updates = {} /\ firsts = {} /\ inFrame = FALSE
      /\ weapons = [i \in Weps |-> NoEquipment]
      /\ equipment = [e \in Ids |-> NewEq(EqUnknown)]
      /\ inventory = [p \in Players |-> << >>]
      /\ refund = [w \in Weps |-> NoRefund]
      /\ log = << >>
  BY DEF WeaponsInit
<1>2. DOMAIN << >> = {} /\ << >> \in Seq(Handles) /\ Len(<< >>) = 0
  OBVIOUS
<1>3. /\ NoWeapon \in Weapon /\ NoWeapon.type = Nil /\ NoWeapon.owner = Nil /\ ~NoWeapon.new
      /\ Nil \notin Players
  BY WeaponsAssumption DEF NoWeapon, Weapon
<1>4. /\ server.wep = [w \in Weps |-> NoWeapon] /\ server.slots = [p \in Players |-> << >>]
      /\ server.money = [p \in Players |-> 1]
  BY <1>1
<1>5. /\ \A w \in Weps : /\ ~Exists(server, w) /\ server.wep[w].owner = Nil
                         /\ server.wep[w].type = Nil /\ ~server.wep[w].new
      /\ \A p \in Players : Owned(server, p) = {} /\ Handed(server, p) = {}
  BY <1>3, <1>4 DEF Exists, Owned, Handed
<1>6. server \in Servers /\ SlotsOK(server) /\ Old(server) /\ Moves(before, server)
  <2>1. server.wep \in [Weps -> Weapon] /\ server.slots \in [Players -> Seq(Handles)]
        /\ server.money \in [Players -> Nat]
    BY <1>2, <1>3, <1>4
  <2>2. server = [wep |-> server.wep, slots |-> server.slots, money |-> server.money]
    BY <1>1
  <2>3. server \in Servers
    BY <2>1, <2>2, MakesServer
  <2>4. ASSUME NEW p \in Players PROVE Lists(server.slots[p], Handed(server, p))
    BY <1>2, <1>4, <1>5 DEF Lists
  <2> QED BY <1>1, <1>5, <2>3, <2>4 DEF SlotsOK, Old, Moves
<1>7. State \in GameStates
  <2>1. NewEq(EqUnknown) \in Infos
    BY DEF NewEq, Infos
  <2>2. << >> \in Inventories
    <3>1. << >> \in [{} -> Ids]
      BY <1>2
    <3> QED BY <3>1 DEF Inventories
  <2>3. /\ weapons \in [Weps -> Ids \cup {NoEquipment}] /\ equipment \in [Ids -> Infos]
        /\ inventory \in [Players -> Inventories]
        /\ \A i \in Weps : weapons[i] = NoEquipment
        /\ \A p \in Players : DOMAIN inventory[p] = {}
    BY <1>1, <1>2, <2>1, <2>2
  <2> QED BY <2>3, MakesState DEF State
<1>8. ServerInv
  BY <1>1, <1>2, <1>6 DEF ServerInv
<1>9. InventoryInv /\ EquipmentInv
  <2>1. \A p \in Players : DOMAIN inventory[p] = {}
    BY <1>1, <1>2
  <2> QED BY <1>1, <1>5, <2>1 DEF InventoryInv, EquipmentInv, Typed
<1>10. LogInv
  BY <1>1, <1>2 DEF LogInv
<1>11. RefundInv
  <2>1. /\ NoRefund \in Refunds /\ NoRefund.watched = << >>
        /\ ~NoRefund.thisTick /\ ~NoRefund.increased
    BY DEF NoRefund, Refunds
  <2>2. \A p \in Players : <<p>> # << >>
    OBVIOUS
  <2> QED BY <1>1, <2>1, <2>2 DEF RefundInv
<1> QED
  BY <1>7, <1>8, <1>9, <1>10, <1>11 DEF PossessionInv

LEMMA PossessionStep == PossessionInv /\ [WeaponsNext]_weaponsVars => PossessionInv'
<1> SUFFICES ASSUME PossessionInv, [WeaponsNext]_weaponsVars PROVE PossessionInv'
  OBVIOUS
<1>1. ASSUME NEW new \in InOneFrame(server), NEW fired \in Shots(server), Frame(new, fired)
      PROVE  PossessionInv'
  BY <1>1, FrameBegins
<1>2. ASSUME NEW p \in Players, PawnComes(p) PROVE PossessionInv'
  BY <1>2, PawnKeeps
<1>3. ASSUME NEW w \in Weps, WeaponComes(w) PROVE PossessionInv'
  BY <1>3, WeaponKeeps
<1>4. ASSUME NEW w \in Weps, FirstValues(w) PROVE PossessionInv'
  BY <1>4, FirstKeeps
<1>5. CASE EndFrame
  BY <1>5, EndKeeps
<1>6. CASE UNCHANGED weaponsVars
  BY <1>6 DEF weaponsVars, PossessionInv, ServerInv, State, InventoryInv, EquipmentInv, LogInv, RefundInv,
              FireOf, RefundOf, Told, Typed, Settled, Gain, Created, Exists
<1> QED
  BY <1>1, <1>2, <1>3, <1>4, <1>5, <1>6 DEF WeaponsNext, Server

(* The invariant of every reachable state: what the parser keeps while the *)
(* updates of a frame come, in whichever order.                            *)
THEOREM PossessionInductive == WeaponsSpec => []PossessionInv
<1>1. WeaponsInit => PossessionInv
  BY PossessionBegins
<1>2. PossessionInv /\ [WeaponsNext]_weaponsVars => PossessionInv'
  BY PossessionStep
<1> QED
  BY <1>1, <1>2, PTL DEF WeaponsSpec

(* gameState.weapons, the Equipments, the inventories and the refund       *)
(* detections have their types.                                            *)
THEOREM PossessionTyped == WeaponsSpec => []WeaponsTypeOK
<1>1. PossessionInv => WeaponsTypeOK
  <2> SUFFICES ASSUME PossessionInv PROVE WeaponsTypeOK
    OBVIOUS
  <2>1. /\ weapons \in [Weps -> Ids \cup {NoEquipment}] /\ equipment \in [Ids -> Infos]
        /\ inventory \in [Players -> Inventories]
        /\ refund \in [Weps -> Refunds]
    BY StateIs DEF PossessionInv, RefundInv
  <2>2. \A p \in Players : inventory[p] \in [DOMAIN inventory[p] -> Ids]
                           /\ DOMAIN inventory[p] \subseteq Weps
    <3>1. \A f \in Inventories : f \in [DOMAIN f -> Ids] /\ DOMAIN f \subseteq Weps
      BY DEF Inventories
    <3> QED BY <2>1, <3>1
  <2>3. \A w \in Weps : refund[w].oldOwnerMoney \in Nat /\ refund[w].watched \in Seq(Players)
    BY <2>1 DEF Refunds
  <2> QED BY <2>1, <2>2, <2>3 DEF WeaponsTypeOK, Infos
<1> QED
  BY <1>1, PossessionInductive, PTL

(* When a frame has been read, each player has the Equipment of their      *)
(* weapons and of no other (bindPlayerWeapons, bindWeapon).                *)
THEOREM PossessionsFollow == WeaponsSpec => []PossessionFollows
<1>1. PossessionInv => PossessionFollows
  <2> SUFFICES ASSUME PossessionInv, FrameRead PROVE PossessionFollows
    BY DEF PossessionFollows
  <2>1. /\ \A p \in Players : DOMAIN inventory[p] = Owned(server, p)
        /\ \A w \in Weps : Exists(server, w) =>
             /\ weapons[w] # NoEquipment
             /\ equipment[weapons[w]].type = server.wep[w].type
             /\ equipment[weapons[w]].owner = server.wep[w].owner
             /\ server.wep[w].owner # Nil => inventory[server.wep[w].owner][w] = weapons[w]
    BY BetweenFrames DEF FrameRead
  <2>2. /\ equipment \in [Ids -> Infos]
        /\ \A w \in Weps : weapons[w] # NoEquipment => weapons[w] \in Ids
    BY StateIs DEF PossessionInv
  <2>3. \A e \in Ids : equipment[e] = [type |-> equipment[e].type, owner |-> equipment[e].owner]
    BY <2>2 DEF Infos
  <2>4. ASSUME NEW w \in Weps, Exists(server, w)
        PROVE  equipment[weapons[w]] = [type |-> server.wep[w].type, owner |-> server.wep[w].owner]
    BY <2>1, <2>2, <2>3, <2>4
  <2> QED BY <2>1, <2>4 DEF PossessionFollows, Owned
<1> QED
  BY <1>1, PossessionInductive, PTL

(* A shot is told of once, as fired by who has the weapon (bindWeapon's    *)
(* handler of m_fLastShotTime).                                            *)
THEOREM ShotsAreTold == WeaponsSpec => []ShotTold
<1>1. PossessionInv => ShotTold
  <2> SUFFICES ASSUME PossessionInv, FrameRead, NEW w \in Weps
               PROVE  /\ Told("WeaponFire", w) # {} => w \in DOMAIN shots
                      /\ \A i, j \in Told("WeaponFire", w) : i = j
                      /\ w \in DOMAIN shots /\ ~Created(w) /\ server.wep[w].owner = shots[w] =>
                           \E i \in Told("WeaponFire", w) :
                             log[i].who = shots[w] /\ log[i].eq = inventory[shots[w]][w]
    BY DEF ShotTold
  <2>1. Told("WeaponFire", w) # {} => w \in DOMAIN shots
    BY DEF Told, PossessionInv, LogInv, FireOf, RefundOf
  <2>2. \A i, j \in Told("WeaponFire", w) : i = j
    BY DEF Told, PossessionInv, LogInv
  <2>3. ASSUME w \in DOMAIN shots, ~Created(w), server.wep[w].owner = shots[w]
        PROVE  \E i \in Told("WeaponFire", w) :
                 log[i].who = shots[w] /\ log[i].eq = inventory[shots[w]][w]
    <3>1. updates = {}
      BY DEF FrameRead
    <3>2. PICK i \in DOMAIN log : /\ log[i].t = "WeaponFire" /\ log[i].wep = w
                                  /\ log[i].who = shots[w] /\ log[i].eq = weapons[w]
      BY <2>3, <3>1 DEF PossessionInv, LogInv
    <3>3. shots[w] # Nil /\ Exists(server, w)
      BY <2>3, OwnersAre DEF PossessionInv, ServerInv
    <3>4. inventory[shots[w]][w] = weapons[w]
      BY <2>3, <3>1, <3>3, BetweenFrames
    <3> QED BY <3>2, <3>4 DEF Told
  <2> QED BY <2>1, <2>2, <2>3
<1> QED
  BY <1>1, PossessionInductive, PTL

(* A refund is told of once, when and only when the money of the one owner *)
(* the weapon had went up in the frame that destroyed it (bindWeapon).     *)
THEOREM RefundsAreTold == WeaponsSpec => []RefundTold
<1>1. PossessionInv => RefundTold
  <2> SUFFICES ASSUME PossessionInv, FrameRead, NEW w \in Weps
               PROVE  LET told == Told("ItemRefund", w)
                          owner == before.wep[w].owner
                      IN  /\ \A i, j \in told : i = j
                          /\ \A i \in told : log[i].who = owner /\ owner \in Zone /\ ~Exists(server, w)
                          /\ refund[w].watched = <<owner>> /\ Exists(before, w) =>
                               (told # {} <=> Refund(w))
    BY DEF RefundTold
  <2> DEFINE owner == before.wep[w].owner
  <2>1. \A i, j \in Told("ItemRefund", w) : i = j
    BY DEF Told, PossessionInv, LogInv
  <2>2. \A i \in Told("ItemRefund", w) : log[i].who = owner /\ owner \in Zone /\ ~Exists(server, w)
    BY DEF Told, PossessionInv, LogInv, FireOf, RefundOf
  <2>3. ASSUME refund[w].watched = <<owner>>, Exists(before, w)
        PROVE  Told("ItemRefund", w) # {} <=> Refund(w)
    <3>1. owner \in Players
      <4>1. <<owner>> \in Seq(Players)
        <5>1. refund \in [Weps -> Refunds]
          BY DEF PossessionInv, RefundInv
        <5>2. refund[w].watched \in Seq(Players)
          BY <5>1 DEF Refunds
        <5> QED BY <2>3, <5>2
      <4> HIDE DEF owner
      <4>2. Len(<<owner>>) = 1 /\ <<owner>>[1] = owner
        OBVIOUS
      <4> QED BY <4>1, <4>2, ElementOfSeq
    <3>2. CASE Exists(server, w)
      BY <2>2, <3>2 DEF Refund
    <3>3. CASE ~Exists(server, w)
      <4>1. w \notin updates
        BY DEF FrameRead
      <4>2. Told("ItemRefund", w) # {} <=> owner \in Zone /\ Gain(owner)
        BY <2>3, <3>1, <3>3, <4>1 DEF PossessionInv, RefundInv
      <4> QED BY <3>3, <4>2 DEF Refund, Gain
    <3> QED BY <3>2, <3>3
  <2> QED BY <2>1, <2>2, <2>3
<1> QED
  BY <1>1, PossessionInductive, PTL

---------------------------------------------------------------------------
(* The entity table                                                        *)
USE EntityAssumption

Entities == [index : Index, class : Class, active : BOOLEAN, state : Values,
             var : Values, finished : BOOLEAN, destroyed : Nat]

Tuples == [obj : Nat, op : Ops]

(* The types, without the bounds of the counters.                          *)
TableTypes ==
  /\ table \in [Index -> Nat] /\ game \in [Index -> Nat]
  /\ heap \in Seq(Entities)
  /\ baseline \in [Class -> Values]
  /\ fullPackets \in {0, 1} /\ pc \in {"idle", "decode", "send"}
  /\ index \in Index \cup {-1}
  /\ tuples \in Seq(Tuples)
  /\ cut \in BOOLEAN /\ unreported \in BOOLEAN
  /\ lost \subseteq Index /\ stale \subseteq Nat \X Prop

(* Each entry of the table is an entity of its index.                      *)
TableOK == \A i \in Index : table[i] # None => table[i] \in Objects /\ heap[table[i]].index = i

(* A tuple's entity is the one at its index, no two tuples have the same   *)
(* index, and its operation tells whether the entity has been destroyed.   *)
TuplesOK ==
  /\ \A k \in DOMAIN tuples :
       LET o == tuples[k].obj
       IN  /\ o \in Objects /\ table[heap[o].index] = o
           /\ heap[o].index <= index
           /\ tuples[k].op = "created" => heap[o].destroyed = 0
           /\ tuples[k].op = "deleted" => heap[o].destroyed > 0
  /\ \A k, l \in DOMAIN tuples : k < l => heap[tuples[k].obj].index < heap[tuples[l].obj].index
  /\ pc = "idle" => tuples = << >>

(* The game state's entries are entities.                                  *)
GameOK == \A i \in Index : game[i] \in Objects \cup {None}

(* Only a cut packet leaves anything behind.                               *)
CleanOK == ~cut => lost = {} /\ stale = {} /\ \A o \in Objects : heap[o].finished

-------------------------------------------------------------------------------
(* What the operations do to the heap.                                     *)

(* Fields read over a state.                                               *)
LEMMA OverlayType ==
  ASSUME NEW state \in Values, NEW ch \in Changes
  PROVE  /\ Overlay(state, ch) \in Values
         /\ DOMAIN ch \subseteq Prop
         /\ \A q \in DOMAIN ch : Overlay(state, ch)[q] = ch[q] /\ ch[q] \in Value
         /\ \A q \in Prop \ DOMAIN ch : Overlay(state, ch)[q] = state[q]
<1>1. PICK P \in SUBSET Prop : ch \in [P -> Value]
  BY DEF Changes
<1> QED
  BY <1>1 DEF Overlay, Values

(* The types of an entity's parts.                                         *)
LEMMA EntityFields ==
  ASSUME TableTypes, NEW o \in Objects
  PROVE  /\ heap[o] \in Entities /\ o \in Nat \ {0}
         /\ heap[o].index \in Index /\ heap[o].class \in Class /\ heap[o].state \in Values
         /\ heap[o].var \in Values /\ heap[o].destroyed \in Nat /\ heap[o].finished \in BOOLEAN
<1>1. heap \in Seq(Entities) /\ Len(heap) \in Nat /\ o \in 1 .. Len(heap)
  BY DEF TableTypes, Objects
<1>2. heap[o] \in Entities
  BY <1>1, ElementOfSeq
<1> QED
  BY <1>1, <1>2 DEF Entities

(* An entity is replaced in the heap by a value.                           *)
LEMMA SetEntity ==
  ASSUME TableTypes, NEW o \in Objects, NEW e \in Entities, heap' = [heap EXCEPT ![o] = e]
  PROVE  /\ heap' \in Seq(Entities) /\ Objects' = Objects
         /\ heap'[o] = e
         /\ \A p \in Objects : p # o => heap'[p] = heap[p]
<1>1. heap \in Seq(Entities) /\ Len(heap) \in Nat /\ o \in 1 .. Len(heap)
  BY DEF TableTypes, Objects
<1>2. /\ heap' \in Seq(Entities) /\ Len(heap') = Len(heap)
      /\ \A p \in 1 .. Len(heap) : heap'[p] = IF p = o THEN e ELSE heap[p]
  BY <1>1, ExceptSeq
<1> QED
  BY <1>1, <1>2 DEF Objects

(* A new entity goes to the end of the heap and into the table.            *)
LEMMA StoreEffect ==
  ASSUME TableTypes, NEW i \in Index, NEW c \in Class, NEW ch \in Changes, NEW fin \in BOOLEAN,
         Store(i, c, ch, fin)
  PROVE  LET new == Len(heap) + 1
         IN  /\ heap' \in Seq(Entities) /\ Objects' = Objects \cup {new}
             /\ new \notin Objects /\ new \in Nat \ {0}
             /\ \A o \in Objects : heap'[o] = heap[o]
             /\ heap'[new].index = i /\ heap'[new].class = c
             /\ heap'[new].finished = fin /\ heap'[new].destroyed = 0
             /\ table' = [table EXCEPT ![i] = new]
             /\ table' \in [Index -> Nat]
<1> DEFINE e == [NewObject(i, c, Overlay(baseline[c], ch)) EXCEPT !.finished = fin]
<1>1. Overlay(baseline[c], ch) \in Values /\ [q \in Prop |-> NoValue] \in Values
  BY OverlayType DEF TableTypes, Values
<1>2. e \in Entities /\ e.index = i /\ e.class = c /\ e.finished = fin /\ e.destroyed = 0
  BY <1>1 DEF NewObject, Entities
<1>3. heap \in Seq(Entities) /\ Len(heap) \in Nat /\ heap' = Append(heap, e)
  BY DEF TableTypes, Store
<1>4. /\ heap' \in Seq(Entities) /\ Len(heap') = Len(heap) + 1
      /\ \A o \in 1 .. Len(heap) : heap'[o] = heap[o]
      /\ heap'[Len(heap) + 1] = e
  BY <1>2, <1>3, AppendProperties
<1>5. table' = [table EXCEPT ![i] = Len(heap) + 1] /\ table \in [Index -> Nat]
  BY DEF Store, TableTypes
<1> QED
  BY <1>2, <1>3, <1>4, <1>5 DEF Objects

(* Reading fields changes the state, and the variables that are told.      *)
LEMMA ReadFieldsEffect ==
  ASSUME TableTypes, NEW o \in Objects, NEW ch \in Changes, NEW told \in SUBSET DOMAIN ch,
         ReadFields(o, ch, told)
  PROVE  /\ heap' \in Seq(Entities) /\ Objects' = Objects
         /\ \A p \in Objects : p # o => heap'[p] = heap[p]
         /\ heap'[o].index = heap[o].index /\ heap'[o].class = heap[o].class
         /\ heap'[o].finished = heap[o].finished /\ heap'[o].destroyed = heap[o].destroyed
         /\ heap'[o].state = Overlay(heap[o].state, ch)
         /\ \A q \in Prop : heap'[o].var[q] = IF q \in told THEN ch[q] ELSE heap[o].var[q]
<1> DEFINE v == [q \in Prop |-> IF q \in told THEN ch[q] ELSE heap[o].var[q]]
           e == [heap[o] EXCEPT !.active = TRUE, !.state = Overlay(heap[o].state, ch), !.var = v]
<1>1. heap[o] \in Entities /\ heap[o].state \in Values /\ heap[o].var \in Values
  BY EntityFields
<1>2. Overlay(heap[o].state, ch) \in Values /\ v \in Values
  BY <1>1, OverlayType DEF Values
<1>3. e \in Entities
  BY <1>1, <1>2 DEF Entities
<1>4. heap' = [heap EXCEPT ![o] = e]
  BY DEF ReadFields
<1>5. /\ heap' \in Seq(Entities) /\ Objects' = Objects /\ heap'[o] = e
      /\ \A p \in Objects : p # o => heap'[p] = heap[p]
  BY <1>3, <1>4, SetEntity
<1>6. /\ e.index = heap[o].index /\ e.class = heap[o].class /\ e.finished = heap[o].finished
      /\ e.destroyed = heap[o].destroyed /\ e.state = Overlay(heap[o].state, ch) /\ e.var = v
  BY <1>1 DEF Entities
<1> HIDE DEF e
<1> QED
  BY <1>5, <1>6

(* Destroying an entity marks it, and nothing else.                        *)
LEMMA DestroyEffect ==
  ASSUME TableTypes, NEW o \in Objects, Destroy(o)
  PROVE  /\ heap' \in Seq(Entities) /\ Objects' = Objects
         /\ \A p \in Objects : p # o => heap'[p] = heap[p]
         /\ heap'[o].index = heap[o].index /\ heap'[o].class = heap[o].class
         /\ heap'[o].finished = heap[o].finished /\ heap'[o].destroyed > 0
         /\ heap'[o].state = heap[o].state /\ heap'[o].var = heap[o].var
<1> DEFINE e == [heap[o] EXCEPT !.active = FALSE, !.destroyed = heap[o].destroyed + 1]
<1>1. heap[o] \in Entities /\ heap[o].destroyed \in Nat
  BY EntityFields
<1>2. heap[o].destroyed + 1 \in Nat
  BY <1>1
<1>3. e \in Entities
  BY <1>1, <1>2 DEF Entities
<1>4. heap' = [heap EXCEPT ![o] = e]
  BY DEF Destroy
<1>5. /\ heap' \in Seq(Entities) /\ Objects' = Objects /\ heap'[o] = e
      /\ \A p \in Objects : p # o => heap'[p] = heap[p]
  BY <1>3, <1>4, SetEntity
<1>6. /\ e.index = heap[o].index /\ e.class = heap[o].class /\ e.finished = heap[o].finished
      /\ e.destroyed > 0 /\ e.state = heap[o].state /\ e.var = heap[o].var
  BY <1>1 DEF Entities
<1> HIDE DEF e
<1> QED
  BY <1>5, <1>6

(* Telling an entity's handlers sets their variables to the state.         *)
LEMMA TellEffect ==
  ASSUME TableTypes, NEW o \in Objects, NEW told \in SUBSET Prop, Tell(o, told)
  PROVE  /\ heap' \in Seq(Entities) /\ Objects' = Objects
         /\ \A p \in Objects : p # o => heap'[p] = heap[p]
         /\ heap'[o].index = heap[o].index /\ heap'[o].class = heap[o].class
         /\ heap'[o].finished = heap[o].finished /\ heap'[o].destroyed = heap[o].destroyed
         /\ heap'[o].state = heap[o].state
         /\ \A q \in Prop : heap'[o].var[q] = IF q \in told THEN heap[o].state[q] ELSE heap[o].var[q]
<1> DEFINE v == [q \in Prop |-> IF q \in told THEN heap[o].state[q] ELSE heap[o].var[q]]
           e == [heap[o] EXCEPT !.var = v]
<1>1. heap[o] \in Entities /\ heap[o].state \in Values /\ heap[o].var \in Values
  BY EntityFields
<1>2. v \in Values
  BY <1>1 DEF Values
<1>3. e \in Entities
  BY <1>1, <1>2 DEF Entities
<1>4. heap' = [heap EXCEPT ![o] = e]
  BY DEF Tell
<1>5. /\ heap' \in Seq(Entities) /\ Objects' = Objects /\ heap'[o] = e
      /\ \A p \in Objects : p # o => heap'[p] = heap[p]
  BY <1>3, <1>4, SetEntity
<1>6. /\ e.index = heap[o].index /\ e.class = heap[o].class /\ e.finished = heap[o].finished
      /\ e.destroyed = heap[o].destroyed /\ e.state = heap[o].state /\ e.var = v
  BY <1>1 DEF Entities
<1> HIDE DEF e
<1> QED
  BY <1>5, <1>6

-------------------------------------------------------------------------------
(* What happens to the tuples.                                             *)

(* The types of a tuple and of its entity.                                 *)
LEMMA TupleType ==
  ASSUME TableTypes, TuplesOK, NEW k \in DOMAIN tuples
  PROVE  /\ tuples[k] \in Tuples /\ tuples[k].obj \in Objects /\ tuples[k].op \in Ops
         /\ heap[tuples[k].obj].index \in Index /\ heap[tuples[k].obj].index <= index
         /\ tuples[k].obj \in Nat
<1>1. tuples \in Seq(Tuples) /\ DOMAIN tuples = 1 .. Len(tuples)
  BY DEF TableTypes
<1>2. tuples[k] \in Tuples
  BY <1>1, ElementOfSeq
<1>3. tuples[k].obj \in Objects /\ heap[tuples[k].obj].index <= index
  BY DEF TuplesOK
<1> QED
  BY <1>2, <1>3, EntityFields DEF Tuples

(* The types of what tuples still have to bring up to date.                *)
LEMMA PendingTypes ==
  ASSUME TableTypes, TuplesOK
  PROVE  IndicesOf(tuples) \subseteq Index /\ BindingsOf(tuples) \subseteq Nat \X Prop
BY TupleType DEF IndicesOf, BindingsOf, Renews

(* Taking the first tuple.                                                 *)
LEMMA TakeTuple ==
  ASSUME TableTypes, TuplesOK, tuples # << >>
  PROVE  /\ Tail(tuples) \in Seq(Tuples)
         /\ 1 \in DOMAIN tuples /\ Head(tuples) = tuples[1]
         /\ \A k \in DOMAIN Tail(tuples) :
              k \in Nat /\ k + 1 \in DOMAIN tuples /\ Tail(tuples)[k] = tuples[k + 1]
         /\ \A k \in DOMAIN tuples : k = 1 \/ k - 1 \in DOMAIN Tail(tuples)
         /\ Head(tuples) \in Tuples /\ Head(tuples).obj \in Objects
<1>1. tuples \in Seq(Tuples) /\ Len(tuples) \in Nat /\ DOMAIN tuples = 1 .. Len(tuples)
  BY DEF TableTypes
<1>2. /\ Tail(tuples) \in Seq(Tuples) /\ Len(Tail(tuples)) = Len(tuples) - 1
      /\ \A k \in 1 .. Len(Tail(tuples)) : Tail(tuples)[k] = tuples[k + 1]
      /\ Head(tuples) \in Tuples
  BY <1>1, HeadTailProperties
<1>3. Len(tuples) > 0 /\ Head(tuples) = tuples[1]
  BY <1>1, EmptySeq
<1>4. DOMAIN Tail(tuples) = 1 .. Len(tuples) - 1
  BY <1>2
<1>5. tuples[1].obj \in Objects
  BY <1>1, <1>3, TupleType
<1> QED
  BY <1>1, <1>2, <1>3, <1>4, <1>5

(* Adding a tuple at the end.                                              *)
LEMMA AddTuple ==
  ASSUME TableTypes, NEW o \in Nat, NEW op \in Ops, Done(o, op)
  PROVE  /\ tuples' \in Seq(Tuples)
         /\ DOMAIN tuples' = DOMAIN tuples \cup {Len(tuples) + 1}
         /\ DOMAIN tuples = 1 .. Len(tuples) /\ Len(tuples) \in Nat
         /\ \A k \in DOMAIN tuples : tuples'[k] = tuples[k]
         /\ tuples'[Len(tuples) + 1] = [obj |-> o, op |-> op]
<1> DEFINE t == [obj |-> o, op |-> op]
<1>1. tuples \in Seq(Tuples) /\ Len(tuples) \in Nat /\ DOMAIN tuples = 1 .. Len(tuples)
  BY DEF TableTypes
<1>2. t \in Tuples /\ tuples' = Append(tuples, t)
  BY DEF Done, Tuples
<1>3. /\ tuples' \in Seq(Tuples) /\ Len(tuples') = Len(tuples) + 1
      /\ \A k \in 1 .. Len(tuples) : tuples'[k] = tuples[k]
      /\ tuples'[Len(tuples) + 1] = t
  BY <1>1, <1>2, AppendProperties
<1>4. DOMAIN tuples' = 1 .. Len(tuples) + 1
  BY <1>3
<1> HIDE DEF t
<1>5. DOMAIN tuples' = DOMAIN tuples \cup {Len(tuples) + 1}
  BY <1>1, <1>4
<1> QED
  BY <1>1, <1>3, <1>5 DEF t

(* A step of decoding at index i leaves alone the entities of other        *)
(* indices, and of those at i what makes them what they are.               *)
Local(i) ==
  /\ heap' \in Seq(Entities) /\ Objects \subseteq Objects'
  /\ table' \in [Index -> Nat]
  /\ \A p \in Objects :
       /\ heap[p].index # i => heap'[p] = heap[p]
       /\ heap'[p].index = heap[p].index /\ heap'[p].class = heap[p].class
       /\ heap'[p].finished = heap[p].finished
  /\ \A j \in Index \ {i} : table'[j] = table[j]

Invariants == TableTypes /\ TableOK /\ TuplesOK /\ GameOK /\ CleanOK /\ TablesAgree /\ BoundValuesFollow

(* Decoding at i appends a tuple of the entity there.                      *)
LEMMA DecodedTuple ==
  ASSUME TableTypes, TableOK, TuplesOK, NEW i \in Index, NEW o \in Nat, NEW op \in Ops,
         Decodes(i), Done(o, op), Local(i), o \in Objects',
         heap'[o].index = i, table'[i] = o,
         op = "created" => heap'[o].destroyed = 0,
         op = "deleted" => heap'[o].destroyed > 0
  PROVE  /\ TuplesOK'
         /\ IndicesOf(tuples) \subseteq IndicesOf(tuples)'
         /\ op \in {"created", "deleted"} => i \in IndicesOf(tuples)'
         /\ BindingsOf(tuples) \subseteq BindingsOf(tuples)'
         /\ op = "created" => \A q \in Prop : <<o, q>> \in BindingsOf(tuples)'
<1> DEFINE n == Len(tuples)
<1>1. /\ DOMAIN tuples' = DOMAIN tuples \cup {n + 1} /\ DOMAIN tuples = 1 .. n /\ n \in Nat
      /\ \A k \in DOMAIN tuples : tuples'[k] = tuples[k]
      /\ tuples'[n + 1] = [obj |-> o, op |-> op]
  BY AddTuple
<1>2. index \in Int /\ i \in Nat /\ i > index /\ index' = i /\ pc = "decode" /\ pc' = pc
  BY DEF Decodes, Done, TableTypes
<1>3. ASSUME NEW k \in DOMAIN tuples
      PROVE  /\ tuples[k].obj \in Objects /\ tuples[k].obj \in Objects'
             /\ heap'[tuples[k].obj] = heap[tuples[k].obj]
             /\ heap[tuples[k].obj].index \in Nat /\ heap[tuples[k].obj].index < i
             /\ table'[heap[tuples[k].obj].index] = table[heap[tuples[k].obj].index]
  <2>1. /\ tuples[k].obj \in Objects /\ heap[tuples[k].obj].index \in Index
        /\ heap[tuples[k].obj].index <= index
    BY TupleType
  <2> DEFINE x == heap[tuples[k].obj].index
  <2>2. x \in Nat
    BY <2>1
  <2>3. x <= index
    BY <2>1
  <2> HIDE DEF x
  <2>4. x < i /\ x # i
    BY <2>2, <2>3, <1>2
  <2>5. x < i /\ x # i /\ x \in Nat /\ x \in Index \ {i}
    BY <2>1, <2>2, <2>4 DEF x
  <2> USE DEF x
  <2>6. heap'[tuples[k].obj] = heap[tuples[k].obj] /\ table'[x] = table[x]
    BY <2>1, <2>5 DEF Local
  <2>7. tuples[k].obj \in Objects'
    BY <2>1 DEF Local
  <2> QED
    BY <2>1, <2>5, <2>6, <2>7
<1> HIDE DEF n
<1>4. ASSUME NEW k \in DOMAIN tuples'
      PROVE  LET p == tuples'[k].obj
             IN  /\ p \in Objects' /\ table'[heap'[p].index] = p
                 /\ heap'[p].index <= index'
                 /\ tuples'[k].op = "created" => heap'[p].destroyed = 0
                 /\ tuples'[k].op = "deleted" => heap'[p].destroyed > 0
  <2>1. CASE k \in DOMAIN tuples
    <3>1. tuples'[k] = tuples[k]
      BY <2>1, <1>1
    <3>2. LET p == tuples[k].obj
          IN  /\ table[heap[p].index] = p
              /\ tuples[k].op = "created" => heap[p].destroyed = 0
              /\ tuples[k].op = "deleted" => heap[p].destroyed > 0
      BY <2>1 DEF TuplesOK
    <3> QED
      BY <2>1, <3>1, <3>2, <1>2, <1>3
  <2>2. CASE k = n + 1
    BY <2>2, <1>1, <1>2
  <2> QED
    BY <2>1, <2>2, <1>1
<1>5. ASSUME NEW k \in DOMAIN tuples', NEW l \in DOMAIN tuples', k < l
      PROVE  heap'[tuples'[k].obj].index < heap'[tuples'[l].obj].index
  <2>1. k \in DOMAIN tuples /\ tuples'[k] = tuples[k]
    BY <1>1, <1>5
  <2>2. heap'[tuples[k].obj] = heap[tuples[k].obj] /\ heap[tuples[k].obj].index < i
    BY <2>1, <1>3
  <2>3. CASE l = n + 1
    BY <2>1, <2>2, <2>3, <1>1
  <2>4. CASE l \in DOMAIN tuples
    <3>1. tuples'[l] = tuples[l] /\ heap'[tuples[l].obj] = heap[tuples[l].obj]
      BY <2>4, <1>1, <1>3
    <3>2. heap[tuples[k].obj].index < heap[tuples[l].obj].index
      BY <2>1, <2>4, <1>5 DEF TuplesOK
    <3> QED
      BY <2>1, <2>2, <3>1, <3>2
  <2> QED
    BY <2>3, <2>4, <1>1
<1>6. TuplesOK'
  BY <1>2, <1>4, <1>5 DEF TuplesOK
<1>7. IndicesOf(tuples) \subseteq IndicesOf(tuples)'
  <2>1. \A k \in DOMAIN tuples : Renews(tuples[k]) = Renews(tuples[k])'
    BY <1>1, <1>3 DEF Renews
  <2> QED
    BY <2>1, <1>1 DEF IndicesOf
<1>8. op \in {"created", "deleted"} => i \in IndicesOf(tuples)'
  BY <1>1 DEF IndicesOf, Renews
<1>9. BindingsOf(tuples) \subseteq BindingsOf(tuples)'
  BY <1>1 DEF BindingsOf
<1>10. op = "created" => \A q \in Prop : <<o, q>> \in BindingsOf(tuples)'
  BY <1>1 DEF BindingsOf
<1> QED
  BY <1>6, <1>7, <1>8, <1>9, <1>10

(* A panic while decoding at i.                                            *)
LEMMA CutDecodes ==
  ASSUME TableTypes, TuplesOK, NEW i \in Index, NEW missed \in SUBSET Index,
         NEW more \in SUBSET (Nat \X Prop), Decodes(i), CutDecoding(missed, more),
         Local(i)
  PROVE  /\ TuplesOK' /\ cut' = TRUE
         /\ tuples' \in Seq(Tuples) /\ pc' = "idle" /\ unreported' \in BOOLEAN
         /\ lost' \subseteq Index /\ lost \cup IndicesOf(tuples) \cup missed \subseteq lost'
         /\ stale' \subseteq Nat \X Prop
         /\ stale' = stale \cup BindingsOf(tuples) \cup more
<1>1. /\ IndicesOf(tuples) \subseteq Index /\ BindingsOf(tuples) \subseteq Nat \X Prop
  BY PendingTypes
<1>2. /\ pc' = "idle" /\ tuples' = << >> /\ cut' = TRUE /\ unreported' = (unreported \/ IgnorePanic)
      /\ lost' = lost \cup missed \cup IndicesOf(tuples)
      /\ stale' = stale \cup BindingsOf(tuples) \cup more
  BY DEF CutDecoding, Cut
<1>3. TuplesOK'
  BY <1>2 DEF TuplesOK
<1>4. tuples' \in Seq(Tuples)
  BY <1>2
<1> QED
  BY <1>1, <1>2, <1>3, <1>4 DEF TableTypes

-------------------------------------------------------------------------------
(* What a step of decoding at i keeps, if it is local.                     *)

(* Both tables still hold entities.                                        *)
LEMMA TableKept ==
  ASSUME TableTypes, TableOK, GameOK, NEW i \in Index, Local(i), game' = game,
         table'[i] # None => table'[i] \in Objects' /\ heap'[table'[i]].index = i
  PROVE  TableOK' /\ GameOK'
<1>1. ASSUME NEW j \in Index, j # i, table'[j] # None
      PROVE  table'[j] \in Objects' /\ heap'[table'[j]].index = j
  <2>1. table'[j] = table[j]
    BY <1>1 DEF Local
  <2>2. table[j] \in Objects /\ heap[table[j]].index = j
    BY <1>1, <2>1 DEF TableOK
  <2> QED
    BY <2>1, <2>2 DEF Local
<1>2. TableOK'
  BY <1>1 DEF TableOK
<1>3. GameOK'
  BY DEF GameOK, Local
<1> QED
  BY <1>2, <1>3

(* The tables agree still: what is at i is pending, lost or as it was.     *)
LEMMA AgreementKept ==
  ASSUME TableTypes, TableOK, TablesAgree, NEW i \in Index, Local(i), game' = game,
         lost \cup IndicesOf(tuples) \subseteq lost' \cup IndicesOf(tuples)',
         \/ i \in lost' \cup IndicesOf(tuples)'
         \/ /\ table'[i] = table[i]
            /\ table[i] # None => heap'[table[i]].destroyed = heap[table[i]].destroyed
  PROVE  TablesAgree'
<1> SUFFICES ASSUME NEW j \in Index, j \notin lost' \cup IndicesOf(tuples)'
             PROVE  game'[j] = Current(j)'
  BY DEF TablesAgree
<1>1. game[j] = Current(j)
  BY DEF TablesAgree
<1>2. table'[j] = table[j]
  BY DEF Local
<1>3. table[j] # None => heap'[table[j]].destroyed = heap[table[j]].destroyed
  <2>1. CASE j = i
    BY <2>1
  <2>2. CASE j # i
    BY <2>2, ZenonT(40) DEF TableOK, Local
  <2> QED
    BY <2>1, <2>2
<1> QED
  BY <1>1, <1>2, <1>3 DEF Current

(* Only properties are bound.                                              *)
LEMMA BoundType ==
  ASSUME TableTypes, NEW o \in Objects
  PROVE  BoundOf(o) \subseteq Prop
BY EntityFields DEF BoundOf

(* Values and variables keep, except for new entities, which are pending.  *)
LEMMA ValuesKept ==
  ASSUME TableTypes, TableTypes', BoundValuesFollow,
         \A p \in Objects :
           /\ heap'[p].class = heap[p].class /\ heap'[p].finished = heap[p].finished
           /\ heap'[p].state = heap[p].state /\ heap'[p].var = heap[p].var,
         \A p \in Objects' \ Objects : \A q \in Prop :
           <<p, q>> \in stale' \cup BindingsOf(tuples)',
         stale \cup BindingsOf(tuples) \subseteq stale' \cup BindingsOf(tuples)'
  PROVE  BoundValuesFollow'
<1> SUFFICES ASSUME NEW o \in Objects', NEW q \in BoundOf(o)',
                    <<o, q>> \notin stale' \cup BindingsOf(tuples)'
             PROVE  heap'[o].var[q] = heap'[o].state[q]
  BY DEF BoundValuesFollow
<1>1. q \in Prop
  <2>1. heap'[o].class \in Class
    <3>1. heap' \in Seq(Entities) /\ Len(heap') \in Nat /\ o \in 1 .. Len(heap')
      BY DEF TableTypes, Objects
    <3>2. heap'[o] \in Entities
      BY <3>1, ElementOfSeq
    <3> QED
      BY <3>2 DEF Entities
  <2> QED
    BY <2>1 DEF BoundOf
<1>2. o \in Objects
  BY <1>1
<1>3. BoundOf(o)' = BoundOf(o)
  BY <1>2 DEF BoundOf
<1>4. heap[o].var[q] = heap[o].state[q]
  BY <1>2, <1>3 DEF BoundValuesFollow
<1> QED
  BY <1>2, <1>4

-------------------------------------------------------------------------------
(* The steps of decoding.                                                  *)

(* Creation: the new entity is pending in both respects.                   *)
LEMMA CreateKeeps ==
  ASSUME Invariants, NEW i \in Index, NEW c \in Class, NEW ch \in Changes, Create(i, c, ch)
  PROVE  Invariants'
<1> DEFINE new == Len(heap) + 1
<1> USE DEF Invariants
<1>1. /\ heap' \in Seq(Entities) /\ Objects' = Objects \cup {new}
      /\ new \notin Objects /\ new \in Nat \ {0}
      /\ \A o \in Objects : heap'[o] = heap[o]
      /\ heap'[new].index = i /\ heap'[new].finished = TRUE /\ heap'[new].destroyed = 0
      /\ table' = [table EXCEPT ![i] = new] /\ table' \in [Index -> Nat]
  BY StoreEffect DEF Create
<1> HIDE DEF new
<1>2. Local(i)
  BY <1>1 DEF Local, TableTypes
<1>3. Decodes(i) /\ Done(new, "created") /\ UNCHANGED stale /\ table'[i] = new
  BY <1>1 DEF Create, new, TableTypes
<1>4. "created" \in Ops
  BY DEF Ops
<1>5. /\ TuplesOK' /\ IndicesOf(tuples) \subseteq IndicesOf(tuples)' /\ i \in IndicesOf(tuples)'
      /\ BindingsOf(tuples) \subseteq BindingsOf(tuples)'
      /\ \A q \in Prop : <<new, q>> \in BindingsOf(tuples)'
  BY <1>1, <1>2, <1>3, <1>4, DecodedTuple
<1>6. TableTypes'
  BY <1>1, <1>3, <1>4, AddTuple DEF TableTypes, Decodes, Done
<1>7. game' = game /\ lost' = lost /\ cut' = cut
  BY <1>3 DEF Decodes, Done
<1>8. TableOK' /\ GameOK'
  BY <1>1, <1>2, <1>3, <1>7, TableKept
<1>9. TablesAgree'
  BY <1>2, <1>5, <1>7, AgreementKept
<1>10. CleanOK'
  BY <1>1, <1>3, <1>7 DEF CleanOK
<1>11. BoundValuesFollow'
  BY <1>1, <1>3, <1>5, <1>6, ValuesKept
<1> QED
  BY <1>5, <1>6, <1>8, <1>9, <1>10, <1>11

(* A created handler panics: the new entity is lost and its bindings are stale. *)
LEMMA CreateRaisesKeeps ==
  ASSUME Invariants, NEW i \in Index, NEW c \in Class, NEW ch \in Changes, CreateRaises(i, c, ch)
  PROVE  Invariants'
<1> DEFINE new == Len(heap) + 1
<1> USE DEF Invariants
<1>1. /\ heap' \in Seq(Entities) /\ Objects' = Objects \cup {new}
      /\ new \notin Objects /\ new \in Nat \ {0}
      /\ \A o \in Objects : heap'[o] = heap[o]
      /\ heap'[new].index = i
      /\ table' = [table EXCEPT ![i] = new] /\ table' \in [Index -> Nat]
  BY StoreEffect DEF CreateRaises
<1>2. Decodes(i) /\ CutDecoding({i}, {new} \X Prop)
  BY DEF CreateRaises
<1> HIDE DEF new
<1>3. Local(i) /\ table'[i] = new
  BY <1>1 DEF Local, TableTypes
<1> DEFINE more == {new} \X Prop
<1>4. more \in SUBSET (Nat \X Prop) /\ {i} \in SUBSET Index /\ CutDecoding({i}, more)
      /\ \A q \in Prop : <<new, q>> \in more
  BY <1>1, <1>2
<1> HIDE DEF more
<1>5. /\ TuplesOK' /\ cut' = TRUE
      /\ tuples' \in Seq(Tuples) /\ pc' = "idle" /\ unreported' \in BOOLEAN
      /\ lost' \subseteq Index /\ lost \cup IndicesOf(tuples) \cup {i} \subseteq lost'
      /\ stale' \subseteq Nat \X Prop
      /\ stale' = stale \cup BindingsOf(tuples) \cup more
  BY <1>2, <1>3, <1>4, CutDecodes
<1>6. TableTypes'
  BY <1>1, <1>2, <1>5 DEF TableTypes, Decodes
<1>7. game' = game
  BY <1>2 DEF Decodes
<1>8. TableOK' /\ GameOK'
  BY <1>1, <1>3, <1>7, TableKept
<1>9. TablesAgree'
  BY <1>3, <1>5, <1>7, AgreementKept
<1>10. CleanOK'
  BY <1>5 DEF CleanOK
<1>11. BoundValuesFollow'
  BY <1>1, <1>4, <1>5, <1>6, ValuesKept
<1> QED
  BY <1>5, <1>6, <1>8, <1>9, <1>10, <1>11

(* Deletion of an active entity, with and without a panic of a delegate.   *)
LEMMA DeleteKeeps ==
  ASSUME Invariants, NEW i \in Index, Delete(i), heap[table[i]].active
  PROVE  Invariants'
<1> DEFINE o == table[i]
<1> USE DEF Invariants
<1>1. o \in Objects /\ heap[o].index = i /\ o \in Nat
  BY DEF Delete, TableOK, TableTypes
<1>2. Decodes(i) /\ Destroy(o) /\ UNCHANGED table
  BY DEF Delete
<1>3. /\ heap' \in Seq(Entities) /\ Objects' = Objects
      /\ \A p \in Objects : p # o => heap'[p] = heap[p]
      /\ heap'[o].index = heap[o].index /\ heap'[o].class = heap[o].class
      /\ heap'[o].finished = heap[o].finished /\ heap'[o].destroyed > 0
      /\ heap'[o].state = heap[o].state /\ heap'[o].var = heap[o].var
  BY <1>1, <1>2, DestroyEffect
<1>4. Local(i)
  BY <1>1, <1>2, <1>3 DEF Local, TableTypes
<1>5. game' = game
  BY <1>2 DEF Decodes
<1>6. TableOK' /\ GameOK'
  BY <1>1, <1>2, <1>3, <1>4, <1>5, TableKept
<1>7. CASE Done(o, "deleted") /\ UNCHANGED stale
  <2>1. "deleted" \in Ops
    BY DEF Ops
  <2>2. /\ TuplesOK' /\ IndicesOf(tuples) \subseteq IndicesOf(tuples)' /\ i \in IndicesOf(tuples)'
        /\ BindingsOf(tuples) \subseteq BindingsOf(tuples)'
    BY <1>1, <1>2, <1>3, <1>4, <1>7, <2>1, DecodedTuple
  <2>3. TableTypes'
    BY <1>1, <1>2, <1>3, <1>7, <2>1, AddTuple DEF TableTypes, Decodes, Done
  <2>4. lost' = lost /\ cut' = cut
    BY <1>7 DEF Done
  <2>5. TablesAgree'
    BY <1>4, <1>5, <2>2, <2>4, AgreementKept
  <2>6. CleanOK'
    BY <1>3, <1>7, <2>4 DEF CleanOK
  <2>7. BoundValuesFollow'
    BY <1>3, <1>7, <2>2, <2>3, ValuesKept
  <2> QED
    BY <1>6, <2>2, <2>3, <2>5, <2>6, <2>7
<1>8. CASE CutDecoding({i}, {})
  <2>1. /\ TuplesOK' /\ cut' = TRUE
        /\ tuples' \in Seq(Tuples) /\ pc' = "idle" /\ unreported' \in BOOLEAN
        /\ lost' \subseteq Index /\ lost \cup IndicesOf(tuples) \cup {i} \subseteq lost'
        /\ stale' \subseteq Nat \X Prop
        /\ stale' = stale \cup BindingsOf(tuples) \cup {}
    BY <1>2, <1>4, <1>8, CutDecodes, ZenonT(40)
  <2>2. TableTypes'
    BY <1>2, <1>3, <2>1 DEF TableTypes, Decodes
  <2>3. TablesAgree'
    BY <1>4, <1>5, <2>1, AgreementKept
  <2>4. CleanOK'
    BY <2>1 DEF CleanOK
  <2>5. BoundValuesFollow'
    BY <1>3, <2>1, <2>2, ValuesKept
  <2> QED
    BY <1>6, <2>1, <2>2, <2>3, <2>4, <2>5
<1> QED
  BY <1>7, <1>8 DEF Delete

(* An update tells the bound variables of what it changes.                 *)
LEMMA UpdateKeeps ==
  ASSUME Invariants, NEW i \in Index, NEW ch \in Changes, Update(i, ch)
  PROVE  Invariants'
<1> DEFINE o == table[i]
           told == DOMAIN ch \cap BoundOf(o)
<1> USE DEF Invariants
<1>1. o \in Objects /\ heap[o].index = i /\ o \in Nat
  BY DEF Update, TableOK, TableTypes
<1>2. /\ Decodes(i) /\ ReadFields(o, ch, told) /\ UNCHANGED table /\ Done(o, "updated")
      /\ stale' = stale \ ({o} \X told)
  BY DEF Update
<1>3. /\ heap' \in Seq(Entities) /\ Objects' = Objects
      /\ \A p \in Objects : p # o => heap'[p] = heap[p]
      /\ heap'[o].index = heap[o].index /\ heap'[o].class = heap[o].class
      /\ heap'[o].finished = heap[o].finished /\ heap'[o].destroyed = heap[o].destroyed
      /\ heap'[o].state = Overlay(heap[o].state, ch)
      /\ \A q \in Prop : heap'[o].var[q] = IF q \in told THEN ch[q] ELSE heap[o].var[q]
  <2>1. told \in SUBSET DOMAIN ch
    OBVIOUS
  <2> HIDE DEF o, told
  <2> QED
    BY <1>1, <1>2, <2>1, ReadFieldsEffect
<1>4. Local(i)
  BY <1>1, <1>2, <1>3 DEF Local, TableTypes
<1>5. game' = game /\ lost' = lost /\ cut' = cut
  BY <1>2 DEF Decodes, Done
<1>6. TableOK' /\ GameOK'
  BY <1>1, <1>2, <1>3, <1>4, <1>5, TableKept
<1>7. "updated" \in Ops
  BY DEF Ops
<1>8. /\ TuplesOK' /\ IndicesOf(tuples) \subseteq IndicesOf(tuples)'
      /\ BindingsOf(tuples) \subseteq BindingsOf(tuples)'
  BY <1>1, <1>2, <1>3, <1>4, <1>7, DecodedTuple
<1>9. TableTypes'
  BY <1>1, <1>2, <1>3, <1>7, AddTuple DEF TableTypes, Decodes, Done
<1>10. TablesAgree'
  BY <1>2, <1>3, <1>4, <1>5, <1>8, AgreementKept
<1>11. CleanOK'
  BY <1>2, <1>3, <1>5 DEF CleanOK
<1>12. ASSUME NEW p \in Objects, NEW q \in BoundOf(p), <<p, q>> \notin stale' \cup BindingsOf(tuples)'
       PROVE  heap'[p].var[q] = heap'[p].state[q]
  <2>1. q \in Prop
    BY BoundType
  <2>2. CASE p = o /\ q \in DOMAIN ch
    BY <2>1, <2>2, <1>1, <1>3, OverlayType, EntityFields
  <2>3. CASE p = o /\ q \notin DOMAIN ch
    <3>1. <<p, q>> \notin stale \cup BindingsOf(tuples)
      BY <2>3, <1>2, <1>8, <1>12
    <3>2. heap[p].var[q] = heap[p].state[q]
      BY <3>1 DEF BoundValuesFollow
    <3> QED
      BY <3>2, <2>1, <2>3, <1>1, <1>3, OverlayType, EntityFields
  <2>4. CASE p # o
    <3>1. <<p, q>> \notin stale \cup BindingsOf(tuples)
      BY <2>4, <1>2, <1>8, <1>12
    <3>2. heap[p].var[q] = heap[p].state[q]
      BY <3>1 DEF BoundValuesFollow
    <3> QED
      BY <3>2, <2>4, <1>3
  <2> QED
    BY <2>2, <2>3, <2>4
<1>13. \A p \in Objects : BoundOf(p)' = BoundOf(p)
  BY <1>3 DEF BoundOf
<1>14. BoundValuesFollow'
  <2> SUFFICES ASSUME NEW p \in Objects', NEW q \in BoundOf(p)',
                      <<p, q>> \notin stale' \cup BindingsOf(tuples)'
               PROVE  heap'[p].var[q] = heap'[p].state[q]
    BY DEF BoundValuesFollow
  <2>1. p \in Objects /\ q \in BoundOf(p)
    BY <1>3, <1>13
  <2> QED
    BY <2>1, <1>12
<1> QED
  BY <1>6, <1>8, <1>9, <1>10, <1>11, <1>14

(* A handler of r panics: the variable of r alone may be behind.           *)
LEMMA UpdateRaisesKeeps ==
  ASSUME Invariants, NEW i \in Index, NEW ch \in Changes, NEW r \in Prop, UpdateRaises(i, ch, r)
  PROVE  Invariants'
<1> DEFINE o == table[i]
           told == (DOMAIN ch \cap BoundOf(o)) \ {r}
           more == {<<o, r>>}
<1> USE DEF Invariants
<1>1. o \in Objects /\ heap[o].index = i /\ o \in Nat
  BY DEF UpdateRaises, TableOK, TableTypes
<1>2. /\ Decodes(i) /\ ReadFields(o, ch, told) /\ UNCHANGED table /\ CutDecoding({}, more)
  BY DEF UpdateRaises
<1>3. /\ heap' \in Seq(Entities) /\ Objects' = Objects
      /\ \A p \in Objects : p # o => heap'[p] = heap[p]
      /\ heap'[o].index = heap[o].index /\ heap'[o].class = heap[o].class
      /\ heap'[o].finished = heap[o].finished /\ heap'[o].destroyed = heap[o].destroyed
      /\ heap'[o].state = Overlay(heap[o].state, ch)
      /\ \A q \in Prop : heap'[o].var[q] = IF q \in told THEN ch[q] ELSE heap[o].var[q]
  <2>1. told \in SUBSET DOMAIN ch
    OBVIOUS
  <2> HIDE DEF o, told
  <2> QED
    BY <1>1, <1>2, <2>1, ReadFieldsEffect
<1>4. Local(i)
  BY <1>1, <1>2, <1>3 DEF Local, TableTypes
<1>5. game' = game
  BY <1>2 DEF Decodes
<1>6. TableOK' /\ GameOK'
  BY <1>1, <1>2, <1>3, <1>4, <1>5, TableKept
<1>7. more \in SUBSET (Nat \X Prop) /\ {} \in SUBSET Index
  BY <1>1
<1>8. /\ TuplesOK' /\ cut' = TRUE
      /\ tuples' \in Seq(Tuples) /\ pc' = "idle" /\ unreported' \in BOOLEAN
      /\ lost' \subseteq Index /\ lost \cup IndicesOf(tuples) \cup {} \subseteq lost'
      /\ stale' \subseteq Nat \X Prop
      /\ stale' = stale \cup BindingsOf(tuples) \cup more
  <2> HIDE DEF more
  <2> QED
    BY <1>2, <1>4, <1>7, CutDecodes
<1>9. TableTypes'
  BY <1>2, <1>3, <1>8 DEF TableTypes, Decodes
<1>10. TablesAgree'
  BY <1>2, <1>3, <1>4, <1>5, <1>8, AgreementKept
<1>11. CleanOK'
  BY <1>8 DEF CleanOK
<1>12. ASSUME NEW p \in Objects, NEW q \in BoundOf(p), <<p, q>> \notin stale'
       PROVE  heap'[p].var[q] = heap'[p].state[q]
  <2>1. q \in Prop /\ <<p, q>> # <<o, r>> /\ <<p, q>> \notin stale \cup BindingsOf(tuples)
    BY BoundType, <1>8, <1>12
  <2>2. heap[p].var[q] = heap[p].state[q]
    BY <2>1 DEF BoundValuesFollow
  <2>3. CASE p = o /\ q \in DOMAIN ch
    <3>1. q \in told
      BY <2>1, <2>3
    <3>2. heap[o].state \in Values
      BY <1>1, EntityFields
    <3> HIDE DEF told, o, Invariants
    <3>3. Overlay(heap[o].state, ch)[q] = ch[q]
      BY <2>3, <3>2, OverlayType
    <3> QED
      BY <2>1, <2>3, <1>3, <3>1, <3>3
  <2>4. CASE p = o /\ q \notin DOMAIN ch
    <3>1. heap[o].state \in Values
      BY <1>1, EntityFields
    <3> HIDE DEF told, o, Invariants
    <3>2. Overlay(heap[o].state, ch)[q] = heap[o].state[q]
      BY <2>1, <2>4, <3>1, OverlayType
    <3>3. q \notin told
      BY <2>4 DEF told
    <3> QED
      BY <2>1, <2>2, <2>4, <1>3, <3>2, <3>3
  <2>5. CASE p # o
    BY <2>2, <2>5, <1>3
  <2> QED
    BY <2>3, <2>4, <2>5
<1>13. \A p \in Objects : BoundOf(p)' = BoundOf(p)
  BY <1>3 DEF BoundOf
<1>14. BoundValuesFollow'
  <2> SUFFICES ASSUME NEW p \in Objects', NEW q \in BoundOf(p)',
                      <<p, q>> \notin stale' \cup BindingsOf(tuples)'
               PROVE  heap'[p].var[q] = heap'[p].state[q]
    BY DEF BoundValuesFollow
  <2>1. p \in Objects /\ q \in BoundOf(p)
    BY <1>3, <1>13
  <2> QED
    BY <2>1, <1>12
<1> QED
  BY <1>6, <1>8, <1>9, <1>10, <1>11, <1>14

(* Leaving the view, and what the demo lacks: the heap stays.              *)
LEMMA LeaveKeeps ==
  ASSUME Invariants, NEW i \in Index, Leave(i), heap[table[i]].active
  PROVE  Invariants'
<1> DEFINE o == table[i]
<1> USE DEF Invariants
<1>1. o \in Objects /\ heap[o].index = i /\ o \in Nat
  BY DEF Leave, TableOK, TableTypes
<1>2. Decodes(i) /\ Done(o, "left") /\ UNCHANGED <<table, heap, stale>>
  BY DEF Leave
<1>3. Objects' = Objects
  BY <1>2 DEF Objects
<1>4. Local(i)
  BY <1>2, <1>3 DEF Local, TableTypes
<1>5. game' = game /\ lost' = lost /\ cut' = cut
  BY <1>2 DEF Decodes, Done
<1>6. "left" \in Ops
  BY DEF Ops
<1>7. /\ TuplesOK' /\ IndicesOf(tuples) \subseteq IndicesOf(tuples)'
      /\ BindingsOf(tuples) \subseteq BindingsOf(tuples)'
  BY <1>1, <1>2, <1>3, <1>4, <1>6, DecodedTuple
<1>8. TableTypes'
  BY <1>1, <1>2, <1>6, AddTuple DEF TableTypes, Decodes, Done
<1>9. TableOK' /\ GameOK'
  BY <1>1, <1>2, <1>3, <1>4, <1>5, TableKept
<1>10. TablesAgree'
  BY <1>2, <1>4, <1>5, <1>7, AgreementKept
<1>11. CleanOK'
  BY <1>2, <1>3, <1>5 DEF CleanOK
<1>12. BoundValuesFollow'
  BY <1>2, <1>3, <1>7, <1>8, ValuesKept
<1> QED
  BY <1>7, <1>8, <1>9, <1>10, <1>11, <1>12

(* A panic with nothing of its own left behind.                            *)
LEMMA MissingKeeps ==
  ASSUME Invariants, NEW i \in Index, Missing(i)
  PROVE  Invariants'
<1> USE DEF Invariants
<1>1. Decodes(i) /\ CutDecoding({}, {}) /\ UNCHANGED <<table, heap>>
  BY DEF Missing
<1>2. Objects' = Objects
  BY <1>1 DEF Objects
<1>3. Local(i) /\ game' = game
  BY <1>1, <1>2 DEF Local, TableTypes, Decodes
<1>4. {} \in SUBSET Index /\ {} \in SUBSET (Nat \X Prop)
  OBVIOUS
<1>5. /\ TuplesOK' /\ cut' = TRUE
      /\ tuples' \in Seq(Tuples) /\ pc' = "idle" /\ unreported' \in BOOLEAN
      /\ lost' \subseteq Index /\ lost \cup IndicesOf(tuples) \cup {} \subseteq lost'
      /\ stale' \subseteq Nat \X Prop
      /\ stale' = stale \cup BindingsOf(tuples) \cup {}
  BY <1>1, <1>3, <1>4, CutDecodes
<1>6. TableTypes'
  BY <1>1, <1>5 DEF TableTypes, Decodes
<1>7. TableOK' /\ GameOK'
  BY <1>1, <1>2, <1>3, TableKept DEF TableOK
<1>8. TablesAgree'
  BY <1>1, <1>3, <1>5, AgreementKept
<1>9. CleanOK'
  BY <1>5 DEF CleanOK
<1>10. BoundValuesFollow'
  BY <1>1, <1>2, <1>5, <1>6, ValuesKept
<1> QED
  BY <1>5, <1>6, <1>7, <1>8, <1>9, <1>10

-------------------------------------------------------------------------------
(* The steps of sending.                                                   *)

(* Taking the first tuple: its index is in no other.                       *)
LEMMA SentTuple ==
  ASSUME Invariants, Sends, heap' \in Seq(Entities), Objects' = Objects,
         \A p \in Objects :
           /\ heap'[p].index = heap[p].index /\ heap'[p].class = heap[p].class
           /\ heap'[p].finished = heap[p].finished /\ heap'[p].destroyed = heap[p].destroyed
  PROVE  LET t == Head(tuples)
             x == heap[t.obj].index
         IN  /\ x \in Index /\ table[x] = t.obj /\ t.obj \in Objects
             /\ IndicesOf(tuples) = Renews(t) \cup IndicesOf(Tail(tuples))
             /\ IndicesOf(Tail(tuples)) \subseteq Index
             /\ BindingsOf(Tail(tuples)) \subseteq Nat \X Prop
             /\ BindingsOf(tuples) = BindingsOf(Tail(tuples))
                  \cup (IF t.op = "created" THEN {t.obj} \X Prop ELSE {})
             /\ game' \in [Index -> Nat] /\ GameOK' /\ TableOK'
             /\ \A j \in Index : j \in Renews(t) => game'[j] = Current(j)
             /\ \A j \in Index : j \notin Renews(t) => game'[j] = game[j]
             /\ \A j \in Index : Current(j)' = Current(j)
<1> DEFINE t == Head(tuples)
           x == heap[t.obj].index
           rest == Tail(tuples)
<1> USE DEF Invariants
<1>1. /\ rest \in Seq(Tuples) /\ 1 \in DOMAIN tuples /\ t = tuples[1]
      /\ \A k \in DOMAIN rest : k \in Nat /\ k + 1 \in DOMAIN tuples /\ rest[k] = tuples[k + 1]
      /\ \A k \in DOMAIN tuples : k = 1 \/ k - 1 \in DOMAIN rest
      /\ t \in Tuples /\ t.obj \in Objects
  BY TakeTuple DEF Sends
<1>2. \A k \in DOMAIN tuples : k \in Nat
  BY DEF TableTypes
<1>3. \A k \in DOMAIN tuples : k = 1 \/ (k - 1 \in DOMAIN rest /\ rest[k - 1] = tuples[k])
  BY <1>1, <1>2
<1>4. x \in Index /\ table[x] = t.obj
  BY <1>1, EntityFields DEF TuplesOK
<1>5. /\ t.op = "created" => heap[t.obj].destroyed = 0
      /\ t.op = "deleted" => heap[t.obj].destroyed > 0
  BY <1>1 DEF TuplesOK
<1> HIDE DEF rest, t
<1>6. IndicesOf(tuples) = Renews(t) \cup IndicesOf(rest)
  <2>1. IndicesOf(tuples) \subseteq Renews(t) \cup IndicesOf(rest)
    BY <1>1, <1>3 DEF IndicesOf
  <2>2. Renews(t) \subseteq IndicesOf(tuples)
    BY <1>1 DEF IndicesOf
  <2>3. IndicesOf(rest) \subseteq IndicesOf(tuples)
    BY <1>1 DEF IndicesOf
  <2> QED
    BY <2>1, <2>2, <2>3
<1>7. BindingsOf(tuples) = BindingsOf(rest) \cup (IF t.op = "created" THEN {t.obj} \X Prop ELSE {})
  <2>1. ASSUME NEW b \in BindingsOf(tuples)
        PROVE  b \in BindingsOf(rest) \cup (IF t.op = "created" THEN {t.obj} \X Prop ELSE {})
    <3>1. PICK k \in DOMAIN tuples, q \in Prop : tuples[k].op = "created" /\ b = <<tuples[k].obj, q>>
      BY DEF BindingsOf
    <3> QED
      BY <3>1, <1>1, <1>3 DEF BindingsOf
  <2>2. ASSUME NEW b \in BindingsOf(rest)
        PROVE  b \in BindingsOf(tuples)
    <3>1. PICK k \in DOMAIN rest, q \in Prop : rest[k].op = "created" /\ b = <<rest[k].obj, q>>
      BY DEF BindingsOf
    <3> QED
      BY <3>1, <1>1 DEF BindingsOf
  <2>3. ASSUME t.op = "created" PROVE {t.obj} \X Prop \subseteq BindingsOf(tuples)
    <3>1. ASSUME NEW q \in Prop PROVE <<t.obj, q>> \in BindingsOf(tuples)
      <4>1. /\ 1 \in {j \in DOMAIN tuples : tuples[j].op = "created"}
            /\ tuples[1].obj = t.obj
        BY <1>1, <2>3
      <4>2. <<tuples[1].obj, q>> \in BindingsOf(tuples)
        <5> HIDE DEF Invariants
        <5> DEFINE J == {j \in DOMAIN tuples : tuples[j].op = "created"}
        <5>1. BindingsOf(tuples) = {<<tuples[k].obj, y>> : k \in J, y \in Prop}
          BY DEF BindingsOf
        <5>2. 1 \in J
          BY <4>1
        <5> HIDE DEF J
        <5> QED
          BY <3>1, <5>1, <5>2
      <4> QED
        BY <4>1, <4>2
    <3>2. ASSUME NEW b \in {t.obj} \X Prop PROVE b \in BindingsOf(tuples)
      <4>1. PICK q \in Prop : b = <<t.obj, q>>
        <5> DEFINE O == {t.obj}
        <5>1. \E y \in O, q \in Prop : b = <<y, q>>
          <6>1. b \in O \X Prop
            OBVIOUS
          <6> HIDE DEF O, Invariants
          <6> QED
            BY <6>1
        <5> QED
          BY <5>1
      <4> QED
        BY <3>1, <4>1
    <3> QED
      BY <3>2
  <2> QED
    BY <2>1, <2>2, <2>3
<1>8. IndicesOf(rest) \subseteq Index /\ BindingsOf(rest) \subseteq Nat \X Prop
  BY <1>6, <1>7, PendingTypes
<1>9. \A j \in Index : Current(j)' = Current(j)
  <2>1. table' = table
    BY DEF Sends
  <2> QED
    BY <2>1 DEF Current, TableOK
<1>10. OnEntity(t) /\ table' = table /\ game \in [Index -> Nat]
  BY DEF Sends, t, TableTypes
<1>11. t.obj \in Nat /\ None \in Nat /\ t.obj # None
  BY <1>1, EntityFields DEF None
<1>12. Renews(t) = IF t.op \in {"created", "deleted"} THEN {x} ELSE {}
  BY DEF Renews
<1>13. game' = CASE t.op = "created" -> [game EXCEPT ![x] = t.obj]
                 [] t.op = "deleted" -> [game EXCEPT ![x] = None]
                 [] OTHER -> game
  BY <1>10 DEF OnEntity
<1>14. Current(x) = IF heap[t.obj].destroyed = 0 THEN t.obj ELSE None
  BY <1>4, <1>11 DEF Current
<1> HIDE DEF x
<1>15. CASE t.op = "created"
  <2>1. game' = [game EXCEPT ![x] = t.obj]
    BY <1>13, <1>15
  <2>2. Renews(t) = {x} /\ Current(x) = t.obj
    BY <1>5, <1>12, <1>14, <1>15
  <2> QED
    BY <2>1, <2>2, <1>1, <1>4, <1>6, <1>7, <1>8, <1>9, <1>10, <1>11, ZenonT(40) DEF GameOK, TableOK, t, rest, x
<1>16. CASE t.op = "deleted"
  <2>1. game' = [game EXCEPT ![x] = None]
    BY <1>13, <1>16
  <2>2. heap[t.obj].destroyed # 0
    BY <1>1, <1>5, <1>16, EntityFields
  <2>3. Renews(t) = {x} /\ Current(x) = None
    BY <2>2, <1>12, <1>14, <1>16
  <2> QED
    BY <2>1, <2>3, <1>1, <1>4, <1>6, <1>7, <1>8, <1>9, <1>10, <1>11, ZenonT(40) DEF GameOK, TableOK, t, rest, x
<1>17. CASE t.op \notin {"created", "deleted"}
  <2>1. game' = game
    BY <1>13, <1>17
  <2>2. Renews(t) = {}
    BY <1>12, <1>17
  <2> QED
    BY <2>1, <2>2, <1>1, <1>4, <1>6, <1>7, <1>8, <1>9, <1>10, <1>11, ZenonT(40) DEF GameOK, TableOK, t, rest, x
<1> QED
  BY <1>15, <1>16, <1>17

(* Sending brings up to date what it takes from the pending.               *)
LEMMA SendKeeps ==
  ASSUME Invariants, Send
  PROVE  Invariants'
<1> DEFINE t == Head(tuples)
           x == heap[t.obj].index
           rest == Tail(tuples)
<1> USE DEF Invariants
<1>1. Sends /\ pc' = pc /\ cut' = cut /\ unreported' = unreported /\ stale' = stale
  BY DEF Send
<1>2. tuples' = rest /\ lost' = lost \ Renews(t)
  BY DEF Send
<1>3. /\ rest \in Seq(Tuples) /\ t \in Tuples /\ t.obj \in Objects
      /\ \A k \in DOMAIN rest : k \in Nat /\ k + 1 \in DOMAIN tuples /\ rest[k] = tuples[k + 1]
  BY <1>1, TakeTuple DEF Sends
<1>4. /\ heap' \in Seq(Entities) /\ Objects' = Objects
      /\ \A p \in Objects :
           /\ heap'[p].index = heap[p].index /\ heap'[p].class = heap[p].class
           /\ heap'[p].finished = heap[p].finished /\ heap'[p].destroyed = heap[p].destroyed
           /\ heap'[p].state = heap[p].state
           /\ p # t.obj \/ t.op # "created" => heap'[p].var = heap[p].var
           /\ p = t.obj /\ t.op = "created" =>
                \A q \in BoundOf(p) : heap'[p].var[q] = heap[p].state[q]
  <2>1. CASE t.op = "created"
    <3>1. Tell(t.obj, BoundOf(t.obj))
      BY <2>1 DEF Send
    <3>2. BoundOf(t.obj) \in SUBSET Prop
      BY <1>3, BoundType
    <3>3. TableTypes /\ t.obj \in Objects
      BY <1>3
    <3> HIDE DEF t, x, rest
    <3>4. /\ heap' \in Seq(Entities) /\ Objects' = Objects
          /\ \A p \in Objects : p # t.obj => heap'[p] = heap[p]
          /\ heap'[t.obj].index = heap[t.obj].index /\ heap'[t.obj].class = heap[t.obj].class
          /\ heap'[t.obj].finished = heap[t.obj].finished
          /\ heap'[t.obj].destroyed = heap[t.obj].destroyed
          /\ heap'[t.obj].state = heap[t.obj].state
          /\ \A q \in Prop : heap'[t.obj].var[q] =
                IF q \in BoundOf(t.obj) THEN heap[t.obj].state[q] ELSE heap[t.obj].var[q]
      BY <3>1, <3>2, <3>3, TellEffect
    <3>5. \A q \in BoundOf(t.obj) : heap'[t.obj].var[q] = heap[t.obj].state[q]
      BY <3>2, <3>4
    <3> QED
      BY <2>1, <3>4, <3>5
  <2>2. CASE t.op # "created"
    BY <2>2 DEF Send, TableTypes, Objects
  <2> QED
    BY <2>1, <2>2
<1>5. /\ x \in Index /\ table[x] = t.obj
      /\ IndicesOf(tuples) = Renews(t) \cup IndicesOf(rest)
      /\ BindingsOf(tuples) = BindingsOf(rest) \cup (IF t.op = "created" THEN {t.obj} \X Prop ELSE {})
      /\ game' \in [Index -> Nat] /\ GameOK' /\ TableOK'
      /\ \A j \in Index : j \in Renews(t) => game'[j] = Current(j)
      /\ \A j \in Index : j \notin Renews(t) => game'[j] = game[j]
      /\ \A j \in Index : Current(j)' = Current(j)
  BY <1>1, <1>4, SentTuple
<1> HIDE DEF t, x, rest
<1>6. TableTypes'
  BY <1>1, <1>2, <1>3, <1>4, <1>5 DEF TableTypes, Sends
<1>7. TuplesOK'
  <2>1. ASSUME NEW k \in DOMAIN rest
        PROVE  LET p == rest[k].obj
               IN  /\ p \in Objects' /\ table'[heap'[p].index] = p /\ heap'[p].index <= index'
                   /\ rest[k].op = "created" => heap'[p].destroyed = 0
                   /\ rest[k].op = "deleted" => heap'[p].destroyed > 0
    <3>1. k + 1 \in DOMAIN tuples /\ rest[k] = tuples[k + 1]
      BY <1>3
    <3>2. table' = table /\ index' = index
      BY <1>1 DEF Sends
    <3>3. LET p == tuples[k + 1].obj
          IN  /\ p \in Objects /\ table[heap[p].index] = p /\ heap[p].index <= index
              /\ tuples[k + 1].op = "created" => heap[p].destroyed = 0
              /\ tuples[k + 1].op = "deleted" => heap[p].destroyed > 0
      BY <3>1 DEF TuplesOK
    <3> QED
      BY <3>1, <3>2, <3>3, <1>4
  <2>2. ASSUME NEW k \in DOMAIN rest, NEW l \in DOMAIN rest, k < l
        PROVE  heap'[rest[k].obj].index < heap'[rest[l].obj].index
    <3>1. /\ k + 1 \in DOMAIN tuples /\ rest[k] = tuples[k + 1]
          /\ l + 1 \in DOMAIN tuples /\ rest[l] = tuples[l + 1] /\ k + 1 < l + 1
      BY <1>3, <2>2
    <3>2. heap[rest[k].obj].index < heap[rest[l].obj].index
      BY <3>1 DEF TuplesOK
    <3>3. rest[k].obj \in Objects /\ rest[l].obj \in Objects
      BY <3>1 DEF TuplesOK
    <3> QED
      BY <3>2, <3>3, <1>4
  <2>3. pc' # "idle"
    BY <1>1 DEF Sends
  <2> QED
    BY <2>1, <2>2, <2>3, <1>2 DEF TuplesOK
<1>8. BindingsOf(tuples)' = BindingsOf(rest)
  BY <1>2 DEF BindingsOf
<1>9. IndicesOf(tuples)' = IndicesOf(rest)
  <2>1. ASSUME NEW k \in DOMAIN rest
        PROVE  Renews(tuples[k])' = Renews(rest[k])
    <3>1. rest[k].obj \in Objects
      BY <1>3 DEF TuplesOK
    <3> QED
      BY <3>1, <1>2, <1>4 DEF Renews
  <2> QED
    BY <2>1, <1>2 DEF IndicesOf
<1>10. TablesAgree'
  <2> SUFFICES ASSUME NEW j \in Index, j \notin lost' \cup IndicesOf(rest)
               PROVE  game'[j] = Current(j)
    BY <1>5, <1>9 DEF TablesAgree
  <2>1. CASE j \in Renews(t)
    BY <2>1, <1>5
  <2>2. CASE j \notin Renews(t)
    BY <2>2, <1>2, <1>5 DEF TablesAgree
  <2> QED
    BY <2>1, <2>2
<1>11. CleanOK'
  BY <1>1, <1>2, <1>4 DEF CleanOK
<1>12. BoundValuesFollow'
  <2> SUFFICES ASSUME NEW p \in Objects', NEW q \in BoundOf(p)',
                      <<p, q>> \notin stale' \cup BindingsOf(tuples)'
               PROVE  heap'[p].var[q] = heap'[p].state[q]
    BY DEF BoundValuesFollow
  <2>1. p \in Objects /\ q \in BoundOf(p)
    BY <1>4 DEF BoundOf
  <2>2. CASE p = t.obj /\ t.op = "created"
    BY <2>1, <2>2, <1>4
  <2>3. CASE ~(p = t.obj /\ t.op = "created")
    <3>1. <<p, q>> \notin stale \cup BindingsOf(tuples)
      BY <2>3, <1>1, <1>5, <1>8
    <3>2. heap[p].var[q] = heap[p].state[q]
      BY <2>1, <3>1 DEF BoundValuesFollow
    <3> QED
      BY <2>1, <2>3, <3>2, <1>4
  <2> QED
    BY <2>2, <2>3
<1> QED
  BY <1>5, <1>6, <1>7, <1>10, <1>11, <1>12

(* A handler of r panics: what was pending is left behind.                 *)
LEMMA SendRaisesKeeps ==
  ASSUME Invariants, NEW r \in Prop, SendRaises(r)
  PROVE  Invariants'
<1> DEFINE t == Head(tuples)
           x == heap[t.obj].index
           rest == Tail(tuples)
           told == {s \in BoundOf(t.obj) : s < r}
           more == {t.obj} \X (Prop \ told)
<1> USE DEF Invariants
<1>1. Sends /\ t.op = "created" /\ Tell(t.obj, told) /\ Cut(rest, lost \ Renews(t), more)
  BY DEF SendRaises
<1>2. t.obj \in Objects
  BY <1>1, TakeTuple DEF Sends
<1>3. told \in SUBSET Prop /\ more \in SUBSET (Nat \X Prop) /\ t.obj \in Nat
  BY <1>2, BoundType, EntityFields
<1> HIDE DEF t, told
<1>4. /\ heap' \in Seq(Entities) /\ Objects' = Objects
      /\ \A p \in Objects : p # t.obj => heap'[p] = heap[p]
      /\ heap'[t.obj].index = heap[t.obj].index /\ heap'[t.obj].class = heap[t.obj].class
      /\ heap'[t.obj].finished = heap[t.obj].finished /\ heap'[t.obj].destroyed = heap[t.obj].destroyed
      /\ heap'[t.obj].state = heap[t.obj].state
      /\ \A q \in Prop : heap'[t.obj].var[q] = IF q \in told THEN heap[t.obj].state[q] ELSE heap[t.obj].var[q]
  BY <1>1, <1>2, <1>3, TellEffect, SMTT(30)
<1>5. \A p \in Objects :
        /\ heap'[p].index = heap[p].index /\ heap'[p].class = heap[p].class
        /\ heap'[p].finished = heap[p].finished /\ heap'[p].destroyed = heap[p].destroyed
  BY <1>4
<1>6. /\ x \in Index
      /\ IndicesOf(tuples) = Renews(t) \cup IndicesOf(rest) /\ IndicesOf(rest) \subseteq Index
      /\ BindingsOf(tuples) = BindingsOf(rest) \cup ({t.obj} \X Prop)
      /\ BindingsOf(rest) \subseteq Nat \X Prop
      /\ game' \in [Index -> Nat] /\ GameOK' /\ TableOK'
      /\ \A j \in Index : j \in Renews(t) => game'[j] = Current(j)
      /\ \A j \in Index : j \notin Renews(t) => game'[j] = game[j]
      /\ \A j \in Index : Current(j)' = Current(j)
  BY <1>1, <1>4, <1>5, SentTuple DEF t
<1> HIDE DEF x, rest, more
<1>7. /\ pc' = "idle" /\ tuples' = << >> /\ cut' = TRUE /\ unreported' \in BOOLEAN
      /\ lost' = (lost \ Renews(t)) \cup IndicesOf(rest)
      /\ stale' = stale \cup BindingsOf(rest) \cup more
  BY <1>1 DEF Cut, TableTypes
<1>8. tuples' \in Seq(Tuples)
  BY <1>7
<1>9. TableTypes'
  BY <1>1, <1>3, <1>4, <1>6, <1>7, <1>8 DEF TableTypes, Sends
<1>10. TuplesOK' /\ CleanOK'
  BY <1>7 DEF TuplesOK, CleanOK
<1>11. TablesAgree'
  <2> SUFFICES ASSUME NEW j \in Index, j \notin lost'
               PROVE  game'[j] = Current(j)
    BY <1>6 DEF TablesAgree
  <2>1. CASE j \in Renews(t)
    BY <2>1, <1>6
  <2>2. CASE j \notin Renews(t)
    BY <2>2, <1>6, <1>7 DEF TablesAgree
  <2> QED
    BY <2>1, <2>2
<1>12. BoundValuesFollow'
  <2> SUFFICES ASSUME NEW p \in Objects', NEW q \in BoundOf(p)', <<p, q>> \notin stale'
               PROVE  heap'[p].var[q] = heap'[p].state[q]
    BY DEF BoundValuesFollow
  <2>1. p \in Objects /\ q \in BoundOf(p)
    BY <1>4, <1>5 DEF BoundOf
  <2>2. q \in Prop
    BY <2>1, BoundType
  <2>3. CASE p = t.obj
    <3>1. q \in told
      BY <2>2, <2>3, <1>7 DEF more
    <3> QED
      BY <3>1, <2>2, <2>3, <1>4
  <2>4. CASE p # t.obj
    <3>1. <<p, q>> \notin stale \cup BindingsOf(tuples)
      BY <2>4, <1>6, <1>7
    <3>2. heap[p].var[q] = heap[p].state[q]
      BY <2>1, <3>1 DEF BoundValuesFollow
    <3> QED
      BY <2>1, <2>4, <3>2, <1>4
  <2> QED
    BY <2>3, <2>4
<1> QED
  BY <1>6, <1>9, <1>10, <1>11, <1>12

-------------------------------------------------------------------------------
(* The invariants together.                                                *)

(* Steps that change no entity and no table.                               *)
LEMMA IndexType == ASSUME TableTypes PROVE index \in Int
<1>1. index \in Index \cup {-1}
  BY DEF TableTypes
<1> QED
  BY <1>1

LEMMA QuietKeeps ==
  ASSUME Invariants, UNCHANGED <<tables, tuples, history>>,
         pc' \in {"idle", "decode", "send"}, pc' = "idle" => tuples = << >>,
         index' \in Index \cup {-1}, tuples # << >> => index' >= index,
         fullPackets' \in {0, 1}, baseline' \in [Class -> Values]
  PROVE  Invariants'
<1> USE DEF Invariants
<1>1. Objects' = Objects /\ heap' = heap /\ table' = table /\ game' = game /\ tuples' = tuples
      /\ lost' = lost /\ stale' = stale /\ cut' = cut /\ unreported' = unreported
  BY DEF tables, history, Objects
<1>2. TableTypes'
  BY <1>1 DEF TableTypes
<1>3. TableOK' /\ GameOK' /\ CleanOK'
  BY <1>1 DEF TableOK, GameOK, CleanOK
<1>4. TuplesOK'
  <2>1. ASSUME NEW k \in DOMAIN tuples
        PROVE  heap[tuples[k].obj].index <= index'
    <3> DEFINE x == heap[tuples[k].obj].index
    <3>1. x \in Index /\ x <= index
      BY TupleType
    <3>2. tuples # << >>
      OBVIOUS
    <3>3. index \in Int /\ index' \in Int /\ index' >= index
      BY <1>2, <3>2, IndexType
    <3> HIDE DEF x
    <3>4. x \in Int
      BY <3>1
    <3>5. x <= index'
      BY <3>1, <3>3, <3>4
    <3> QED
      BY <3>5 DEF x
  <2> QED
    BY <1>1, <2>1 DEF TuplesOK
<1>5. TablesAgree'
  <2>1. IndicesOf(tuples)' = IndicesOf(tuples) /\ \A j \in Index : Current(j)' = Current(j)
    BY <1>1 DEF IndicesOf, Renews, Current
  <2> QED
    BY <1>1, <2>1 DEF TablesAgree
<1>6. BoundValuesFollow'
  <2>1. BindingsOf(tuples)' = BindingsOf(tuples) /\ \A o \in Objects : BoundOf(o)' = BoundOf(o)
    BY <1>1 DEF BindingsOf, BoundOf
  <2> QED
    BY <1>1, <2>1 DEF BoundValuesFollow
<1> QED
  BY <1>2, <1>3, <1>4, <1>5, <1>6

(* The quiet ones among the steps of decoding.                             *)
LEMMA QuietDecodes ==
  ASSUME Invariants, NEW i \in Index, Decodes(i), UNCHANGED <<table, heap, pc, tuples, history>>
  PROVE  Invariants'
<1>1. /\ UNCHANGED <<tables, tuples, history>> /\ pc' = "decode"
      /\ fullPackets' = fullPackets /\ baseline' = baseline /\ index' = i
  BY DEF Decodes, tables
<1>2. fullPackets' \in {0, 1} /\ baseline' \in [Class -> Values]
  BY <1>1 DEF Invariants, TableTypes
<1>3. index' >= index
  <2>1. index \in Int /\ i \in Int /\ i > index
    BY IndexType DEF Decodes, Invariants
  <2> QED
    BY <2>1, <1>1
<1> QED
  BY <1>1, <1>2, <1>3, QuietKeeps

(* Initially there is nothing.                                             *)
LEMMA InitInvariants == Init => Invariants
<1> SUFFICES ASSUME Init PROVE Invariants
  OBVIOUS
<1>1. heap \in Seq(Entities) /\ tuples \in Seq(Tuples) /\ Objects = {} /\ DOMAIN tuples = {}
  BY DEF Init, Objects
<1> QED
  BY <1>1 DEF Init, Invariants, TableTypes, TableOK, TuplesOK, GameOK, CleanOK, TablesAgree,
              BoundValuesFollow, Current, None, NoValue, Values

(* Every step keeps the invariants.                                        *)
LEMMA NextInvariants == Invariants /\ [Next]_vars => Invariants'
<1> SUFFICES ASSUME Invariants, [Next]_vars PROVE Invariants'
  OBVIOUS
<1>0. /\ index \in Index \cup {-1} /\ fullPackets \in {0, 1} /\ baseline \in [Class -> Values]
      /\ pc \in {"idle", "decode", "send"} /\ (pc = "idle" => tuples = << >>) /\ index \in Int
  BY IndexType DEF Invariants, TableTypes, TuplesOK
<1>1. ASSUME NEW c \in Class, NEW b \in Values, SetInstanceBaseline(c, b)
      PROVE  Invariants'
  BY <1>0, <1>1, QuietKeeps DEF SetInstanceBaseline
<1>2. ASSUME NEW delta \in BOOLEAN, BeginPacket(delta)
      PROVE  Invariants'
  <2>1. fullPackets' \in {0, 1}
    BY <1>0, <1>2 DEF BeginPacket, Ignored
  <2>2. tuples = << >> /\ tuples' = tuples
    BY <1>0, <1>2 DEF BeginPacket
  <2> QED
    BY <1>0, <1>2, <2>1, <2>2, QuietKeeps DEF BeginPacket
<1>3. ASSUME NEW i \in Index, SkipInvisible(i)
      PROVE  Invariants'
  BY <1>3, QuietDecodes DEF SkipInvisible
<1>4. ASSUME NEW i \in Index, Leave(i)
      PROVE  Invariants'
  <2>1. CASE heap[table[i]].active
    BY <1>4, <2>1, LeaveKeeps
  <2>2. CASE ~heap[table[i]].active
    BY <1>4, <2>2, QuietDecodes DEF Leave
  <2> QED
    BY <2>1, <2>2
<1>5. ASSUME NEW i \in Index, Delete(i)
      PROVE  Invariants'
  <2>1. CASE heap[table[i]].active
    BY <1>5, <2>1, DeleteKeeps
  <2>2. CASE ~heap[table[i]].active
    BY <1>5, <2>2, QuietDecodes DEF Delete
  <2> QED
    BY <2>1, <2>2
<1>6. CASE EndDecoding
  BY <1>0, <1>6, QuietKeeps DEF EndDecoding
<1>7. CASE EndPacket
  BY <1>0, <1>7, QuietKeeps DEF EndPacket
<1>8. CASE UNCHANGED vars
  <2>1. /\ UNCHANGED <<tables, tuples, history>>
        /\ pc' = pc /\ index' = index /\ fullPackets' = fullPackets /\ baseline' = baseline
    BY <1>8 DEF vars, tables
  <2> QED
    BY <1>0, <2>1, QuietKeeps
<1> QED
  BY <1>1, <1>2, <1>3, <1>4, <1>5, <1>6, <1>7, <1>8, CreateKeeps, CreateRaisesKeeps, UpdateKeeps,
     UpdateRaisesKeeps, MissingKeeps, SendKeeps, SendRaisesKeeps
     DEF Next, Decode

(* For any number of entities and packets and panics anywhere: the types,  *)
(* and that tuples are of the entities now at their indices, one each.     *)
THEOREM EntityInvariant == Spec => []Invariants
BY InitInvariants, NextInvariants, PTL DEF Spec

(* The game state's table follows the parser's (entity.go:512,             *)
(* net_messages.go:13).                                                    *)
THEOREM GameStateFollows == Spec => []TablesAgree
<1>1. Invariants => TablesAgree
  BY DEF Invariants
<1> QED
  BY <1>1, EntityInvariant, PTL

(* Bound variables follow their properties (entity.go:432, 630).           *)
THEOREM BindingsFollow == Spec => []BoundValuesFollow
<1>1. Invariants => BoundValuesFollow
  BY DEF Invariants
<1> QED
  BY <1>1, EntityInvariant, PTL

(* Without a panic there are no exceptions between packets.                *)
THEOREM CleanWithoutPanic == Spec => []CleanBetweenPackets
<1>1. Invariants => CleanBetweenPackets
  <2> SUFFICES ASSUME Invariants, pc = "idle", ~cut PROVE CleanBetweenPackets
    BY DEF CleanBetweenPackets
  <2>1. lost = {} /\ stale = {} /\ tuples = << >> /\ \A o \in Objects : heap[o].finished
    BY DEF Invariants, CleanOK, TuplesOK
  <2>2. IndicesOf(tuples) = {} /\ BindingsOf(tuples) = {}
    BY <2>1 DEF IndicesOf, BindingsOf
  <2> QED
    BY <2>1, <2>2 DEF Invariants, CleanBetweenPackets, TablesAgree, BoundValuesFollow, BoundOf
<1> QED
  BY <1>1, EntityInvariant, PTL
===============================================================================
