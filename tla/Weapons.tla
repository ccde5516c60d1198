-------------------------------- MODULE Weapons --------------------------------
(***************************************************************************)
(* Weapons and who has them (datatables.go): bindWeapon keeps an Equipment *)
(* for every weapon entity, bindPlayerWeapons the inventory of every       *)
(* player from the handles in their pawn's m_hMyWeapons; refunds and shots *)
(* are told of from the updates of a weapon and of its owner's money.      *)
(*                                                                         *)
(* The server does one or two deeds a frame.  The frame brings the changes *)
(* of money first (controllers have the lowest entity IDs), then the pawns *)
(* and weapons in any order, then the first values of new weapons.  An     *)
(* Equipment is known by an identity, which is free again when nothing     *)
(* refers to it.  All pawns are bound, and a pawn keeps its player.        *)
(***************************************************************************)
EXTENDS Naturals, FiniteSets, SequencesExt

CONSTANTS
  Players,
  Zone,         (* those who are in a buy zone                              *)
  Weps,         (* the entity IDs of weapons                                *)
  Types,        (* the types of equipment an entity ID may get              *)
  MaxMoney, MaxTakes

Nil == "nil"
AllTypes == UNION {Types[w] : w \in Weps}
EqUnknown == "EqUnknown"

ASSUME WeaponsAssumption ==
  /\ Nil \notin Players \cup Weps \cup AllTypes /\ EqUnknown \notin AllTypes
  /\ Players \cap Weps = {}
  /\ IsFiniteSet(Players) /\ Zone \subseteq Players /\ MaxMoney \in Nat /\ MaxTakes \in Nat

VARIABLES
  server,       (* what the server has in this frame                        *)
  before,       (* and had in the one before                                *)
  shots,        (* the weapons fired in this frame, and by whom             *)
  updates,      (* the entities whose updates are still to come,            *)
  firsts,       (* and those whose first values are                         *)
  inFrame,
  weapons,      (* gameState.weapons                                        *)
  equipment,    (* the fields of the Equipment of each identity             *)
  inventory,    (* the Inventory of each player                             *)
  refund,       (* the refund detection of each weapon entity               *)
  log           (* the events dispatched in this frame                      *)

weaponsVars == <<server, before, shots, updates, firsts, inFrame, weapons, equipment,
          inventory, refund, log>>

(* new: created in this frame, so that its entity ID has another serial    *)
(* number than before; takes counts, as a bound, how often it was taken.   *)
NoWeapon == [type |-> Nil, owner |-> Nil, new |-> FALSE, takes |-> 0]
NoHandle == [idx |-> Nil, new |-> FALSE]
NoEquipment == << >>
Ids == Weps \X (1 .. Cardinality(Players) + 2)
NewEq(type) == [type |-> type, owner |-> Nil]
NoRefund == [oldOwnerMoney |-> 0, thisTick |-> FALSE, increased |-> FALSE, watched |-> << >>]

WeaponsInit ==
  /\ server = [wep   |-> [w \in Weps |-> NoWeapon], slots |-> [p \in Players |-> << >>],
               money |-> [p \in Players |-> 1]]
  /\ before = server /\ shots = << >> /\ updates = {} /\ firsts = {} /\ inFrame = FALSE
  /\ weapons = [i \in Weps |-> NoEquipment]
  /\ equipment = [e \in Ids |-> NewEq(EqUnknown)]
  /\ inventory = [p \in Players |-> << >>]
  /\ refund = [w \in Weps |-> NoRefund]
  /\ log = << >>

Exists(s, w) == s.wep[w].type # Nil

State == [weapons |-> weapons, equipment |-> equipment, inventory |-> inventory]
Becomes(st) ==
  /\ weapons' = st.weapons /\ equipment' = st.equipment /\ inventory' = st.inventory

---------------------------------------------------------------------------
(* NewEquipment, entered in weapons                                        *)

Referred(st) ==
  {st.weapons[i] : i \in Weps} \cup
  UNION {{st.inventory[p][i] : i \in DOMAIN st.inventory[p]} : p \in Players}

Fresh(st, i) == CHOOSE e \in Ids : e[1] = i /\ e \notin Referred(st)

(* For each of the entity IDs                                              *)
NewEquipment(st, I, type) ==
  [st EXCEPT
     !.weapons   = [i \in Weps |-> IF i \in I THEN Fresh(st, i) ELSE st.weapons[i]],
     !.equipment = [e \in Ids |-> IF \E i \in I : e = Fresh(st, i) THEN NewEq(type)
                                  ELSE st.equipment[e]]]

(* getWep: a weapon may be assigned to a player before it is created.      *)
GetWep(st, I) == NewEquipment(st, {i \in I : st.weapons[i] = NoEquipment}, EqUnknown)

(* setPlayerInventory: of the slots that have a value                      *)
Held(slots) == {slots[k].idx : k \in {j \in DOMAIN slots : slots[j] # NoHandle}}

SetPlayerInventory(st, p, slots) ==
  LET got == GetWep(st, Held(slots))
  IN  [got EXCEPT !.inventory = [@ EXCEPT ![p] = [i \in Held(slots) |-> got.weapons[i]]]]

(* The handlers of m_hMyWeapons: of its length, and of a slot              *)
LengthUpdate_Ignored(st, p, slots) == st
LengthUpdate(st, p, slots) == SetPlayerInventory(st, p, slots)

UpdateWeapon(st, p, slots, k) ==
  LET got == GetWep(st, {slots[k].idx})
      e   == got.weapons[slots[k].idx]
  IN  SetPlayerInventory([got EXCEPT !.equipment = [@ EXCEPT ![e].owner = p]], p, slots)

(* The length comes before the slots; while it is set slots are cleared or *)
(* have no value yet, and while one is set the later ones are the old ones.*)
Kept(p) ==
  [k \in DOMAIN server.slots[p] |->
     IF k \in DOMAIN before.slots[p] THEN before.slots[p][k] ELSE NoHandle]

Read(p, k) ==
  [j \in DOMAIN server.slots[p] |-> IF j <= k THEN server.slots[p][j] ELSE Kept(p)[j]]

Sized(p) ==
  IF Len(before.slots[p]) = Len(server.slots[p]) THEN State
  ELSE LengthUpdate(State, p, Kept(p))

PawnUpdate(p) ==
  LET new == server.slots[p]
      after[k \in 0 .. Len(new)] ==
        IF k = 0 THEN Sized(p)
        ELSE IF Kept(p)[k] = new[k] THEN after[k - 1]
             ELSE UpdateWeapon(after[k - 1], p, Read(p, k), k)
  IN  Becomes(after[Len(new)])

---------------------------------------------------------------------------
(* The handlers of a weapon                                                *)

BindWeapon_AlwaysNew(w) == Becomes(NewEquipment(State, {w}, server.wep[w].type))

BindWeapon(w) ==
  IF weapons[w] = NoEquipment THEN Becomes(NewEquipment(State, {w}, server.wep[w].type))
  ELSE Becomes([State EXCEPT !.equipment = [@ EXCEPT ![weapons[w]].type = server.wep[w].type]])

(* The variables of the refund detection are those of one entity.          *)
NewRefund_OfIndex(w) == refund[w]
NewRefund(w) == NoRefund

(* m_hOwnerEntity: a money handler more with every owner                   *)
OwnerFound(w) ==
  refund' = [refund EXCEPT ![w].oldOwnerMoney = server.money[server.wep[w].owner],
                           ![w].watched = Append(@, server.wep[w].owner)]

(* m_fLastShotTime, after m_hOwnerEntity; the shooter is the owner or the  *)
(* one the equipment has.                                                  *)
Fired(st, w) ==
  LET e == st.weapons[w]
      shooter == IF server.wep[w].owner # Nil THEN server.wep[w].owner
                 ELSE st.equipment[e].owner
  IN  IF w \in DOMAIN shots /\ shooter # Nil
      THEN Append(log, [t |-> "WeaponFire", who |-> shooter, wep |-> w, eq |-> e]) ELSE log

OwnerLost(w) == [equipment EXCEPT ![weapons[w]].owner = Nil]

WeaponUpdate(w) ==
  LET owner == server.wep[w].owner
      lost == owner = Nil /\ before.wep[w].owner # Nil
      st == [State EXCEPT !.equipment = IF lost THEN OwnerLost(w) ELSE @]
  IN  /\ Becomes(st) /\ log' = Fired(st, w)
      /\ IF owner \notin {Nil, before.wep[w].owner} THEN OwnerFound(w) ELSE UNCHANGED refund

(* OnDestroy                                                               *)
Refunded_AnyChange(w) == before.wep[w].owner \in Zone /\ refund[w].thisTick

Refunded(w) ==
  LET owner == before.wep[w].owner
  IN  owner \in Zone /\ refund[w].thisTick /\ refund[w].increased

WeaponDestroyed(w) ==
  /\ log' = IF Refunded(w)
            THEN Append(log, [t |-> "ItemRefund", who |-> before.wep[w].owner, wep |-> w,
                              eq |-> weapons[w]]) ELSE log
  /\ equipment' = OwnerLost(w)
  /\ weapons' = [weapons EXCEPT ![w] = NoEquipment]
  /\ refund' = [refund EXCEPT ![w].increased = FALSE]
  /\ UNCHANGED inventory

---------------------------------------------------------------------------
(* Entity updates                                                          *)

PawnComes(p) ==
  /\ inFrame /\ p \in updates /\ updates' = updates \ {p}
  /\ PawnUpdate(p)
  /\ UNCHANGED <<server, before, shots, firsts, inFrame, refund, log>>

Created(w) == server.wep[w].new

WeaponComes(w) ==
  /\ inFrame /\ w \in updates /\ updates' = updates \ {w}
  /\ \/ /\ Created(w)
        /\ BindWeapon(w)
        /\ refund' = [refund EXCEPT ![w] = NewRefund(w)]
        /\ firsts' = firsts \cup {w} /\ UNCHANGED log
     \/ /\ ~Exists(server, w)
        /\ WeaponDestroyed(w) /\ UNCHANGED firsts
     \/ /\ Exists(server, w) /\ ~Created(w)
        /\ WeaponUpdate(w) /\ UNCHANGED firsts
  /\ UNCHANGED <<server, before, shots, inFrame>>

(* The first values of a weapon: its owner                                 *)
FirstValues(w) ==
  /\ inFrame /\ updates = {} /\ w \in firsts /\ firsts' = firsts \ {w}
  /\ IF server.wep[w].owner = Nil
     THEN equipment' = OwnerLost(w) /\ UNCHANGED refund
     ELSE OwnerFound(w) /\ UNCHANGED equipment
  /\ UNCHANGED <<server, before, shots, updates, inFrame, weapons, inventory, log>>

FrameRead == inFrame /\ updates = {} /\ firsts = {}

Aged ==
  [server EXCEPT
     !.wep = [w \in Weps |-> [server.wep[w] EXCEPT !.new = FALSE]],
     !.slots = [p \in Players |-> [k \in DOMAIN server.slots[p] |->
                                     [server.slots[p][k] EXCEPT !.new = FALSE]]]]

(* Nothing of a frame is needed in the next, nor what is not referred to.  *)
EndFrame ==
  /\ FrameRead
  /\ inFrame' = FALSE
  /\ server' = Aged /\ before' = Aged /\ shots' = << >> /\ log' = << >>
  /\ equipment' = [e \in Ids |-> IF e \in Referred(State) THEN equipment[e] ELSE NewEq(EqUnknown)]
  /\ refund' = [w \in Weps |-> IF Exists(server, w) THEN [refund[w] EXCEPT !.thisTick = FALSE, !.increased = FALSE]
                                ELSE NoRefund]
  /\ UNCHANGED <<updates, firsts, weapons, inventory>>

(* m_iAccount of a player: every handler of every weapon, in turn          *)
MoneyUpdate(r, old, new) ==
  LET after[n \in 0 .. Len(r.watched)] ==
        IF n = 0 THEN r
        ELSE LET p == r.watched[n]
                 q == after[n - 1]
             IN  IF new[p] = old[p] THEN q
                 ELSE [q EXCEPT !.thisTick = TRUE, !.increased = new[p] > q.oldOwnerMoney,
                                !.oldOwnerMoney = new[p]]
  IN  after[Len(r.watched)]

---------------------------------------------------------------------------
(* The server (its rules are the game's, not the repository's): a weapon   *)
(* is in the slots of its owner and of nobody else.                        *)

Given(s, p, h) == [s.slots EXCEPT ![p] = Append(@, h)]

Without(s, w) ==
  LET o == s.wep[w].owner
      k == CHOOSE j \in DOMAIN s.slots[o] : s.slots[o][j].idx = w
  IN  IF o = Nil THEN s.slots ELSE [s.slots EXCEPT ![o] = RemoveAt(@, k)]

Bought(s, p, w, t) ==
  [wep   |-> [s.wep EXCEPT ![w] = [type |-> t, owner |-> p, new |-> TRUE, takes |-> 0]],
   slots |-> Given(s, p, [idx |-> w, new |-> TRUE]),
   money |-> [s.money EXCEPT ![p] = @ - 1]]

Buys(s) ==
  UNION {{Bought(s, p, w, t) : t \in Types[w]} :
           p \in {q \in Players : s.money[q] > 0}, w \in {v \in Weps : ~Exists(s, v)}}

Dropped(s, w) == [s EXCEPT !.wep = [@ EXCEPT ![w].owner = Nil], !.slots = Without(s, w)]

Drops(s) == {Dropped(s, w) : w \in {v \in Weps : s.wep[v].owner # Nil}}

Taken(s, p, w) ==
  [s EXCEPT !.wep = [@ EXCEPT ![w].owner = p, ![w].takes = s.wep[w].takes + 1],
            !.slots = Given(s, p, [idx |-> w, new |-> s.wep[w].new])]

Free(s) == {w \in Weps : Exists(s, w) /\ s.wep[w].owner = Nil /\ s.wep[w].takes < MaxTakes}

Takes(s) == {Taken(s, p, w) : p \in Players, w \in Free(s)}

(* A weapon goes; with money for its owner it is a refund.                 *)
Gone(s, w) ==
  [s EXCEPT !.wep = [@ EXCEPT ![w] = NoWeapon], !.slots = Without(s, w)]

Removals(s) == {Gone(s, w) : w \in {v \in Weps : Exists(s, v)}}

Pays(s) == {[s EXCEPT !.money = [s.money EXCEPT ![p] = @ + 1]] : p \in {q \in Players : s.money[q] < MaxMoney}}

Deeds(s) == Buys(s) \cup Drops(s) \cup Takes(s) \cup Removals(s) \cup Pays(s)

(* A frame has no deed, one, or two that concern each other: a weapon is   *)
(* passed on, an entity ID is used again, or money comes with anything.    *)
InOneFrame(s) ==
  {s} \cup Deeds(s) \cup (UNION {Takes(t) : t \in Drops(s)})
     \cup (UNION {Buys(t) : t \in Removals(s)}) \cup (UNION {Deeds(t) : t \in Pays(s)})

(* Who has a weapon may fire it before what else happens in the frame.     *)
Shots(s) ==
  {<< >>} \cup {[v \in {w} |-> s.wep[w].owner] : w \in {v \in Weps : s.wep[v].owner # Nil}}

Frame(new, fired) ==
  /\ ~inFrame /\ inFrame' = TRUE
  /\ server' = new /\ shots' = fired
  /\ updates' = {p \in Players : new.slots[p] # server.slots[p]}
                  \cup {w \in Weps : /\ (Exists(server, w) \/ Exists(new, w))
                                /\ (new.wep[w] # server.wep[w] \/ w \in DOMAIN fired)}
  /\ refund' = [w \in Weps |-> MoneyUpdate(refund[w], server.money, new.money)]
  /\ UNCHANGED <<before, firsts, weapons, equipment, inventory, log>>

Server ==
  \E new \in InOneFrame(server), fired \in Shots(server) : Frame(new, fired)

WeaponsNext ==
  \/ Server
  \/ \E p \in Players : PawnComes(p)
  \/ \E w \in Weps : WeaponComes(w) \/ FirstValues(w)
  \/ EndFrame

WeaponsSpec == WeaponsInit /\ [][WeaponsNext]_weaponsVars

---------------------------------------------------------------------------
(* Properties: when a frame has been read                                  *)

Told(t, w) == {i \in DOMAIN log : log[i].t = t /\ log[i].wep = w}

(* The types                                                               *)
WeaponsTypeOK ==
  /\ weapons \in [Weps -> Ids \cup {NoEquipment}]
  /\ equipment \in [Ids -> [type : AllTypes \cup {EqUnknown}, owner : Players \cup {Nil}]]
  /\ \A p \in Players : inventory[p] \in [DOMAIN inventory[p] -> Ids]
                         /\ DOMAIN inventory[p] \subseteq Weps
  /\ \A w \in Weps : /\ refund[w].oldOwnerMoney \in Nat
                      /\ refund[w].watched \in Seq(Players)

(* A player's inventory has the Equipment of each of their weapons and of  *)
(* no other, with its type and its owner, in whichever order the updates   *)
(* of pawns and weapons came and whatever had the entity ID before.        *)
PossessionFollows ==
  FrameRead =>
    /\ \A p \in Players : DOMAIN inventory[p] = {w \in Weps : server.wep[w].owner = p}
    /\ \A w \in {v \in Weps : Exists(server, v)} :
         LET owner == server.wep[w].owner
         IN  /\ weapons[w] # NoEquipment
             /\ equipment[weapons[w]] = [type |-> server.wep[w].type, owner |-> owner]
             /\ owner # Nil => inventory[owner][w] = weapons[w]

(* A shot is told of once, if its weapon stays with the player who fired   *)
(* it, as fired by them; the weapon is the one in the shooter's inventory. *)
ShotTold ==
  FrameRead =>
    \A w \in Weps :
      LET told == Told("WeaponFire", w)
          kept == w \in DOMAIN shots /\ ~Created(w) /\ server.wep[w].owner = shots[w]
      IN  /\ told # {} => w \in DOMAIN shots
          /\ \A i, j \in told : i = j
          /\ kept => \E i \in told : log[i].who = shots[w] /\ log[i].eq = inventory[shots[w]][w]

(* What the refund detection takes for a refund (datatables.go:899): the   *)
(* weapon of a player in a buy zone goes when they get money.              *)
Refund(w) ==
  LET owner == before.wep[w].owner
  IN  /\ owner \in Zone /\ ~Exists(server, w)
      /\ server.money[owner] > before.money[owner]

(* A refund of a weapon that has had one owner is told of once, as theirs, *)
(* whatever their money did before; and nothing is told to be one that is  *)
(* not the end of the weapon of a player in a buy zone.                    *)
RefundTold ==
  FrameRead =>
    \A w \in Weps :
      LET told == Told("ItemRefund", w)
          owner == before.wep[w].owner
      IN  /\ \A i, j \in told : i = j
          /\ \A i \in told : log[i].who = owner /\ owner \in Zone /\ ~Exists(server, w)
          /\ refund[w].watched = <<owner>> /\ Exists(before, w) => (told # {} <=> Refund(w))

(* Not true of the code.  events/events.go:703 says "ItemRefund signals a  *)
(* player was refunded for an item."                                       *)
EveryRefundTold ==
  FrameRead => \A w \in Weps : Refund(w) => Told("ItemRefund", w) # {}
===============================================================================
