------------------------------ MODULE Bomb_proofs ------------------------------
(***************************************************************************)
(* Proofs about Bomb, for any players, any demos that lack some of them,   *)
(* and either source of events.                                            *)
(***************************************************************************)
EXTENDS Bomb, SequenceTheorems, TLAPS

(* Where a log tells of t; that it does once, of p.                         *)
Places(l, t) == {i \in 1 .. Len(l) : l[i].t = t}
NoneIn(l, t) == Places(l, t) = {}
OnceIn(l, t, p) == \E i \in 1 .. Len(l) : Places(l, t) = {i} /\ l[i].who = p

EventNames == {"bomb_pickup", "bomb_dropped", "bomb_beginplant", "bomb_planted",
               "bomb_begindefuse", "bomb_defused", "bomb_exploded", "target_bombed",
               "player_hurt", "player_falldamage"}
ToldNames == {"BombPickup", "BombDropped", "BombPlantBegin", "BombPlantAborted", "BombPlanted",
              "BombDefuseStart", "BombDefuseAborted", "BombDefused", "BombExplode",
              "EqBomb", "EqWorld"}

TypeInv ==
  /\ mimic \in BOOLEAN /\ hidden \subseteq Players /\ inFrame \in BOOLEAN
  /\ bomb \in Bombs /\ before \in Bombs
  /\ gameState \in [carrier : Players \cup {Nil}, currentPlanter : Players \cup {Nil},
                     currentDefuser : Players \cup {Nil}, isPlanting : SUBSET Players,
                     planter : Players \cup {Nil}]
  /\ frameFacts \in [fell : SUBSET Players, exploded : BOOLEAN, bombed : BOOLEAN]
  /\ events \subseteq [do : EventNames, who : Players \cup {Nil}]
  /\ delayed \in Seq(Players) /\ log \in Seq([t : ToldNames, who : Players \cup {Nil}])
  /\ harm \in Harmed(Causes) /\ heard \in Players \cup {Nil} /\ interrupted \subseteq Players

(* A bomb is carried or planted, by somebody.                               *)
Sane(b) ==
  /\ b.owner # Nil => b.c4
  /\ b.arming => b.owner # Nil
  /\ b.planted # "none" => ~b.c4 /\ b.planter # Nil
  /\ b.planted = "none" => b.defuser = Nil
  /\ b.planted = "defused" => b.defuser = Nil /\ b.over
  /\ b.planted = "exploded" => b.over

(* What may have come of the bomb in the frame.                             *)
Still ==
  /\ bomb.c4 = before.c4 /\ bomb.owner = before.owner /\ bomb.arming = before.arming
  /\ bomb.planted = before.planted /\ bomb.planter = before.planter
  /\ bomb.defuser = before.defuser /\ (before.over => bomb.over)

Carried ==
  /\ before.c4 /\ bomb.c4 /\ before.planted = "none" /\ bomb.planted = "none"
  /\ before.over => bomb.over
  /\ bomb.arming => ~before.arming /\ bomb.owner = before.owner /\ ~bomb.over

Planting ==
  /\ before.arming /\ ~before.over /\ ~bomb.over /\ ~bomb.arming /\ bomb.owner = Nil
  /\ before.planted = "none" /\ bomb.planted = "ticking"
  /\ bomb.planter = before.owner /\ bomb.defuser = Nil

Ticking ==
  /\ before.planted = "ticking" /\ bomb.planted # "none" /\ bomb.planter = before.planter
  /\ ~before.arming /\ ~bomb.arming /\ before.owner = Nil /\ bomb.owner = Nil
  /\ before.over => bomb.over
  /\ bomb.planted = "ticking" => bomb.over = before.over
  /\ bomb.planted = "defused" => before.defuser # Nil /\ bomb.defuser = Nil /\ DOMAIN harm = {}
  /\ bomb.planted = "exploded" => bomb.defuser \in {before.defuser, Nil}

Renewed ==
  /\ before.over /\ bomb.c4 /\ ~bomb.arming /\ bomb.planted = "none" /\ ~bomb.over
  /\ before.planted = "none" \/ before.owner = Nil

(* Which updates and first values tell of it.                               *)
FrameInv ==
  /\ Sane(bomb) /\ Sane(before)
  /\ \/ Still /\ updates \subseteq {"rules"} /\ firsts = {}
     \/ Carried /\ updates \subseteq {"c4", "rules"} /\ firsts = {}
     \/ Planting /\ updates \subseteq {"c4Gone", "plantedNew"} /\ firsts \subseteq {"planted"}
     \/ Ticking /\ updates \subseteq {"planted", "rules"} /\ firsts = {}
     \/ Renewed /\ updates \subseteq {"c4Gone", "plantedGone"} /\ firsts \subseteq {"c4"}
  /\ "rules" \in updates => bomb.over /\ ~before.over
  /\ "planted" \in updates /\ bomb.planted = "ticking" => bomb.defuser # before.defuser
  /\ ~inFrame => events = {} /\ updates = {} /\ firsts = {} /\ delayed = << >>

(* What a game event still to come says of the bomb.                        *)
EventsInv ==
  \A e \in events :
    /\ e.do \notin {"player_hurt", "player_falldamage"} => ~mimic
    /\ e.do \in {"bomb_pickup", "bomb_dropped", "bomb_beginplant", "bomb_planted",
                 "bomb_begindefuse", "bomb_defused", "bomb_exploded"} => e.who # Nil
    /\ e.do = "player_hurt" => e.who \in DOMAIN harm
    /\ e.do = "player_falldamage" => e.who \in DOMAIN harm /\ harm[e.who] = "fall"
    /\ e.do = "bomb_beginplant" => /\ e.who = bomb.owner /\ bomb.arming /\ ~before.arming
                                   /\ "c4" \in updates
    /\ e.do = "bomb_planted" => /\ e.who = bomb.planter /\ Planting /\ "plantedNew" \in updates
    /\ e.do = "bomb_begindefuse" =>
         /\ e.who = bomb.defuser /\ bomb.defuser \notin {before.defuser, Nil}
         /\ Ticking /\ bomb.planted = "ticking" /\ "planted" \in updates
    /\ e.do = "bomb_defused" =>
         e.who = before.defuser /\ Ticking /\ bomb.planted = "defused" /\ "planted" \in updates
    /\ e.do = "bomb_exploded" =>
         e.who = bomb.planter /\ Ticking /\ bomb.planted = "exploded" /\ "planted" \in updates
    /\ e.do = "target_bombed" => bomb.planted = "exploded"

(* The carrier, for the game state and for who follows the events, is the   *)
(* last one until the updates have come.                                    *)
CarrierInv ==
  /\ gameState.carrier = IF "c4" \in updates \/ "plantedNew" \in updates \/ "c4" \in firsts
                         THEN ByPawn(before.owner) ELSE ByPawn(bomb.owner)
  /\ mimic => heard = gameState.carrier

(* So is the defuser, but that a game event may come first; the planter of  *)
(* the planted bomb is known.                                               *)
DefuserInv ==
  /\ "planted" \notin updates /\ "plantedGone" \notin updates /\ bomb.planted # "exploded"
       => gameState.currentDefuser = ByPawn(bomb.defuser)
  /\ mimic /\ "planted" \notin updates /\ "plantedGone" \notin updates
       => gameState.currentDefuser = ByPawn(bomb.defuser)
  /\ "planted" \in updates /\ (mimic \/ (bomb.planted = "ticking" /\ bomb.defuser = Nil))
       => gameState.currentDefuser = ByPawn(before.defuser)
  /\ ~mimic /\ Ticking /\ bomb.planted = "exploded" /\ Ev("bomb_exploded", bomb.planter) \notin events
       => gameState.currentDefuser = Nil
  /\ bomb.planted # "none" /\ "plantedNew" \notin updates
       => gameState.planter = ByPawn(bomb.planter)

(* When the begin and the end of a plant have been handled.                 *)
BeginDone == IF mimic THEN "c4" \notin updates
             ELSE Ev("bomb_beginplant", bomb.owner) \notin events
EndDone == IF mimic THEN "plantedNew" \notin updates
           ELSE Ev("bomb_planted", bomb.planter) \notin events

(* Who plants is known, and nobody else is, but for those that the end of a *)
(* round interrupted.                                                       *)
PlanterInv ==
  /\ mimic => gameState.isPlanting \cap hidden = {}
  /\ \A p \in gameState.isPlanting :
       \/ p \in interrupted
       \/ bomb.arming /\ p = bomb.owner
       \/ before.arming /\ p = before.owner /\ ("c4" \in updates \/ (Planting /\ ~EndDone))
  /\ before.arming /\ ~before.over /\ Named(before.owner) # Nil /\ "c4" \in updates
       => gameState.currentPlanter = before.owner \/ (bomb.over /\ gameState.currentPlanter = Nil)
  /\ bomb.arming /\ ~bomb.over /\ Named(bomb.owner) # Nil /\ (before.arming \/ BeginDone)
       => bomb.owner \in gameState.isPlanting /\ gameState.currentPlanter = bomb.owner
  /\ before.over => gameState.currentPlanter = Nil
  /\ bomb.over /\ "rules" \notin updates => gameState.currentPlanter = Nil
  /\ before.arming /\ bomb.over => before.owner \in interrupted
  /\ before.arming /\ before.over => before.owner \in interrupted
  /\ bomb.arming /\ bomb.over => bomb.owner \in interrupted

(* What has been told of the plant, of the defuse and of the explosion.     *)
PlantLog ==
  /\ IF bomb.arming /\ ~before.arming /\ Named(bomb.owner) # Nil /\ BeginDone
     THEN OnceIn(log, "BombPlantBegin", bomb.owner) ELSE NoneIn(log, "BombPlantBegin")
  /\ IF Planting /\ EndDone
     THEN OnceIn(log, "BombPlanted", Named(bomb.planter)) ELSE NoneIn(log, "BombPlanted")

Aborted == before.arming /\ ~bomb.arming /\ ~Planting

AbortLog ==
  /\ \/ NoneIn(log, "BombPlantAborted")
     \/ /\ Aborted /\ "c4" \notin updates
        /\ \E p \in Players : /\ OnceIn(log, "BombPlantAborted", p)
                              /\ p = before.owner \/ before.owner \in hidden
  /\ Aborted /\ ~bomb.over /\ ~before.over /\ Named(before.owner) # Nil /\ "c4" \notin updates
       => ~NoneIn(log, "BombPlantAborted")

DefuseLog ==
  /\ IF /\ bomb.defuser \notin {before.defuser, Nil}
        /\ IF mimic THEN "planted" \notin updates
           ELSE Ev("bomb_begindefuse", bomb.defuser) \notin events
     THEN OnceIn(log, "BombDefuseStart", Named(bomb.defuser)) ELSE NoneIn(log, "BombDefuseStart")
  /\ IF /\ Ticking /\ bomb.defuser = Nil /\ ByPawn(before.defuser) # Nil
        /\ bomb.planted = "ticking" \/ (bomb.planted = "exploded" /\ mimic)
        /\ "planted" \notin updates
     THEN OnceIn(log, "BombDefuseAborted", before.defuser)
     ELSE NoneIn(log, "BombDefuseAborted")

OutcomeLog ==
  /\ IF /\ Ticking /\ bomb.planted = "defused"
        /\ IF mimic THEN "planted" \notin updates
           ELSE Ev("bomb_defused", before.defuser) \notin events
     THEN OnceIn(log, "BombDefused", Named(before.defuser)) ELSE NoneIn(log, "BombDefused")
  /\ IF IF mimic THEN /\ Ticking /\ bomb.planted # "ticking" /\ ByPawn(before.defuser) = Nil
                      /\ "planted" \notin updates
        ELSE /\ Ticking /\ bomb.planted = "exploded"
             /\ Ev("bomb_exploded", bomb.planter) \notin events
     THEN OnceIn(log, "BombExplode", Named(bomb.planter)) ELSE NoneIn(log, "BombExplode")

(* Who was hurt is about to be told of, once, and how is known.             *)
HurtInv ==
  inFrame =>
    /\ NoneIn(log, "EqBomb") /\ NoneIn(log, "EqWorld")
    /\ \A i, j \in 1 .. Len(delayed) : delayed[i] = delayed[j] => i = j
    /\ \A i \in 1 .. Len(delayed) : /\ delayed[i] \in DOMAIN harm
                                    /\ Ev("player_hurt", delayed[i]) \notin events
    /\ \A p \in DOMAIN harm : \/ Ev("player_hurt", p) \in events
                              \/ \E i \in 1 .. Len(delayed) : delayed[i] = p
    /\ \A p \in DOMAIN harm : harm[p] = "fall" => \/ p \in frameFacts.fell
                                                  \/ Ev("player_falldamage", p) \in events
    /\ \A p \in frameFacts.fell : p \in DOMAIN harm /\ harm[p] = "fall"

FactsInv ==
  /\ ~NoneIn(log, "BombExplode") => frameFacts.exploded
  /\ frameFacts.exploded => bomb.planted = "exploded" \/ DOMAIN harm = {}
  /\ frameFacts.bombed => bomb.planted = "exploded"

IInv ==
  /\ TypeInv /\ FrameInv /\ EventsInv /\ CarrierInv /\ DefuserInv /\ PlanterInv
  /\ PlantLog /\ AbortLog /\ DefuseLog /\ OutcomeLog /\ HurtInv /\ FactsInv /\ DamageTold

-------------------------------------------------------------------------------
(* Logs.                                                                    *)

Maybe == Players \cup {Nil}
LogType == [t : ToldNames, who : Maybe]

(* The log m says of t what l says.                                         *)
Same(l, m, t) ==
  /\ NoneIn(m, t) <=> NoneIn(l, t)
  /\ \A p : OnceIn(m, t, p) <=> OnceIn(l, t, p)

(* The log m says of t, and once of p, if l says nothing of it.             *)
SaysNow(l, m, t, p) == ~NoneIn(m, t) /\ (NoneIn(l, t) => OnceIn(m, t, p))

(* An event appended to a log.                                              *)
LEMMA Appended ==
  ASSUME NEW l \in Seq(LogType), NEW u, NEW p
  PROVE  /\ \A t : t # u => Same(l, Append(l, Event(u, p)), t)
         /\ SaysNow(l, Append(l, Event(u, p)), u, p)
<1> DEFINE e == Event(u, p)
           m == Append(l, e)
           n == Len(l)
<1>1. /\ n \in Nat /\ Len(m) = n + 1 /\ m[n + 1] = e
      /\ \A i \in 1 .. n : m[i] = l[i]
      /\ e.t = u /\ e.who = p
  BY DEF Event
<1> HIDE DEF e, m, n
<1>2. \A t : Places(m, t) = IF t = u THEN Places(l, t) \cup {n + 1} ELSE Places(l, t)
  <2> TAKE t
  <2>1. \A i : i \in 1 .. Len(m) <=> (i \in 1 .. n \/ i = n + 1)
    BY <1>1
  <2> QED
    BY <1>1, <2>1 DEF Places, n
<1>3. ASSUME NEW t, t # u PROVE Same(l, m, t)
  <2>1. Places(m, t) = Places(l, t)
    BY <1>2, <1>3
  <2>2. \A i \in Places(l, t) : i \in 1 .. n /\ i \in 1 .. Len(m)
    BY <1>1 DEF Places, n
  <2>3. ASSUME NEW q PROVE OnceIn(m, t, q) <=> OnceIn(l, t, q)
    BY <1>1, <2>1, <2>2 DEF OnceIn, n
  <2> QED
    BY <2>1, <2>3 DEF Same, NoneIn
<1>4. SaysNow(l, m, u, p)
  <2>1. Places(m, u) = Places(l, u) \cup {n + 1}
    BY <1>2
  <2>2. NoneIn(l, u) => OnceIn(m, u, p)
    BY <1>1, <2>1 DEF NoneIn, OnceIn
  <2> QED
    BY <2>1, <2>2 DEF SaysNow, NoneIn
<1> QED
  BY <1>3, <1>4 DEF m, e

(* What is said once is said; a log says what it says.                      *)
LEMMA OnceSaid == \A l, t, p : OnceIn(l, t, p) => ~NoneIn(l, t)
  BY DEF OnceIn, NoneIn

(* What a log says of everything is what it says.                           *)
LEMMA SameLog == \A l, t : Same(l, l, t)
  BY DEF Same

-------------------------------------------------------------------------------
(* The handlers, from any state.                                            *)

GameStates == [carrier : Maybe, currentPlanter : Maybe, currentDefuser : Maybe,
               isPlanting : SUBSET Players, planter : Maybe]
States == [gs : GameStates, log : Seq(LogType), exploded : BOOLEAN, heard : Maybe]

(* A player whom a handler finds by the pawn.                               *)
LEMMA ByPawnType == \A p : ByPawn(p) \in Maybe /\ (ByPawn(p) # Nil => ByPawn(p) = p /\ p \notin hidden)
  BY BombAssumption DEF ByPawn, Maybe

(* Dispatch, and what depends on mimic.                                     *)
LEMMA DispatchActs ==
  ASSUME NEW st \in States, NEW t \in ToldNames, NEW p \in Maybe
  PROVE  /\ Dispatch(st, t, p) \in States
         /\ Dispatch(st, t, p).gs = st.gs /\ Dispatch(st, t, p).exploded = st.exploded
         /\ Dispatch(st, t, p).log = Append(st.log, Event(t, p))
         /\ Dispatch(st, t, p).heard = IF t = "BombPickup" THEN p
                                       ELSE IF t \in {"BombDropped", "BombPlanted"} THEN Nil
                                       ELSE st.heard
         /\ \A u : u # t => Same(st.log, Dispatch(st, t, p).log, u)
         /\ SaysNow(st.log, Dispatch(st, t, p).log, t, p)
<1> DEFINE h == IF t = "BombPickup" THEN p
                ELSE IF t \in {"BombDropped", "BombPlanted"} THEN Nil ELSE st.heard
           l == Append(st.log, Event(t, p))
<1>1. h \in Maybe
  BY DEF States, Maybe
<1>2. Event(t, p) \in LogType
  BY DEF Event, LogType
<1>3. st.log \in Seq(LogType)
  BY DEF States
<1>4. l \in Seq(LogType)
  BY <1>2, <1>3, AppendProperties
<1>5. Dispatch(st, t, p) = [st EXCEPT !.log = l, !.heard = h]
  BY DEF Dispatch
<1> HIDE DEF h
<1>6. \A u : u # t => Same(st.log, l, u)
  BY <1>3, Appended
<1>7. SaysNow(st.log, l, t, p)
  BY <1>3, Appended
<1> HIDE DEF l
<1> DEFINE d == Dispatch(st, t, p)
<1>8. d = [st EXCEPT !.log = l, !.heard = h]
  BY <1>5
<1> HIDE DEF d
<1>9. d \in States /\ d.gs = st.gs /\ d.exploded = st.exploded /\ d.log = l /\ d.heard = h
  BY <1>1, <1>4, <1>8 DEF States
<1> QED
  BY <1>6, <1>7, <1>9 DEF d, l, h

(* The same if it is dispatched only when game events are mimicked.         *)
LEMMA MimickedActs ==
  ASSUME NEW st \in States, NEW t \in ToldNames, NEW p \in Maybe
  PROVE  /\ Mimicked(st, t, p) \in States
         /\ Mimicked(st, t, p).gs = st.gs /\ Mimicked(st, t, p).exploded = st.exploded
         /\ mimic => /\ Mimicked(st, t, p).heard = IF t = "BombPickup" THEN p
                                         ELSE IF t \in {"BombDropped", "BombPlanted"} THEN Nil
                                         ELSE st.heard
                     /\ SaysNow(st.log, Mimicked(st, t, p).log, t, p)
         /\ ~mimic => Mimicked(st, t, p) = st
         /\ \A u : (u # t \/ ~mimic) => Same(st.log, Mimicked(st, t, p).log, u)
<1>1. CASE mimic
  <2> DEFINE m == Mimicked(st, t, p)
  <2>1. m = Dispatch(st, t, p)
    BY <1>1 DEF Mimicked
  <2> HIDE DEF m
  <2>2. m \in States /\ m.gs = st.gs /\ m.exploded = st.exploded
    BY <2>1, DispatchActs
  <2>3. m.heard = IF t = "BombPickup" THEN p
                  ELSE IF t \in {"BombDropped", "BombPlanted"} THEN Nil ELSE st.heard
    BY <2>1, DispatchActs
  <2>4. SaysNow(st.log, m.log, t, p) /\ \A u : u # t => Same(st.log, m.log, u)
    BY <2>1, DispatchActs
  <2> QED
    BY <1>1, <2>2, <2>3, <2>4 DEF m
<1>2. CASE ~mimic
  BY <1>2, SameLog DEF Mimicked
<1> QED
  BY <1>1, <1>2

(* A field of the game state set.                                           *)
LEMMA SetActs ==
  ASSUME NEW st \in States
  PROVE  /\ \A v \in Maybe :
              /\ Set(st, "carrier", v) = [st EXCEPT !.gs = [st.gs EXCEPT !.carrier = v]]
              /\ Set(st, "currentPlanter", v) = [st EXCEPT !.gs = [st.gs EXCEPT !.currentPlanter = v]]
              /\ Set(st, "currentDefuser", v) = [st EXCEPT !.gs = [st.gs EXCEPT !.currentDefuser = v]]
         /\ \A v \in SUBSET Players :
              Set(st, "isPlanting", v) = [st EXCEPT !.gs = [st.gs EXCEPT !.isPlanting = v]]
  BY DEF Set

(* m_hOwnerEntity of the C4.                                                *)
LEMMA OwnerEntityActs ==
  ASSUME NEW st \in States
  PROVE  /\ OwnerEntity(st) \in States
         /\ OwnerEntity(st).gs = [st.gs EXCEPT !.carrier = ByPawn(bomb.owner)]
         /\ OwnerEntity(st).exploded = st.exploded
         /\ \A t : t \notin {"BombPickup", "BombDropped"} => Same(st.log, OwnerEntity(st).log, t)
         /\ mimic /\ st.heard = st.gs.carrier => OwnerEntity(st).heard = ByPawn(bomb.owner)
<1> DEFINE o == ByPawn(bomb.owner)
           c == st.gs.carrier
           told == IF o # Nil THEN Mimicked(st, "BombPickup", o)
                   ELSE IF c # Nil THEN Mimicked(st, "BombDropped", c)
                   ELSE st
<1>1. o \in Maybe /\ c \in Maybe /\ "BombPickup" \in ToldNames /\ "BombDropped" \in ToldNames
  BY ByPawnType DEF States, GameStates, ToldNames
<1> HIDE DEF o, c
<1>2. /\ told \in States /\ told.gs = st.gs /\ told.exploded = st.exploded
      /\ \A t : t \notin {"BombPickup", "BombDropped"} => Same(st.log, told.log, t)
      /\ mimic /\ st.heard = c => told.heard = o
  <2>1. CASE o # Nil
    <3>1. told = Mimicked(st, "BombPickup", o)
      BY <2>1
    <3> HIDE DEF told
    <3> QED
      BY <1>1, <3>1, MimickedActs
  <2>2. CASE o = Nil /\ c # Nil
    <3>1. told = Mimicked(st, "BombDropped", c)
      BY <2>2
    <3> HIDE DEF told
    <3> QED
      BY <1>1, <2>2, <3>1, MimickedActs
  <2>3. CASE o = Nil /\ c = Nil
    <3>1. told = st
      BY <2>3
    <3> HIDE DEF told
    <3> QED
      BY <1>1, <2>3, <3>1, SameLog
  <2> QED
    BY <2>1, <2>2, <2>3
<1>3. OwnerEntity(st) = Set(told, "carrier", o)
  BY DEF OwnerEntity, o, c
<1> HIDE DEF told
<1>4. OwnerEntity(st) = [told EXCEPT !.gs = [told.gs EXCEPT !.carrier = o]]
  BY <1>1, <1>2, <1>3, SetActs
<1>5. [told.gs EXCEPT !.carrier = o] \in GameStates
  BY <1>1, <1>2 DEF States, GameStates
<1> DEFINE r == OwnerEntity(st)
           g == [told.gs EXCEPT !.carrier = o]
<1>6. r = [told EXCEPT !.gs = g] /\ g \in GameStates
  BY <1>4, <1>5
<1>7. g = [st.gs EXCEPT !.carrier = o]
  BY <1>2
<1> HIDE DEF r, g
<1>8. r \in States /\ r.gs = g /\ r.exploded = told.exploded /\ r.log = told.log /\ r.heard = told.heard
  BY <1>2, <1>6 DEF States
<1> QED
  BY <1>2, <1>7, <1>8 DEF r, o, c

(* Somebody begins to plant.                                                *)
LEMMA BeginsPlantActs ==
  ASSUME NEW st \in States, NEW p \in Players
  PROVE  /\ BeginsPlant(st, p) \in States
         /\ BeginsPlant(st, p).gs = [st.gs EXCEPT !.isPlanting = st.gs.isPlanting \cup {p},
                                                  !.currentPlanter = p]
         /\ BeginsPlant(st, p).log = st.log /\ BeginsPlant(st, p).exploded = st.exploded
         /\ BeginsPlant(st, p).heard = st.heard
<1> DEFINE v == st.gs.isPlanting \cup {p}
           g1 == [st.gs EXCEPT !.isPlanting = v]
           s1 == [st EXCEPT !.gs = g1]
           g2 == [s1.gs EXCEPT !.currentPlanter = p]
           r == BeginsPlant(st, p)
<1>1. v \in SUBSET Players /\ p \in Maybe
  BY DEF States, GameStates, Maybe
<1>2. Set(st, "isPlanting", v) = s1
  BY DEF Set
<1>3. r = Set(Set(st, "isPlanting", v), "currentPlanter", p)
  BY DEF BeginsPlant
<1> HIDE DEF v
<1>4. g1 \in GameStates
  BY <1>1 DEF States, GameStates
<1> HIDE DEF g1
<1>5. s1 \in States /\ s1.gs = g1 /\ s1.log = st.log /\ s1.exploded = st.exploded
      /\ s1.heard = st.heard
  BY <1>4 DEF States
<1> HIDE DEF s1, r
<1>6. r = [s1 EXCEPT !.gs = g2]
  BY <1>1, <1>2, <1>3, <1>5, SetActs
<1>7. g2 \in GameStates
  BY <1>1, <1>4, <1>5 DEF GameStates
<1>8. g2 = [st.gs EXCEPT !.isPlanting = v, !.currentPlanter = p]
  BY <1>4, <1>5 DEF g1, States, GameStates
<1> HIDE DEF g2
<1>9. r \in States /\ r.gs = g2 /\ r.log = s1.log /\ r.exploded = s1.exploded /\ r.heard = s1.heard
  BY <1>5, <1>6, <1>7 DEF States
<1> QED
  BY <1>5, <1>8, <1>9 DEF r, v

(* m_bStartedArming of the C4.                                              *)
LEMMA StartedArmingActs ==
  ASSUME NEW st \in States
  PROVE  /\ StartedArming(st) \in States
         /\ StartedArming(st).exploded = st.exploded /\ StartedArming(st).heard = st.heard
         /\ StartedArming(st).gs.carrier = st.gs.carrier
         /\ StartedArming(st).gs.currentDefuser = st.gs.currentDefuser
         /\ StartedArming(st).gs.planter = st.gs.planter
         /\ StartedArming(st).gs.currentPlanter =
              IF bomb.arming /\ ByPawn(bomb.owner) # Nil THEN ByPawn(bomb.owner)
              ELSE st.gs.currentPlanter
         /\ StartedArming(st).gs.isPlanting =
              IF bomb.arming
              THEN IF ByPawn(bomb.owner) # Nil THEN st.gs.isPlanting \cup {ByPawn(bomb.owner)}
                   ELSE st.gs.isPlanting
              ELSE st.gs.isPlanting \ {st.gs.currentPlanter}
         /\ \A t : t \notin {"BombPlantBegin", "BombPlantAborted"}
                     => Same(st.log, StartedArming(st).log, t)
         /\ IF bomb.arming /\ ByPawn(bomb.owner) # Nil /\ mimic
            THEN SaysNow(st.log, StartedArming(st).log, "BombPlantBegin", ByPawn(bomb.owner))
            ELSE Same(st.log, StartedArming(st).log, "BombPlantBegin")
         /\ IF ~bomb.arming /\ st.gs.currentPlanter # Nil
            THEN SaysNow(st.log, StartedArming(st).log, "BombPlantAborted", st.gs.currentPlanter)
            ELSE Same(st.log, StartedArming(st).log, "BombPlantAborted")
<1> DEFINE o == ByPawn(bomb.owner)
           c == st.gs.currentPlanter
           r == StartedArming(st)
<1>1. o \in Maybe /\ c \in Maybe /\ "BombPlantBegin" \in ToldNames
      /\ "BombPlantAborted" \in ToldNames /\ st.gs \in GameStates
  BY ByPawnType DEF States, GameStates, ToldNames
<1>2. r = IF bomb.arming
          THEN IF o = Nil THEN st ELSE Mimicked(BeginsPlant(st, o), "BombPlantBegin", o)
          ELSE IF c # Nil
          THEN Dispatch(Set(st, "isPlanting", st.gs.isPlanting \ {c}), "BombPlantAborted", c)
          ELSE st
  BY DEF StartedArming
<1>3. CASE bomb.arming /\ o # Nil
  <2> DEFINE b == BeginsPlant(st, o)
  <2>1. o \in Players
    BY <1>1, <1>3 DEF Maybe
  <2> HIDE DEF o, c, r
  <2>2. r = Mimicked(b, "BombPlantBegin", o)
    BY <1>2, <1>3
  <2>3. b \in States /\ b.gs = [st.gs EXCEPT !.isPlanting = st.gs.isPlanting \cup {o},
                                              !.currentPlanter = o]
        /\ b.log = st.log /\ b.exploded = st.exploded /\ b.heard = st.heard
    BY <2>1, BeginsPlantActs
  <2> HIDE DEF b
  <2>4. /\ r \in States /\ r.gs = b.gs /\ r.exploded = b.exploded
        /\ mimic => SaysNow(b.log, r.log, "BombPlantBegin", o)
        /\ \A u : (u # "BombPlantBegin" \/ ~mimic) => Same(b.log, r.log, u)
    BY ZenonT(60), <1>1, <2>2, <2>3, MimickedActs
  <2>5. r.heard = b.heard
    <3>1. CASE mimic
      BY <1>1, <2>2, <2>3, <3>1, MimickedActs
    <3>2. CASE ~mimic
      BY <1>1, <2>2, <2>3, <3>2, MimickedActs
    <3> QED
      BY <3>1, <3>2
  <2>6. /\ r.gs.carrier = st.gs.carrier /\ r.gs.currentDefuser = st.gs.currentDefuser
        /\ r.gs.planter = st.gs.planter /\ r.gs.currentPlanter = o
        /\ r.gs.isPlanting = st.gs.isPlanting \cup {o}
    BY <1>1, <2>3, <2>4 DEF GameStates
  <2> QED
    BY <1>3, <2>3, <2>4, <2>5, <2>6 DEF o, c, r
<1>4. CASE ~bomb.arming /\ c # Nil
  <2> DEFINE v == st.gs.isPlanting \ {c}
             g == [st.gs EXCEPT !.isPlanting = v]
             b == [st EXCEPT !.gs = g]
  <2> HIDE DEF o, c, r
  <2>1. v \in SUBSET Players
    BY <1>1 DEF GameStates
  <2>2. Set(st, "isPlanting", v) = b
    BY DEF Set
  <2>3. r = Dispatch(b, "BombPlantAborted", c)
    BY <1>2, <1>4, <2>2
  <2> HIDE DEF v
  <2>4. g \in GameStates /\ g.carrier = st.gs.carrier /\ g.currentDefuser = st.gs.currentDefuser
        /\ g.planter = st.gs.planter /\ g.currentPlanter = st.gs.currentPlanter /\ g.isPlanting = v
    BY <1>1, <2>1 DEF GameStates
  <2> HIDE DEF g
  <2>5. b \in States /\ b.gs = g /\ b.log = st.log /\ b.exploded = st.exploded /\ b.heard = st.heard
    BY <2>4 DEF States
  <2> HIDE DEF b
  <2>6. /\ r \in States /\ r.gs = b.gs /\ r.exploded = b.exploded /\ r.heard = b.heard
        /\ SaysNow(b.log, r.log, "BombPlantAborted", c)
        /\ \A u : u # "BombPlantAborted" => Same(b.log, r.log, u)
    BY ZenonT(60), <1>1, <2>3, <2>5, DispatchActs
  <2> QED
    BY <1>4, <2>4, <2>5, <2>6 DEF o, c, r, v
<1>5. CASE (bomb.arming /\ o = Nil) \/ (~bomb.arming /\ c = Nil)
  <2>1. r = st
    BY <1>2, <1>5
  <2>2. ~bomb.arming => st.gs.isPlanting \ {c} = st.gs.isPlanting
    BY <1>1, <1>5, BombAssumption DEF GameStates
  <2> HIDE DEF o, c, r
  <2> QED
    BY <1>5, <2>1, <2>2, SameLog DEF o, c, r
<1> QED
  BY <1>3, <1>4, <1>5

(* Logs made one after the other.                                           *)
LEMMA Composed ==
  \A l, m, n, t :
    /\ Same(l, m, t) /\ Same(m, n, t) => Same(l, n, t)
    /\ \A p : Same(l, m, t) /\ SaysNow(m, n, t, p) => SaysNow(l, n, t, p)
    /\ \A p : SaysNow(l, m, t, p) /\ Same(m, n, t) => SaysNow(l, n, t, p)
  BY DEF Same, SaysNow

(* What the handlers of the C4's owner and of its arming, if both or one of *)
(* them run, make of a state.                                               *)
C4Acts(st, r, own, arm) ==
  LET o == ByPawn(bomb.owner)
      c == st.gs.currentPlanter
  IN  /\ r \in States /\ r.exploded = st.exploded
      /\ r.gs.carrier = IF own THEN o ELSE st.gs.carrier
      /\ r.gs.currentDefuser = st.gs.currentDefuser /\ r.gs.planter = st.gs.planter
      /\ r.gs.currentPlanter = IF arm /\ bomb.arming /\ o # Nil THEN o ELSE c
      /\ r.gs.isPlanting = IF ~arm THEN st.gs.isPlanting
                           ELSE IF ~bomb.arming THEN st.gs.isPlanting \ {c}
                           ELSE IF o # Nil THEN st.gs.isPlanting \cup {o} ELSE st.gs.isPlanting
      /\ mimic /\ st.heard = st.gs.carrier => r.heard = r.gs.carrier
      /\ \A t : t \notin {"BombPickup", "BombDropped", "BombPlantBegin", "BombPlantAborted"}
                  => Same(st.log, r.log, t)
      /\ IF arm /\ bomb.arming /\ o # Nil /\ mimic
         THEN SaysNow(st.log, r.log, "BombPlantBegin", o)
         ELSE Same(st.log, r.log, "BombPlantBegin")
      /\ IF arm /\ ~bomb.arming /\ c # Nil
         THEN SaysNow(st.log, r.log, "BombPlantAborted", c)
         ELSE Same(st.log, r.log, "BombPlantAborted")

(* They do that, the owner's first, whichever of them run.                  *)
LEMMA OwnedAndArmed ==
  ASSUME NEW st \in States, NEW own \in BOOLEAN, NEW arm \in BOOLEAN,
         NEW m, m = IF own THEN OwnerEntity(st) ELSE st,
         NEW r, r = IF arm THEN StartedArming(m) ELSE m
  PROVE  C4Acts(st, r, own, arm)
<1> DEFINE o == ByPawn(bomb.owner)
           c == st.gs.currentPlanter
<1>1. st.gs \in GameStates
  BY DEF States
<1>2. /\ m \in States /\ m.exploded = st.exploded
      /\ m.gs.carrier = IF own THEN o ELSE st.gs.carrier
      /\ m.gs.currentDefuser = st.gs.currentDefuser /\ m.gs.planter = st.gs.planter
      /\ m.gs.currentPlanter = c /\ m.gs.isPlanting = st.gs.isPlanting
  <2>1. CASE own
    <3>1. m = OwnerEntity(st)
      BY <2>1
    <3>2. m \in States /\ m.exploded = st.exploded /\ m.gs = [st.gs EXCEPT !.carrier = o]
      BY <3>1, OwnerEntityActs
    <3> HIDE DEF o
    <3> QED
      BY <1>1, <2>1, <3>2 DEF GameStates
  <2>2. CASE ~own
    BY <2>2
  <2> QED
    BY <2>1, <2>2
<1>3. mimic /\ st.heard = st.gs.carrier => m.heard = m.gs.carrier
  <2>1. CASE own
    <3>1. m = OwnerEntity(st)
      BY <2>1
    <3> QED
      BY <1>2, <2>1, <3>1, OwnerEntityActs
  <2>2. CASE ~own
    BY <2>2
  <2> QED
    BY <2>1, <2>2
<1>4. \A t : t \notin {"BombPickup", "BombDropped"} => Same(st.log, m.log, t)
  BY OwnerEntityActs, SameLog
<1>5. CASE ~arm
  <2>1. r = m
    BY <1>5
  <2> QED
    BY <1>2, <1>3, <1>4, <1>5, <2>1 DEF C4Acts
<1>6. CASE arm
  <2>1. r = StartedArming(m)
    BY <1>6
  <2>0. m \in States
    BY <1>2
  <2>2. /\ r \in States /\ r.exploded = m.exploded /\ r.heard = m.heard
        /\ r.gs.carrier = m.gs.carrier
        /\ r.gs.currentDefuser = m.gs.currentDefuser
        /\ r.gs.planter = m.gs.planter
    BY ZenonT(60), <2>0, <2>1, StartedArmingActs
  <2>3. /\ r.gs.currentPlanter = IF bomb.arming /\ o # Nil THEN o ELSE c
        /\ r.gs.isPlanting = IF ~bomb.arming THEN st.gs.isPlanting \ {c}
                             ELSE IF o # Nil THEN st.gs.isPlanting \cup {o} ELSE st.gs.isPlanting
    <3>1. r.gs.currentPlanter = IF bomb.arming /\ o # Nil THEN o ELSE m.gs.currentPlanter
      BY ZenonT(60), <2>0, <2>1, StartedArmingActs
    <3>2. r.gs.isPlanting = IF bomb.arming
                            THEN IF o # Nil THEN m.gs.isPlanting \cup {o} ELSE m.gs.isPlanting
                            ELSE m.gs.isPlanting \ {m.gs.currentPlanter}
      BY ZenonT(60), <2>0, <2>1, StartedArmingActs
    <3>3. m.gs.currentPlanter = c /\ m.gs.isPlanting = st.gs.isPlanting
      BY <1>2
    <3> HIDE DEF o, c
    <3> QED
      BY <3>1, <3>2, <3>3
  <2>4. \A t : t \notin {"BombPickup", "BombDropped", "BombPlantBegin", "BombPlantAborted"}
                  => Same(st.log, r.log, t)
    <3>1. \A t : t \notin {"BombPlantBegin", "BombPlantAborted"} => Same(m.log, r.log, t)
      BY <1>2, <2>1, StartedArmingActs
    <3> QED
      BY <1>4, <3>1, Composed
  <2>5. IF bomb.arming /\ o # Nil /\ mimic
        THEN SaysNow(st.log, r.log, "BombPlantBegin", o)
        ELSE Same(st.log, r.log, "BombPlantBegin")
    <3>1. IF bomb.arming /\ o # Nil /\ mimic
          THEN SaysNow(m.log, r.log, "BombPlantBegin", o)
          ELSE Same(m.log, r.log, "BombPlantBegin")
      BY <1>2, <2>1, StartedArmingActs
    <3> QED
      BY <1>4, <3>1, Composed
  <2>6. IF ~bomb.arming /\ c # Nil
        THEN SaysNow(st.log, r.log, "BombPlantAborted", c)
        ELSE Same(st.log, r.log, "BombPlantAborted")
    <3>1. IF ~bomb.arming /\ c # Nil
          THEN SaysNow(m.log, r.log, "BombPlantAborted", c)
          ELSE Same(m.log, r.log, "BombPlantAborted")
      BY <1>2, <2>1, StartedArmingActs
    <3> QED
      BY <1>4, <3>1, Composed
  <2> QED
    BY <1>2, <1>3, <1>6, <2>2, <2>3, <2>4, <2>5, <2>6 DEF C4Acts
<1> QED
  BY <1>5, <1>6

(* An update of the C4 runs those of the fields it changes,                 *)
LEMMA C4UpdateActs ==
  ASSUME TypeInv, NEW st \in States
  PROVE  C4Acts(st, C4Update(st), bomb.owner # before.owner, bomb.arming # before.arming)
<1> DEFINE own == bomb.owner # before.owner
           arm == bomb.arming # before.arming
           m == IF own THEN OwnerEntity(st) ELSE st
<1>1. C4Update(st) = IF arm THEN StartedArming(m) ELSE m
  BY DEF C4Update
<1>2. own \in BOOLEAN /\ arm \in BOOLEAN
  OBVIOUS
<1> QED
  BY <1>1, <1>2, OwnedAndArmed

(* and its first values run both, the arming's first.                       *)
LEMMA C4FirstActs ==
  ASSUME NEW st \in States
  PROVE  C4Acts(st, C4First(st), TRUE, TRUE)
<1> DEFINE o == ByPawn(bomb.owner)
           c == st.gs.currentPlanter
           m == StartedArming(st)
           r == OwnerEntity(m)
<1>1. C4First(st) = r
  BY DEF C4First
<1>2. /\ m \in States /\ m.exploded = st.exploded /\ m.heard = st.heard
      /\ m.gs.carrier = st.gs.carrier /\ m.gs.currentDefuser = st.gs.currentDefuser
      /\ m.gs.planter = st.gs.planter
      /\ m.gs.currentPlanter = IF bomb.arming /\ o # Nil THEN o ELSE c
      /\ m.gs.isPlanting = IF bomb.arming
                          THEN IF o # Nil THEN st.gs.isPlanting \cup {o} ELSE st.gs.isPlanting
                          ELSE st.gs.isPlanting \ {c}
  BY ZenonT(60), StartedArmingActs
<1>3. /\ \A t : t \notin {"BombPlantBegin", "BombPlantAborted"} => Same(st.log, m.log, t)
      /\ IF bomb.arming /\ o # Nil /\ mimic
         THEN SaysNow(st.log, m.log, "BombPlantBegin", o)
         ELSE Same(st.log, m.log, "BombPlantBegin")
      /\ IF ~bomb.arming /\ c # Nil
         THEN SaysNow(st.log, m.log, "BombPlantAborted", c)
         ELSE Same(st.log, m.log, "BombPlantAborted")
  BY ZenonT(60), StartedArmingActs
<1> HIDE DEF m
<1>4. /\ r \in States /\ r.gs = [m.gs EXCEPT !.carrier = o] /\ r.exploded = m.exploded
      /\ \A t : t \notin {"BombPickup", "BombDropped"} => Same(m.log, r.log, t)
      /\ mimic /\ m.heard = m.gs.carrier => r.heard = o
  BY <1>2, OwnerEntityActs
<1> HIDE DEF r, o, c
<1>5. /\ r.gs.carrier = o /\ r.gs.currentDefuser = m.gs.currentDefuser
      /\ r.gs.planter = m.gs.planter /\ r.gs.currentPlanter = m.gs.currentPlanter
      /\ r.gs.isPlanting = m.gs.isPlanting
  <2>1. m.gs \in GameStates
    BY <1>2 DEF States
  <2> QED BY <1>4, <2>1 DEF GameStates
<1>6. \A t : t \notin {"BombPickup", "BombDropped", "BombPlantBegin", "BombPlantAborted"}
                => Same(st.log, r.log, t)
  BY <1>3, <1>4, Composed
<1>7. IF bomb.arming /\ o # Nil /\ mimic
      THEN SaysNow(st.log, r.log, "BombPlantBegin", o)
      ELSE Same(st.log, r.log, "BombPlantBegin")
  BY <1>3, <1>4, Composed
<1>8. IF ~bomb.arming /\ c # Nil
      THEN SaysNow(st.log, r.log, "BombPlantAborted", c)
      ELSE Same(st.log, r.log, "BombPlantAborted")
  BY <1>3, <1>4, Composed
<1> QED
  BY <1>1, <1>2, <1>4, <1>5, <1>6, <1>7, <1>8 DEF C4Acts, o, c

(* The planted bomb is created.                                             *)
LEMMA PlantedCreatedActs ==
  ASSUME NEW st \in States
  PROVE  LET r == PlantedCreated(st)
             p == ByPawn(bomb.planter)
         IN  /\ r \in States /\ r.exploded = st.exploded
             /\ r.gs.carrier = Nil /\ r.gs.currentPlanter = Nil /\ r.gs.planter = p
             /\ r.gs.currentDefuser = st.gs.currentDefuser
             /\ r.gs.isPlanting = st.gs.isPlanting \ {p}
             /\ mimic => r.heard = Nil /\ SaysNow(st.log, r.log, "BombPlanted", p)
             /\ \A t : (t # "BombPlanted" \/ ~mimic) => Same(st.log, r.log, t)
<1> DEFINE p == ByPawn(bomb.planter)
           g == [st.gs EXCEPT !.carrier = Nil, !.currentPlanter = Nil, !.planter = p,
                              !.isPlanting = st.gs.isPlanting \ {p}]
           b == [st EXCEPT !.gs = g]
           r == PlantedCreated(st)
<1>1. p \in Maybe /\ Nil \in Maybe /\ st.gs \in GameStates /\ "BombPlanted" \in ToldNames
  BY ByPawnType DEF States, Maybe, ToldNames
<1>2. r = Mimicked(b, "BombPlanted", p)
  BY DEF PlantedCreated
<1> HIDE DEF p, r
<1>3. g \in GameStates /\ g.carrier = Nil /\ g.currentPlanter = Nil /\ g.planter = p
      /\ g.currentDefuser = st.gs.currentDefuser /\ g.isPlanting = st.gs.isPlanting \ {p}
  BY <1>1 DEF GameStates
<1> HIDE DEF g
<1>4. b \in States /\ b.gs = g /\ b.log = st.log /\ b.exploded = st.exploded /\ b.heard = st.heard
  BY <1>3 DEF States
<1> HIDE DEF b
<1>5. /\ r \in States /\ r.gs = b.gs /\ r.exploded = b.exploded
      /\ mimic => r.heard = Nil /\ SaysNow(b.log, r.log, "BombPlanted", p)
      /\ \A t : (t # "BombPlanted" \/ ~mimic) => Same(b.log, r.log, t)
  BY <1>1, <1>2, <1>4, MimickedActs
<1> QED
  BY <1>3, <1>4, <1>5 DEF p, r

(* m_bBombTicking, m_bBombDefused and m_hBombDefuser of the planted bomb.   *)
LEMMA BombTickingActs ==
  ASSUME NEW st \in States
  PROVE  LET r == BombTicking(st)
             c == st.gs.currentDefuser
         IN  /\ r \in States /\ r.gs = st.gs /\ r.heard = st.heard
             /\ r.exploded = IF c = Nil /\ mimic THEN TRUE ELSE st.exploded
             /\ \A t : t # "BombExplode" => Same(st.log, r.log, t)
             /\ IF c = Nil /\ mimic THEN SaysNow(st.log, r.log, "BombExplode", st.gs.planter)
                ELSE Same(st.log, r.log, "BombExplode")
<1> DEFINE c == st.gs.currentDefuser
           q == st.gs.planter
           b == [st EXCEPT !.exploded = TRUE]
           r == BombTicking(st)
<1>1. q \in Maybe /\ "BombExplode" \in ToldNames
  BY DEF States, GameStates, ToldNames
<1>2. b \in States /\ b.gs = st.gs /\ b.log = st.log /\ b.heard = st.heard /\ b.exploded = TRUE
  BY DEF States
<1>3. CASE c = Nil /\ mimic
  <2>1. r = Dispatch(b, "BombExplode", q)
    BY <1>3 DEF BombTicking, IsDefuseEvent
  <2> HIDE DEF b, c, q, r
  <2>2. /\ r \in States /\ r.gs = b.gs /\ r.exploded = b.exploded /\ r.heard = b.heard
        /\ SaysNow(b.log, r.log, "BombExplode", q)
        /\ \A u : u # "BombExplode" => Same(b.log, r.log, u)
    BY <1>1, <1>2, <2>1, DispatchActs
  <2> QED
    BY <1>2, <1>3, <2>2 DEF c, q, r
<1>4. CASE ~(c = Nil /\ mimic)
  <2>1. r = st
    BY <1>4 DEF BombTicking, IsDefuseEvent
  <2> HIDE DEF r
  <2> QED
    BY <1>4, <2>1, SameLog DEF r
<1> QED
  BY <1>3, <1>4

(* m_bBombDefused: the defuse is told of, if events are mimicked.           *)
LEMMA BombDefusedActs ==
  ASSUME NEW st \in States
  PROVE  LET r == BombDefused(st)
         IN  /\ r \in States /\ r.gs = st.gs /\ r.heard = st.heard /\ r.exploded = st.exploded
             /\ \A t : t # "BombDefused" => Same(st.log, r.log, t)
             /\ IF mimic THEN SaysNow(st.log, r.log, "BombDefused", ByPawn(before.defuser))
                ELSE Same(st.log, r.log, "BombDefused")
<1> DEFINE d == ByPawn(before.defuser)
           r == BombDefused(st)
<1>1. d \in Maybe /\ "BombDefused" \in ToldNames
  BY ByPawnType DEF ToldNames
<1>2. r = Mimicked(st, "BombDefused", d)
  BY DEF BombDefused
<1> HIDE DEF d, r
<1>3. /\ r \in States /\ r.gs = st.gs /\ r.exploded = st.exploded
      /\ mimic => SaysNow(st.log, r.log, "BombDefused", d) /\ r.heard = st.heard
      /\ ~mimic => r = st
      /\ \A u : (u # "BombDefused" \/ ~mimic) => Same(st.log, r.log, u)
  BY <1>1, <1>2, MimickedActs
<1> QED
  BY <1>3 DEF d, r

(* m_hBombDefuser: a start or an abort of a defuse is told of.              *)
LEMMA BombDefuserActs ==
  ASSUME NEW st \in States
  PROVE  LET r == BombDefuser(st)
             c == st.gs.currentDefuser
             d == ByPawn(bomb.defuser)
         IN  /\ r \in States /\ r.gs = [st.gs EXCEPT !.currentDefuser = d]
             /\ r.heard = st.heard /\ r.exploded = st.exploded
             /\ \A t : t \notin {"BombDefuseStart", "BombDefuseAborted"} => Same(st.log, r.log, t)
             /\ IF bomb.defuser # Nil /\ mimic THEN SaysNow(st.log, r.log, "BombDefuseStart", d)
                ELSE Same(st.log, r.log, "BombDefuseStart")
             /\ IF bomb.defuser = Nil /\ bomb.planted # "defused" /\ c # Nil
                THEN SaysNow(st.log, r.log, "BombDefuseAborted", c)
                ELSE Same(st.log, r.log, "BombDefuseAborted")
<1> DEFINE d == ByPawn(bomb.defuser)
           c == st.gs.currentDefuser
           told == IF bomb.defuser # Nil THEN Mimicked(st, "BombDefuseStart", d)
                   ELSE IF bomb.planted # "defused" /\ c # Nil
                   THEN Dispatch(st, "BombDefuseAborted", c) ELSE st
           r == BombDefuser(st)
           g == [st.gs EXCEPT !.currentDefuser = d]
           starts == bomb.defuser # Nil
           aborts == bomb.planted # "defused" /\ c # Nil
<1>1. d \in Maybe /\ c \in Maybe /\ "BombDefuseStart" \in ToldNames
      /\ "BombDefuseAborted" \in ToldNames /\ st.gs \in GameStates
  BY ByPawnType DEF States, GameStates, ToldNames
<1>2. r = Set(told, "currentDefuser", d)
  BY DEF BombDefuser
<1>3. starts \in BOOLEAN /\ aborts \in BOOLEAN
  OBVIOUS
<1> HIDE DEF c, d, r, g, starts, aborts
<1>4. /\ told \in States /\ told.gs = st.gs /\ told.heard = st.heard /\ told.exploded = st.exploded
      /\ \A t : t \notin {"BombDefuseStart", "BombDefuseAborted"} => Same(st.log, told.log, t)
      /\ IF starts /\ mimic THEN SaysNow(st.log, told.log, "BombDefuseStart", d)
         ELSE Same(st.log, told.log, "BombDefuseStart")
      /\ IF ~starts /\ aborts THEN SaysNow(st.log, told.log, "BombDefuseAborted", c)
         ELSE Same(st.log, told.log, "BombDefuseAborted")
  <2>1. CASE starts /\ mimic
    <3>1. told = Dispatch(st, "BombDefuseStart", d)
      BY <2>1 DEF starts, Mimicked
    <3> HIDE DEF told
    <3>2. /\ told \in States /\ told.gs = st.gs /\ told.heard = st.heard
          /\ told.exploded = st.exploded
          /\ SaysNow(st.log, told.log, "BombDefuseStart", d)
          /\ \A u : u # "BombDefuseStart" => Same(st.log, told.log, u)
      BY ZenonT(60), <1>1, <3>1, DispatchActs
    <3> QED
      BY <2>1, <3>2
  <2>2. CASE starts /\ ~mimic
    <3>1. told = st
      BY <2>2 DEF starts, Mimicked
    <3> HIDE DEF told
    <3> QED
      BY <2>2, <3>1, SameLog
  <2>3. CASE ~starts /\ aborts
    <3>1. told = Dispatch(st, "BombDefuseAborted", c)
      BY <2>3 DEF starts, aborts
    <3> HIDE DEF told
    <3>2. /\ told \in States /\ told.gs = st.gs /\ told.heard = st.heard
          /\ told.exploded = st.exploded
          /\ SaysNow(st.log, told.log, "BombDefuseAborted", c)
          /\ \A u : u # "BombDefuseAborted" => Same(st.log, told.log, u)
      BY ZenonT(60), <1>1, <3>1, DispatchActs
    <3> QED
      BY <2>3, <3>2
  <2>4. CASE ~starts /\ ~aborts
    <3>1. told = st
      BY <2>4 DEF starts, aborts
    <3> HIDE DEF told
    <3> QED
      BY <2>4, <3>1, SameLog
  <2> QED
    BY <1>3, <2>1, <2>2, <2>3, <2>4
<1> HIDE DEF told
<1>5. r = [told EXCEPT !.gs = g]
  BY <1>1, <1>2, <1>4, SetActs DEF g
<1>6. g \in GameStates
  BY <1>1 DEF g, GameStates
<1>7. r \in States /\ r.gs = g /\ r.log = told.log /\ r.heard = told.heard
      /\ r.exploded = told.exploded
  BY <1>4, <1>5, <1>6 DEF States
<1> QED
  BY <1>4, <1>7 DEF r, c, d, g, starts, aborts

(* What the handlers of the planted bomb, those of them that run, make of a *)
(* state.                                                                   *)
PlantedActs(st, r, stop, chg) ==
  LET c == st.gs.currentDefuser
      d == ByPawn(bomb.defuser)
      defused == stop /\ bomb.planted = "defused"
  IN  /\ r \in States /\ r.heard = st.heard
      /\ r.exploded = IF stop /\ c = Nil /\ mimic THEN TRUE ELSE st.exploded
      /\ r.gs.currentDefuser = IF chg THEN d ELSE c
      /\ r.gs.carrier = st.gs.carrier /\ r.gs.currentPlanter = st.gs.currentPlanter
      /\ r.gs.isPlanting = st.gs.isPlanting /\ r.gs.planter = st.gs.planter
      /\ \A t : t \notin {"BombDefuseStart", "BombDefuseAborted", "BombDefused", "BombExplode"}
                  => Same(st.log, r.log, t)
      /\ IF stop /\ c = Nil /\ mimic THEN SaysNow(st.log, r.log, "BombExplode", st.gs.planter)
         ELSE Same(st.log, r.log, "BombExplode")
      /\ IF defused /\ mimic THEN SaysNow(st.log, r.log, "BombDefused", ByPawn(before.defuser))
         ELSE Same(st.log, r.log, "BombDefused")
      /\ IF chg /\ bomb.defuser # Nil /\ mimic THEN SaysNow(st.log, r.log, "BombDefuseStart", d)
         ELSE Same(st.log, r.log, "BombDefuseStart")
      /\ IF chg /\ bomb.defuser = Nil /\ bomb.planted # "defused" /\ c # Nil
         THEN SaysNow(st.log, r.log, "BombDefuseAborted", c)
         ELSE Same(st.log, r.log, "BombDefuseAborted")

(* The first values of a planted bomb say who defuses it.                   *)
LEMMA PlantedFirstActs ==
  ASSUME NEW st \in States
  PROVE  PlantedActs(st, PlantedFirst(st), FALSE, TRUE)
<1> DEFINE r == PlantedFirst(st)
           d == ByPawn(bomb.defuser)
           c == st.gs.currentDefuser
<1>1. r = BombDefuser(st)
  BY DEF PlantedFirst
<1> HIDE DEF r
<1>2. r \in States /\ r.gs = [st.gs EXCEPT !.currentDefuser = d]
      /\ r.heard = st.heard /\ r.exploded = st.exploded
  BY <1>1, BombDefuserActs
<1>3. /\ \A t : t \notin {"BombDefuseStart", "BombDefuseAborted"} => Same(st.log, r.log, t)
      /\ IF bomb.defuser # Nil /\ mimic THEN SaysNow(st.log, r.log, "BombDefuseStart", d)
         ELSE Same(st.log, r.log, "BombDefuseStart")
      /\ IF bomb.defuser = Nil /\ bomb.planted # "defused" /\ c # Nil
         THEN SaysNow(st.log, r.log, "BombDefuseAborted", c)
         ELSE Same(st.log, r.log, "BombDefuseAborted")
  BY <1>1, BombDefuserActs
<1> HIDE DEF c, d
<1>4. /\ r.gs.currentDefuser = d /\ r.gs.carrier = st.gs.carrier
      /\ r.gs.currentPlanter = st.gs.currentPlanter /\ r.gs.isPlanting = st.gs.isPlanting
      /\ r.gs.planter = st.gs.planter
  BY <1>2 DEF States, GameStates
<1> QED
  BY <1>2, <1>3, <1>4 DEF PlantedActs, c, d, r

(* An update of the planted bomb ends it before its defuser is reset.       *)
LEMMA PlantedUpdateActs ==
  ASSUME NEW st \in States
  PROVE  PlantedActs(st, PlantedUpdate(st), bomb.planted # "ticking", bomb.defuser # before.defuser)
<1> DEFINE stop == bomb.planted # "ticking"
           def == bomb.planted = "defused"
           chg == bomb.defuser # before.defuser
           s == IF stop THEN BombTicking(st) ELSE st
           f == IF def THEN BombDefused(s) ELSE s
           r == PlantedUpdate(st)
           c == st.gs.currentDefuser
           d == ByPawn(bomb.defuser)
           bd == ByPawn(before.defuser)
<1>1. r = IF chg THEN BombDefuser(f) ELSE f
  BY DEF PlantedUpdate
<1>2. stop \in BOOLEAN /\ def \in BOOLEAN /\ chg \in BOOLEAN /\ (def => stop)
  OBVIOUS
<1> HIDE DEF r, c, d, bd
<1>3. /\ s \in States /\ s.gs = st.gs /\ s.heard = st.heard
      /\ s.exploded = IF stop /\ c = Nil /\ mimic THEN TRUE ELSE st.exploded
      /\ \A t : t # "BombExplode" => Same(st.log, s.log, t)
      /\ IF stop /\ c = Nil /\ mimic THEN SaysNow(st.log, s.log, "BombExplode", st.gs.planter)
         ELSE Same(st.log, s.log, "BombExplode")
  <2>1. CASE stop
    <3>1. s = BombTicking(st)
      BY <2>1
    <3> HIDE DEF s, stop
    <3> QED
      BY <2>1, <3>1, BombTickingActs DEF c
  <2>2. CASE ~stop
    <3>1. s = st
      BY <2>2
    <3> HIDE DEF s, stop
    <3> QED
      BY <2>2, <3>1, SameLog
  <2> QED
    BY <2>1, <2>2
<1> HIDE DEF s
<1>4. /\ f \in States /\ f.gs = st.gs /\ f.heard = st.heard /\ f.exploded = s.exploded
      /\ \A t : t # "BombDefused" => Same(s.log, f.log, t)
      /\ IF def /\ mimic THEN SaysNow(s.log, f.log, "BombDefused", bd)
         ELSE Same(s.log, f.log, "BombDefused")
  <2>1. CASE def
    <3>1. f = BombDefused(s)
      BY <2>1
    <3> HIDE DEF f, def
    <3> QED
      BY <1>3, <2>1, <3>1, BombDefusedActs DEF bd
  <2>2. CASE ~def
    <3>1. f = s
      BY <2>2
    <3> HIDE DEF f, def
    <3> QED
      BY <1>3, <2>2, <3>1, SameLog
  <2> QED
    BY <2>1, <2>2
<1> HIDE DEF f
<1>5. /\ r \in States /\ r.heard = st.heard /\ r.exploded = s.exploded
      /\ r.gs = IF chg THEN [st.gs EXCEPT !.currentDefuser = d] ELSE st.gs
      /\ \A t : t \notin {"BombDefuseStart", "BombDefuseAborted"} => Same(f.log, r.log, t)
      /\ IF chg /\ bomb.defuser # Nil /\ mimic THEN SaysNow(f.log, r.log, "BombDefuseStart", d)
         ELSE Same(f.log, r.log, "BombDefuseStart")
      /\ IF chg /\ bomb.defuser = Nil /\ ~def /\ c # Nil
         THEN SaysNow(f.log, r.log, "BombDefuseAborted", c)
         ELSE Same(f.log, r.log, "BombDefuseAborted")
  <2>1. CASE chg
    <3>1. r = BombDefuser(f)
      BY <1>1, <2>1
    <3>2. f.gs.currentDefuser = c
      BY <1>4 DEF c
    <3>3. r \in States /\ r.gs = [f.gs EXCEPT !.currentDefuser = d]
          /\ r.heard = f.heard /\ r.exploded = f.exploded
      BY <1>4, <3>1, BombDefuserActs DEF d
    <3>4. /\ \A t : t \notin {"BombDefuseStart", "BombDefuseAborted"} => Same(f.log, r.log, t)
          /\ IF bomb.defuser # Nil /\ mimic THEN SaysNow(f.log, r.log, "BombDefuseStart", d)
             ELSE Same(f.log, r.log, "BombDefuseStart")
          /\ IF bomb.defuser = Nil /\ bomb.planted # "defused" /\ f.gs.currentDefuser # Nil
             THEN SaysNow(f.log, r.log, "BombDefuseAborted", f.gs.currentDefuser)
             ELSE Same(f.log, r.log, "BombDefuseAborted")
      BY <1>4, <3>1, BombDefuserActs DEF d
    <3>5. def <=> bomb.planted = "defused"
      OBVIOUS
    <3> HIDE DEF chg, def
    <3> QED
      BY <1>4, <2>1, <3>2, <3>3, <3>4, <3>5
  <2>2. CASE ~chg
    <3>1. r = f
      BY <1>1, <2>2
    <3> HIDE DEF chg, def
    <3> QED
      BY <1>4, <2>2, <3>1, SameLog
  <2> QED
    BY <2>1, <2>2
<1>6. /\ r.gs.currentDefuser = IF chg THEN d ELSE c
      /\ r.gs.carrier = st.gs.carrier /\ r.gs.currentPlanter = st.gs.currentPlanter
      /\ r.gs.isPlanting = st.gs.isPlanting /\ r.gs.planter = st.gs.planter
  <2> HIDE DEF chg
  <2>1. st.gs \in GameStates /\ c = st.gs.currentDefuser
    BY DEF States, c
  <2> QED
    BY <1>5, <2>1 DEF GameStates
<1>7. \A t : /\ t # "BombExplode" => Same(st.log, s.log, t)
             /\ t # "BombDefused" => Same(s.log, f.log, t)
             /\ t \notin {"BombDefuseStart", "BombDefuseAborted"} => Same(f.log, r.log, t)
  BY <1>3, <1>4, <1>5
<1> HIDE DEF stop, def, chg
<1>8. \A t : t \notin {"BombDefuseStart", "BombDefuseAborted", "BombDefused", "BombExplode"}
               => Same(st.log, r.log, t)
  BY <1>7, Composed
<1>9. IF stop /\ c = Nil /\ mimic THEN SaysNow(st.log, r.log, "BombExplode", st.gs.planter)
      ELSE Same(st.log, r.log, "BombExplode")
  <2>1. Same(s.log, f.log, "BombExplode") /\ Same(f.log, r.log, "BombExplode")
    BY <1>7
  <2>2. Same(s.log, r.log, "BombExplode")
    BY <2>1, Composed
  <2> QED
    BY <1>3, <2>2, Composed
<1>10. IF def /\ mimic THEN SaysNow(st.log, r.log, "BombDefused", bd)
       ELSE Same(st.log, r.log, "BombDefused")
  <2>1. Same(st.log, s.log, "BombDefused") /\ Same(f.log, r.log, "BombDefused")
    BY <1>7
  <2>2. IF def /\ mimic THEN SaysNow(st.log, f.log, "BombDefused", bd)
        ELSE Same(st.log, f.log, "BombDefused")
    BY <1>4, <2>1, Composed
  <2> QED
    BY <2>1, <2>2, Composed
<1>11. Same(st.log, f.log, "BombDefuseStart") /\ Same(st.log, f.log, "BombDefuseAborted")
  BY <1>7, Composed
<1>12. IF chg /\ bomb.defuser # Nil /\ mimic THEN SaysNow(st.log, r.log, "BombDefuseStart", d)
       ELSE Same(st.log, r.log, "BombDefuseStart")
  BY <1>5, <1>11, Composed
<1>13. IF chg /\ bomb.defuser = Nil /\ ~def /\ c # Nil
       THEN SaysNow(st.log, r.log, "BombDefuseAborted", c)
       ELSE Same(st.log, r.log, "BombDefuseAborted")
  BY <1>5, <1>11, Composed
<1>14. r.exploded = IF stop /\ c = Nil /\ mimic THEN TRUE ELSE st.exploded
  BY <1>3, <1>5
<1>15. (def <=> bomb.planted = "defused") /\ (def <=> stop /\ bomb.planted = "defused")
  BY DEF def, stop
<1>16. PlantedActs(st, r, stop, chg)
  BY <1>5, <1>6, <1>8, <1>9, <1>10, <1>12, <1>13, <1>14, <1>15 DEF PlantedActs, c, d, bd
<1> QED
  BY <1>16 DEF r, stop, chg

(* The planter, the defuser or whoever is planting changed, and nothing     *)
(* else.                                                                    *)
LEMMA FieldSet ==
  ASSUME NEW st \in States, NEW v \in Maybe, NEW w \in SUBSET Players
  PROVE  /\ LET r == Set(st, "currentPlanter", v)
            IN  /\ r \in States /\ r.log = st.log /\ r.exploded = st.exploded
                /\ r.heard = st.heard /\ r.gs.currentPlanter = v
                /\ r.gs.carrier = st.gs.carrier /\ r.gs.currentDefuser = st.gs.currentDefuser
                /\ r.gs.isPlanting = st.gs.isPlanting /\ r.gs.planter = st.gs.planter
         /\ LET r == Set(st, "currentDefuser", v)
            IN  /\ r \in States /\ r.log = st.log /\ r.exploded = st.exploded
                /\ r.heard = st.heard /\ r.gs.currentDefuser = v
                /\ r.gs.carrier = st.gs.carrier /\ r.gs.currentPlanter = st.gs.currentPlanter
                /\ r.gs.isPlanting = st.gs.isPlanting /\ r.gs.planter = st.gs.planter
         /\ LET r == Set(st, "isPlanting", w)
            IN  /\ r \in States /\ r.log = st.log /\ r.exploded = st.exploded
                /\ r.heard = st.heard /\ r.gs.isPlanting = w
                /\ r.gs.carrier = st.gs.carrier /\ r.gs.currentPlanter = st.gs.currentPlanter
                /\ r.gs.currentDefuser = st.gs.currentDefuser /\ r.gs.planter = st.gs.planter
<1> DEFINE g1 == [st.gs EXCEPT !.currentPlanter = v]
           g2 == [st.gs EXCEPT !.currentDefuser = v]
           g3 == [st.gs EXCEPT !.isPlanting = w]
           r1 == Set(st, "currentPlanter", v)
           r2 == Set(st, "currentDefuser", v)
           r3 == Set(st, "isPlanting", w)
<1>1. st.gs \in GameStates
  BY DEF States
<1>2. r1 = [st EXCEPT !.gs = g1] /\ r2 = [st EXCEPT !.gs = g2] /\ r3 = [st EXCEPT !.gs = g3]
  BY DEF Set
<1>3. /\ g1 \in GameStates /\ g1.currentPlanter = v
      /\ g1.carrier = st.gs.carrier /\ g1.currentDefuser = st.gs.currentDefuser
      /\ g1.isPlanting = st.gs.isPlanting /\ g1.planter = st.gs.planter
  BY <1>1 DEF GameStates
<1>4. /\ g2 \in GameStates /\ g2.currentDefuser = v
      /\ g2.carrier = st.gs.carrier /\ g2.currentPlanter = st.gs.currentPlanter
      /\ g2.isPlanting = st.gs.isPlanting /\ g2.planter = st.gs.planter
  BY <1>1 DEF GameStates
<1>5. /\ g3 \in GameStates /\ g3.isPlanting = w
      /\ g3.carrier = st.gs.carrier /\ g3.currentPlanter = st.gs.currentPlanter
      /\ g3.currentDefuser = st.gs.currentDefuser /\ g3.planter = st.gs.planter
  BY <1>1 DEF GameStates
<1> HIDE DEF g1, g2, g3, r1, r2, r3
<1>6. r1 \in States /\ r1.gs = g1 /\ r1.log = st.log /\ r1.exploded = st.exploded /\ r1.heard = st.heard
  BY <1>2, <1>3 DEF States
<1>7. r2 \in States /\ r2.gs = g2 /\ r2.log = st.log /\ r2.exploded = st.exploded /\ r2.heard = st.heard
  BY <1>2, <1>4 DEF States
<1>8. r3 \in States /\ r3.gs = g3 /\ r3.log = st.log /\ r3.exploded = st.exploded /\ r3.heard = st.heard
  BY <1>2, <1>5 DEF States
<1> QED
  BY <1>3, <1>4, <1>5, <1>6, <1>7, <1>8 DEF r1, r2, r3

(* The event for users that a game event becomes.                           *)
BombDoings == {"bomb_pickup", "bomb_dropped", "bomb_beginplant", "bomb_planted",
               "bomb_begindefuse", "bomb_defused", "bomb_exploded"}
Saying(do) ==
  CASE do = "bomb_pickup" -> "BombPickup" [] do = "bomb_dropped" -> "BombDropped"
    [] do = "bomb_beginplant" -> "BombPlantBegin" [] do = "bomb_planted" -> "BombPlanted"
    [] do = "bomb_begindefuse" -> "BombDefuseStart" [] do = "bomb_defused" -> "BombDefused"
    [] do = "bomb_exploded" -> "BombExplode"

EventActs(st, r, do, p) ==
  /\ r \in States
  /\ r.gs.carrier = st.gs.carrier /\ r.gs.planter = st.gs.planter
  /\ r.gs.currentPlanter = IF do = "bomb_beginplant" THEN p
                           ELSE IF do = "bomb_planted" THEN Nil ELSE st.gs.currentPlanter
  /\ r.gs.currentDefuser = IF do = "bomb_begindefuse" THEN p
                           ELSE IF do \in {"bomb_defused", "bomb_exploded"} THEN Nil
                           ELSE st.gs.currentDefuser
  /\ r.gs.isPlanting = IF do = "bomb_beginplant" THEN st.gs.isPlanting \cup {p}
                       ELSE IF do = "bomb_planted" THEN st.gs.isPlanting \ {p}
                       ELSE st.gs.isPlanting
  /\ r.exploded = IF do = "bomb_exploded" THEN TRUE ELSE st.exploded
  /\ \A t : t # Saying(do) => Same(st.log, r.log, t)
  /\ SaysNow(st.log, r.log, Saying(do), p)

(* The handlers of the bomb's game events.                                  *)
LEMMA BombEventActs ==
  ASSUME NEW st \in States, NEW e, e.do \in BombDoings, e.who \in Players
  PROVE  EventActs(st, BombEvent(st, e), e.do, e.who)
<1> DEFINE p == e.who
           r == BombEvent(st, e)
<1>1. p \in Maybe /\ Nil \in Maybe /\ st.gs.isPlanting \ {p} \in SUBSET Players
      /\ Saying(e.do) \in ToldNames
  BY DEF Maybe, States, GameStates, Saying, ToldNames, BombDoings
<1>2. ASSUME NEW b \in States, NEW t \in ToldNames, r = Dispatch(b, t, p)
      PROVE  /\ r \in States /\ r.gs = b.gs /\ r.exploded = b.exploded
             /\ \A u : u # t => Same(b.log, r.log, u)
             /\ SaysNow(b.log, r.log, t, p)
  <2> HIDE DEF p, r
  <2> QED
    BY ZenonT(60), <1>1, <1>2, DispatchActs
<1>3. CASE e.do \in {"bomb_pickup", "bomb_dropped"}
  <2>1. r = Dispatch(st, Saying(e.do), p)
    BY <1>3 DEF BombEvent, Saying
  <2> HIDE DEF p, r
  <2>2. /\ r \in States /\ r.gs = st.gs /\ r.exploded = st.exploded
        /\ \A u : u # Saying(e.do) => Same(st.log, r.log, u)
        /\ SaysNow(st.log, r.log, Saying(e.do), p)
    BY <1>1, <1>2, <2>1
  <2>3. EventActs(st, r, e.do, p)
    BY <1>3, <2>2 DEF EventActs
  <2> QED
    BY <2>3 DEF p, r
<1>4. CASE e.do = "bomb_beginplant"
  <2> DEFINE b == BeginsPlant(st, p)
  <2>1. r = Dispatch(b, Saying(e.do), p)
    BY <1>4 DEF BombEvent, Saying
  <2>2. /\ b \in States /\ b.log = st.log /\ b.exploded = st.exploded
        /\ b.gs = [st.gs EXCEPT !.isPlanting = st.gs.isPlanting \cup {p}, !.currentPlanter = p]
    BY BeginsPlantActs
  <2> HIDE DEF p, r, b
  <2>3. /\ r \in States /\ r.gs = b.gs /\ r.exploded = b.exploded
        /\ \A u : u # Saying(e.do) => Same(b.log, r.log, u)
        /\ SaysNow(b.log, r.log, Saying(e.do), p)
    BY <1>1, <1>2, <2>1, <2>2
  <2>4. /\ b.gs.carrier = st.gs.carrier /\ b.gs.planter = st.gs.planter
        /\ b.gs.currentPlanter = p /\ b.gs.currentDefuser = st.gs.currentDefuser
        /\ b.gs.isPlanting = st.gs.isPlanting \cup {p}
    BY <2>2 DEF States, GameStates
  <2>5. EventActs(st, r, e.do, p)
    BY <1>4, <2>2, <2>3, <2>4 DEF EventActs
  <2> QED
    BY <2>5 DEF p, r
<1>5. CASE e.do = "bomb_planted"
  <2> DEFINE a == Set(st, "isPlanting", st.gs.isPlanting \ {p})
             b == Set(a, "currentPlanter", Nil)
  <2>1. r = Dispatch(b, Saying(e.do), p)
    BY <1>5 DEF BombEvent, Saying
  <2> HIDE DEF p, r
  <2>2. /\ a \in States /\ a.log = st.log /\ a.exploded = st.exploded
        /\ a.gs.isPlanting = st.gs.isPlanting \ {p}
        /\ a.gs.carrier = st.gs.carrier /\ a.gs.currentDefuser = st.gs.currentDefuser
        /\ a.gs.planter = st.gs.planter
    BY <1>1, FieldSet
  <2> HIDE DEF a
  <2>3. /\ b \in States /\ b.log = a.log /\ b.exploded = a.exploded
        /\ b.gs.currentPlanter = Nil /\ b.gs.isPlanting = a.gs.isPlanting
        /\ b.gs.carrier = a.gs.carrier /\ b.gs.currentDefuser = a.gs.currentDefuser
        /\ b.gs.planter = a.gs.planter
    BY <1>1, <2>2, FieldSet
  <2> HIDE DEF b
  <2>4. /\ r \in States /\ r.gs = b.gs /\ r.exploded = b.exploded
        /\ \A u : u # Saying(e.do) => Same(b.log, r.log, u)
        /\ SaysNow(b.log, r.log, Saying(e.do), p)
    BY <1>1, <1>2, <2>1, <2>3
  <2>5. EventActs(st, r, e.do, p)
    BY <1>5, <2>2, <2>3, <2>4 DEF EventActs
  <2> QED
    BY <2>5 DEF p, r
<1>6. CASE e.do = "bomb_begindefuse"
  <2> DEFINE b == Set(st, "currentDefuser", p)
  <2>1. r = Dispatch(b, Saying(e.do), p)
    BY <1>6 DEF BombEvent, Saying
  <2> HIDE DEF p, r
  <2>2. /\ b \in States /\ b.log = st.log /\ b.exploded = st.exploded
        /\ b.gs.currentDefuser = p /\ b.gs.isPlanting = st.gs.isPlanting
        /\ b.gs.carrier = st.gs.carrier /\ b.gs.currentPlanter = st.gs.currentPlanter
        /\ b.gs.planter = st.gs.planter
    BY <1>1, FieldSet
  <2> HIDE DEF b
  <2>3. /\ r \in States /\ r.gs = b.gs /\ r.exploded = b.exploded
        /\ \A u : u # Saying(e.do) => Same(b.log, r.log, u)
        /\ SaysNow(b.log, r.log, Saying(e.do), p)
    BY <1>1, <1>2, <2>1, <2>2
  <2>4. EventActs(st, r, e.do, p)
    BY <1>6, <2>2, <2>3 DEF EventActs
  <2> QED
    BY <2>4 DEF p, r
<1>7. CASE e.do = "bomb_defused"
  <2> DEFINE b == Set(st, "currentDefuser", Nil)
  <2>1. r = Dispatch(b, Saying(e.do), p)
    BY <1>7 DEF BombEvent, Saying
  <2> HIDE DEF p, r
  <2>2. /\ b \in States /\ b.log = st.log /\ b.exploded = st.exploded
        /\ b.gs.currentDefuser = Nil /\ b.gs.isPlanting = st.gs.isPlanting
        /\ b.gs.carrier = st.gs.carrier /\ b.gs.currentPlanter = st.gs.currentPlanter
        /\ b.gs.planter = st.gs.planter
    BY <1>1, FieldSet
  <2> HIDE DEF b
  <2>3. /\ r \in States /\ r.gs = b.gs /\ r.exploded = b.exploded
        /\ \A u : u # Saying(e.do) => Same(b.log, r.log, u)
        /\ SaysNow(b.log, r.log, Saying(e.do), p)
    BY <1>1, <1>2, <2>1, <2>2
  <2>4. EventActs(st, r, e.do, p)
    BY <1>7, <2>2, <2>3 DEF EventActs
  <2> QED
    BY <2>4 DEF p, r
<1>8. CASE e.do = "bomb_exploded"
  <2> DEFINE a == [st EXCEPT !.exploded = TRUE]
             b == Set(a, "currentDefuser", Nil)
  <2>1. r = Dispatch(b, Saying(e.do), p)
    BY <1>8 DEF BombEvent, Saying
  <2> HIDE DEF p, r
  <2>2. a \in States /\ a.log = st.log /\ a.exploded = TRUE /\ a.gs = st.gs
    BY DEF States
  <2> HIDE DEF a
  <2>3. /\ b \in States /\ b.log = a.log /\ b.exploded = a.exploded
        /\ b.gs.currentDefuser = Nil /\ b.gs.isPlanting = a.gs.isPlanting
        /\ b.gs.carrier = a.gs.carrier /\ b.gs.currentPlanter = a.gs.currentPlanter
        /\ b.gs.planter = a.gs.planter
    BY <1>1, <2>2, FieldSet
  <2> HIDE DEF b
  <2>4. /\ r \in States /\ r.gs = b.gs /\ r.exploded = b.exploded
        /\ \A u : u # Saying(e.do) => Same(b.log, r.log, u)
        /\ SaysNow(b.log, r.log, Saying(e.do), p)
    BY <1>1, <1>2, <2>1, <2>3
  <2>5. EventActs(st, r, e.do, p)
    BY <1>8, <2>2, <2>3, <2>4 DEF EventActs
  <2> QED
    BY <2>5 DEF p, r
<1> QED
  BY <1>3, <1>4, <1>5, <1>6, <1>7, <1>8 DEF BombDoings

-------------------------------------------------------------------------------
(* Steps.                                                                   *)

(* The state that a handler gets, and what becomes of the one it leaves.    *)
LEMMA StateType ==
  ASSUME TypeInv
  PROVE  /\ State \in States /\ State.gs = gameState /\ State.log = log
         /\ State.exploded = frameFacts.exploded /\ State.heard = heard
  BY DEF TypeInv, State, States, GameStates, LogType, Maybe

(* What the state is after handlers made r of it.                           *)
LEMMA Became ==
  ASSUME TypeInv, NEW r \in States, Becomes(r)
  PROVE  /\ gameState' = r.gs /\ gameState' \in GameStates
         /\ log' = r.log /\ log' \in Seq(LogType) /\ heard' = r.heard /\ heard' \in Maybe
         /\ frameFacts' \in [fell : SUBSET Players, exploded : BOOLEAN, bombed : BOOLEAN]
         /\ frameFacts'.exploded = r.exploded /\ frameFacts'.fell = frameFacts.fell
         /\ frameFacts'.bombed = frameFacts.bombed
<1>1. /\ r.gs \in GameStates /\ r.log \in Seq(LogType) /\ r.heard \in Maybe
      /\ r.exploded \in BOOLEAN
  BY DEF States
<1>2. gameState' = r.gs /\ log' = r.log /\ heard' = r.heard
      /\ frameFacts' = [frameFacts EXCEPT !.exploded = r.exploded]
  BY DEF Becomes
<1>3. frameFacts \in [fell : SUBSET Players, exploded : BOOLEAN, bombed : BOOLEAN]
  BY DEF TypeInv
<1> DEFINE x == r.exploded
<1>4. x \in BOOLEAN /\ frameFacts' = [frameFacts EXCEPT !.exploded = x]
  BY <1>1, <1>2
<1> HIDE DEF x
<1>5. /\ frameFacts' \in [fell : SUBSET Players, exploded : BOOLEAN, bombed : BOOLEAN]
      /\ frameFacts'.exploded = x /\ frameFacts'.fell = frameFacts.fell
      /\ frameFacts'.bombed = frameFacts.bombed
  BY <1>3, <1>4
<1> QED
  BY <1>1, <1>2, <1>5 DEF x

(* Whom a handler finds, and whom an event names.                           *)
LEMMA NamedType ==
  \A p \in Maybe :
    /\ ByPawn(p) \in Maybe /\ Named(p) \in Maybe
    /\ ByPawn(p) # Nil => ByPawn(p) = p /\ p \notin hidden
    /\ ByPawn(p) = Nil /\ p # Nil => p \in hidden
    /\ mimic => Named(p) = ByPawn(p)
    /\ ~mimic => Named(p) = p
    /\ Named(p) # Nil => Named(p) = p
    /\ Named(p) = Nil /\ p # Nil => p \in hidden /\ ByPawn(p) = Nil
  BY BombAssumption DEF ByPawn, Named, Maybe

(* Who has, plants or defuses the bomb is a player or nobody.               *)
LEMMA OwnTypes ==
  ASSUME TypeInv
  PROVE  /\ bomb.owner \in Maybe /\ before.owner \in Maybe
         /\ bomb.planter \in Maybe /\ before.planter \in Maybe
         /\ bomb.defuser \in Maybe /\ before.defuser \in Maybe
         /\ bomb.arming \in BOOLEAN /\ before.arming \in BOOLEAN
         /\ gameState.currentPlanter \in Maybe /\ gameState.currentDefuser \in Maybe
         /\ gameState.carrier \in Maybe /\ gameState.planter \in Maybe
  BY DEF TypeInv, Bombs, Maybe

(* What a frame does not change.                                            *)
Fixed ==
  /\ mimic' = mimic /\ bomb' = bomb /\ before' = before /\ interrupted' = interrupted
  /\ harm' = harm /\ hidden' = hidden
  /\ (Still' <=> Still) /\ (Carried' <=> Carried) /\ (Planting' <=> Planting)
  /\ (Ticking' <=> Ticking) /\ (Renewed' <=> Renewed) /\ (Aborted' <=> Aborted)
  /\ ByPawn(bomb.owner)' = ByPawn(bomb.owner) /\ ByPawn(before.owner)' = ByPawn(before.owner)
  /\ ByPawn(bomb.defuser)' = ByPawn(bomb.defuser)
  /\ ByPawn(before.defuser)' = ByPawn(before.defuser)
  /\ ByPawn(bomb.planter)' = ByPawn(bomb.planter)
  /\ Named(bomb.owner)' = Named(bomb.owner) /\ Named(before.owner)' = Named(before.owner)
  /\ Named(bomb.defuser)' = Named(bomb.defuser)
  /\ Named(before.defuser)' = Named(before.defuser)
  /\ Named(bomb.planter)' = Named(bomb.planter)

(* Nothing of that changes unless the server begins a frame.                *)
LEMMA FixedInFrame ==
  ASSUME UNCHANGED <<mimic, hidden, bomb, before, harm, interrupted>>
  PROVE  Fixed
<1>1. mimic' = mimic /\ bomb' = bomb /\ before' = before /\ interrupted' = interrupted
      /\ harm' = harm /\ hidden' = hidden
  OBVIOUS
<1>2. /\ (Still' <=> Still) /\ (Carried' <=> Carried) /\ (Planting' <=> Planting)
      /\ (Ticking' <=> Ticking) /\ (Renewed' <=> Renewed)
  BY <1>1 DEF Still, Carried, Planting, Ticking, Renewed
<1>3. Aborted' <=> Aborted
  BY <1>1, <1>2 DEF Aborted
<1>4. ByPawn(bomb.owner)' = ByPawn(bomb.owner) /\ ByPawn(before.owner)' = ByPawn(before.owner)
      /\ ByPawn(bomb.defuser)' = ByPawn(bomb.defuser)
      /\ ByPawn(before.defuser)' = ByPawn(before.defuser)
      /\ ByPawn(bomb.planter)' = ByPawn(bomb.planter)
  BY <1>1 DEF ByPawn
<1>5. Named(bomb.owner)' = Named(bomb.owner) /\ Named(before.owner)' = Named(before.owner)
      /\ Named(bomb.defuser)' = Named(bomb.defuser)
      /\ Named(before.defuser)' = Named(before.defuser)
      /\ Named(bomb.planter)' = Named(bomb.planter)
  BY <1>1 DEF Named, ByPawn
<1> QED
  BY <1>1, <1>2, <1>3, <1>4, <1>5 DEF Fixed

(* What a handler that leaves r keeps, whichever it is, unless it tells of  *)
(* damage.                                                                  *)
LEMMA HandlerStep ==
  ASSUME IInv, inFrame, NEW r \in States, Becomes(r),
         UNCHANGED <<mimic, hidden, bomb, before, inFrame, delayed, harm, interrupted>>,
         events' \subseteq events, updates' \subseteq updates, firsts' \subseteq firsts,
         updates' = updates \/ events' = {},
         \A e \in events : e \notin events' => e.do \notin {"player_hurt", "player_falldamage"},
         Same(log, r.log, "EqBomb"), Same(log, r.log, "EqWorld")
  PROVE  TypeInv' /\ FrameInv' /\ EventsInv' /\ HurtInv' /\ DamageTold' /\ Fixed
<1>1. TypeInv /\ FrameInv /\ EventsInv /\ HurtInv
  BY DEF IInv
<1>2. Fixed
  BY FixedInFrame
<1>3. /\ gameState' \in GameStates /\ log' = r.log /\ log' \in Seq(LogType) /\ heard' \in Maybe
      /\ frameFacts' \in [fell : SUBSET Players, exploded : BOOLEAN, bombed : BOOLEAN]
      /\ frameFacts'.fell = frameFacts.fell
  BY <1>1, Became
<1>4. TypeInv'
  BY <1>1, <1>3 DEF TypeInv, GameStates, LogType, Maybe, Harmed
<1>5. FrameInv'
  <2>1. Sane(bomb)' /\ Sane(before)'
    BY <1>1 DEF FrameInv, Sane
  <2>2. \/ Still' /\ updates' \subseteq {"rules"} /\ firsts' = {}
        \/ Carried' /\ updates' \subseteq {"c4", "rules"} /\ firsts' = {}
        \/ Planting' /\ updates' \subseteq {"c4Gone", "plantedNew"} /\ firsts' \subseteq {"planted"}
        \/ Ticking' /\ updates' \subseteq {"planted", "rules"} /\ firsts' = {}
        \/ Renewed' /\ updates' \subseteq {"c4Gone", "plantedGone"} /\ firsts' \subseteq {"c4"}
    <3> HIDE DEF Fixed
    <3>1. (Still' <=> Still) /\ (Carried' <=> Carried) /\ (Planting' <=> Planting)
          /\ (Ticking' <=> Ticking) /\ (Renewed' <=> Renewed)
      BY <1>2 DEF Fixed
    <3>2. \/ Still /\ updates \subseteq {"rules"} /\ firsts = {}
          \/ Carried /\ updates \subseteq {"c4", "rules"} /\ firsts = {}
          \/ Planting /\ updates \subseteq {"c4Gone", "plantedNew"} /\ firsts \subseteq {"planted"}
          \/ Ticking /\ updates \subseteq {"planted", "rules"} /\ firsts = {}
          \/ Renewed /\ updates \subseteq {"c4Gone", "plantedGone"} /\ firsts \subseteq {"c4"}
      BY <1>1 DEF FrameInv
    <3> QED
      BY <3>1, <3>2
  <2>3. /\ "rules" \in updates' => bomb'.over /\ ~before'.over
        /\ "planted" \in updates' /\ bomb'.planted = "ticking" => bomb'.defuser # before'.defuser
    BY <1>1 DEF FrameInv
  <2> QED
    BY <2>1, <2>2, <2>3 DEF FrameInv
<1>6. EventsInv'
  <2> SUFFICES ASSUME NEW e \in events' PROVE
         /\ e.do \notin {"player_hurt", "player_falldamage"} => ~mimic
         /\ e.do \in {"bomb_pickup", "bomb_dropped", "bomb_beginplant", "bomb_planted",
                      "bomb_begindefuse", "bomb_defused", "bomb_exploded"} => e.who # Nil
         /\ e.do = "player_hurt" => e.who \in DOMAIN harm
         /\ e.do = "player_falldamage" => e.who \in DOMAIN harm /\ harm[e.who] = "fall"
         /\ e.do = "bomb_beginplant" => /\ e.who = bomb.owner /\ bomb.arming /\ ~before.arming
                                        /\ "c4" \in updates'
         /\ e.do = "bomb_planted" => /\ e.who = bomb.planter /\ Planting /\ "plantedNew" \in updates'
         /\ e.do = "bomb_begindefuse" =>
              /\ e.who = bomb.defuser /\ bomb.defuser \notin {before.defuser, Nil}
              /\ Ticking /\ bomb.planted = "ticking" /\ "planted" \in updates'
         /\ e.do = "bomb_defused" =>
              e.who = before.defuser /\ Ticking /\ bomb.planted = "defused" /\ "planted" \in updates'
         /\ e.do = "bomb_exploded" =>
              e.who = bomb.planter /\ Ticking /\ bomb.planted = "exploded" /\ "planted" \in updates'
         /\ e.do = "target_bombed" => bomb.planted = "exploded"
    BY <1>2 DEF EventsInv, Fixed
  <2>1. updates' = updates /\ e \in events
    OBVIOUS
  <2> QED
    BY <1>1, <2>1 DEF EventsInv
<1>7. HurtInv'
  <2>1. NoneIn(log', "EqBomb") /\ NoneIn(log', "EqWorld")
    BY <1>1, <1>3 DEF HurtInv, Same
  <2>2. \A p : /\ Ev("player_hurt", p) \in events' <=> Ev("player_hurt", p) \in events
               /\ Ev("player_falldamage", p) \in events' <=> Ev("player_falldamage", p) \in events
    BY DEF Ev
  <2> HIDE DEF Fixed
  <2> QED
    BY <1>1, <1>2, <1>3, <2>1, <2>2 DEF HurtInv, Fixed
<1>8. DamageTold'
  BY DEF DamageTold
<1> QED
  BY <1>2, <1>4, <1>5, <1>6, <1>7, <1>8

(* The carrier of the bomb changes, or somebody begins or stops to plant.   *)
LEMMA C4Step ==
  ASSUME IInv, inFrame, EntityUpdate("c4")
  PROVE  IInv'
<1> DEFINE r == C4Update(State)
           o == ByPawn(bomb.owner)
           c == gameState.currentPlanter
           own == bomb.owner # before.owner
           arm == bomb.arming # before.arming
<1>1. /\ TypeInv /\ FrameInv /\ EventsInv /\ CarrierInv /\ DefuserInv /\ PlanterInv
      /\ PlantLog /\ AbortLog /\ DefuseLog /\ OutcomeLog /\ FactsInv
  BY DEF IInv
<1>2. /\ events = {} /\ events' = {} /\ "c4" \in updates /\ updates' = updates \ {"c4"}
      /\ firsts' = firsts /\ Becomes(r)
      /\ UNCHANGED <<mimic, hidden, bomb, before, inFrame, delayed, harm, interrupted>>
  BY DEF EntityUpdate, Handled
<1>3. C4Acts(State, r, own, arm)
  BY <1>1, StateType, C4UpdateActs
<1>4. State.gs = gameState /\ State.log = log /\ State.exploded = frameFacts.exploded
      /\ State.heard = heard
  BY <1>1, StateType
<1> HIDE DEF r, o, c, own, arm
<1>5. /\ r \in States /\ r.exploded = frameFacts.exploded
      /\ r.gs.carrier = IF own THEN o ELSE gameState.carrier
      /\ r.gs.currentDefuser = gameState.currentDefuser /\ r.gs.planter = gameState.planter
      /\ r.gs.currentPlanter = IF arm /\ bomb.arming /\ o # Nil THEN o ELSE c
      /\ r.gs.isPlanting = IF ~arm THEN gameState.isPlanting
                           ELSE IF ~bomb.arming THEN gameState.isPlanting \ {c}
                           ELSE IF o # Nil THEN gameState.isPlanting \cup {o}
                           ELSE gameState.isPlanting
      /\ mimic /\ heard = gameState.carrier => r.heard = r.gs.carrier
      /\ \A t : t \notin {"BombPickup", "BombDropped", "BombPlantBegin", "BombPlantAborted"}
                  => Same(log, r.log, t)
      /\ IF arm /\ bomb.arming /\ o # Nil /\ mimic
         THEN SaysNow(log, r.log, "BombPlantBegin", o)
         ELSE Same(log, r.log, "BombPlantBegin")
      /\ IF arm /\ ~bomb.arming /\ c # Nil
         THEN SaysNow(log, r.log, "BombPlantAborted", c)
         ELSE Same(log, r.log, "BombPlantAborted")
  BY <1>3, <1>4 DEF C4Acts, o, c
<1>6. /\ gameState' = r.gs /\ log' = r.log /\ heard' = r.heard
      /\ frameFacts'.exploded = r.exploded /\ frameFacts'.bombed = frameFacts.bombed
  BY <1>1, <1>2, <1>5, Became
<1>7. TypeInv' /\ FrameInv' /\ EventsInv' /\ HurtInv' /\ DamageTold' /\ Fixed
  <2>1. Same(log, r.log, "EqBomb") /\ Same(log, r.log, "EqWorld")
    BY <1>5
  <2> QED
    BY <1>2, <1>5, <2>1, HandlerStep
<1>8. Carried /\ firsts = {} /\ updates \subseteq {"c4", "rules"} /\ firsts' = {}
      /\ updates' \subseteq {"rules"} /\ ("rules" \in updates' <=> "rules" \in updates)
  BY <1>1, <1>2 DEF FrameInv
<1>9. ~Planting /\ ~Ticking /\ bomb.planted = "none" /\ bomb.defuser = Nil
      /\ (bomb.arming => ~before.arming /\ bomb.owner = before.owner /\ ~bomb.over)
      /\ (before.over => bomb.over) /\ (before.arming => before.owner # Nil)
      /\ (bomb.arming => bomb.owner # Nil)
  BY <1>1, <1>8 DEF Carried, Planting, Ticking, FrameInv, Sane
<1>10. /\ c \in Maybe /\ o \in Maybe /\ (o # Nil => o = bomb.owner /\ o \notin hidden)
       /\ (o = Nil /\ bomb.owner # Nil => bomb.owner \in hidden)
       /\ (mimic => Named(bomb.owner) = o)
  BY <1>1, OwnTypes, NamedType DEF o, c
<1>11. /\ c # Nil => c \in Players
       /\ Named(before.owner) = Nil /\ before.owner # Nil => before.owner \in hidden
       /\ Named(bomb.owner) # Nil => Named(bomb.owner) = bomb.owner
  BY <1>1, <1>10, OwnTypes, NamedType DEF Maybe
<1>12. Named(before.owner) = Nil /\ before.owner # Nil => mimic
  BY <1>1, OwnTypes, NamedType
<1>13. CarrierInv'
  <2>1. ~own => ByPawn(before.owner) = o
    BY DEF own, o
  <2>2. gameState.carrier = ByPawn(before.owner) /\ (mimic => heard = gameState.carrier)
    BY <1>1, <1>2 DEF CarrierInv
  <2>3. gameState'.carrier = o /\ (mimic => heard' = gameState'.carrier)
    BY <1>5, <1>6, <2>1, <2>2
  <2> QED
    BY <1>7, <1>8, <2>3 DEF CarrierInv, Fixed, o
<1>14. DefuserInv'
  BY <1>1, <1>5, <1>6, <1>7, <1>8, <1>9 DEF DefuserInv, Fixed
<1>15. PlanterInv'
  <2>1. /\ mimic => r.gs.isPlanting \cap hidden = {}
        /\ \A p \in r.gs.isPlanting : p \in interrupted \/ (bomb.arming /\ p = bomb.owner)
    <3>1. mimic => gameState.isPlanting \cap hidden = {}
      BY <1>1 DEF PlanterInv
    <3>2. \A p \in r.gs.isPlanting : p \in gameState.isPlanting \/ (p = o /\ o # Nil /\ bomb.arming)
      BY <1>5
    <3>3. ASSUME NEW p \in r.gs.isPlanting, p \in gameState.isPlanting
          PROVE  p \in interrupted \/ (bomb.arming /\ p = bomb.owner)
      <4>1. \/ p \in interrupted \/ (bomb.arming /\ p = bomb.owner)
            \/ before.arming /\ p = before.owner
        BY <1>1, <3>3 DEF PlanterInv
      <4>2. CASE before.arming /\ p = before.owner /\ p \notin interrupted
        <5>1. ~bomb.arming /\ ~before.over /\ ~bomb.over /\ arm
          BY <1>1, <1>9, <4>2 DEF PlanterInv, arm
        <5>2. p # c
          BY <1>5, <3>3, <5>1
        <5>3. Named(before.owner) = Nil
          BY <1>1, <1>2, <4>2, <5>1, <5>2 DEF PlanterInv, c
        <5> QED
          BY <1>9, <1>11, <3>1, <3>3, <4>2, <5>3, <1>12
      <4> QED
        BY <4>1, <4>2
    <3> QED
      BY <1>10, <3>1, <3>2, <3>3
  <2>2. bomb.arming /\ ~bomb.over /\ Named(bomb.owner) # Nil
          => bomb.owner \in r.gs.isPlanting /\ r.gs.currentPlanter = bomb.owner
    <3>1. CASE o # Nil
      BY <1>5, <1>9, <1>10, <3>1 DEF arm
    <3>2. CASE o = Nil
      <4>1. \/ /\ r.gs.isPlanting = gameState.isPlanting
               /\ r.gs.currentPlanter = gameState.currentPlanter
            \/ ~bomb.arming
        BY <1>5, <3>2 DEF c
      <4>2. bomb.arming /\ ~bomb.over /\ Named(bomb.owner) # Nil => ~mimic
        BY <1>10, <3>2
      <4> QED
        BY <1>1, <1>2, <4>1, <4>2 DEF PlanterInv, BeginDone
    <3> QED
      BY <3>1, <3>2
  <2>3. bomb.over => r.gs.currentPlanter = c
    BY <1>5, <1>9
  <2> QED
    BY <1>1, <1>2, <1>6, <1>7, <1>8, <1>9, <2>1, <2>2, <2>3 DEF PlanterInv, Fixed, c
<1>16. PlantLog'
  <2>1. BeginDone' /\ (~mimic => BeginDone) /\ (mimic => ~BeginDone)
    BY <1>2, <1>7, <1>8 DEF BeginDone, Fixed
  <2>2. IF bomb.arming /\ ~before.arming /\ Named(bomb.owner) # Nil
        THEN OnceIn(r.log, "BombPlantBegin", bomb.owner) ELSE NoneIn(r.log, "BombPlantBegin")
    BY <1>1, <1>5, <1>9, <1>10, <1>11, <2>1 DEF PlantLog, Same, SaysNow, arm
  <2>3. NoneIn(r.log, "BombPlanted")
    BY <1>1, <1>5, <1>9 DEF PlantLog, Same
  <2> QED
    BY <1>6, <1>7, <1>9, <2>1, <2>2, <2>3 DEF PlantLog, Fixed
<1>17. AbortLog'
  <2>1. NoneIn(log, "BombPlantAborted")
    BY <1>1, <1>2 DEF AbortLog
  <2>2. CASE before.arming /\ ~bomb.arming
    <3>1. Aborted
      BY <1>9, <2>2 DEF Aborted
    <3>2. before.arming /\ c # Nil => c = before.owner \/ before.owner \in hidden
      BY <1>1, <1>2, <1>9, <1>11 DEF PlanterInv, c
    <3>3. before.arming /\ ~bomb.over /\ ~before.over /\ Named(before.owner) # Nil => c # Nil
      BY <1>1, <1>2, <1>9 DEF PlanterInv, c
    <3>4. IF c # Nil THEN SaysNow(log, r.log, "BombPlantAborted", c)
          ELSE Same(log, r.log, "BombPlantAborted")
      BY <1>5, <2>2 DEF arm
    <3> QED
      BY <1>6, <1>7, <1>8, <1>11, <2>1, <2>2, <3>1, <3>2, <3>3, <3>4
         DEF AbortLog, Fixed, SaysNow, Same
  <2>3. CASE ~(before.arming /\ ~bomb.arming)
    <3>1. ~Aborted
      BY <2>3 DEF Aborted
    <3>2. Same(log, r.log, "BombPlantAborted")
      BY <1>1, <1>5, <2>3 DEF arm, TypeInv, Bombs
    <3> QED
      BY <1>6, <1>7, <2>1, <3>1, <3>2 DEF AbortLog, Fixed, Same
  <2> QED
    BY <2>2, <2>3
<1>18. DefuseLog' /\ OutcomeLog' /\ FactsInv'
  BY <1>1, <1>2, <1>5, <1>6, <1>7, <1>8, <1>9 DEF DefuseLog, OutcomeLog, FactsInv, Fixed, Same
<1> QED
  BY <1>7, <1>13, <1>14, <1>15, <1>16, <1>17, <1>18 DEF IInv

(* The first values of a new bomb.                                          *)
LEMMA C4FirstStep ==
  ASSUME IInv, inFrame, FirstValues("c4")
  PROVE  IInv'
<1> DEFINE r == C4First(State)
           o == ByPawn(bomb.owner)
           c == gameState.currentPlanter
<1>1. /\ TypeInv /\ FrameInv /\ EventsInv /\ CarrierInv /\ DefuserInv /\ PlanterInv
      /\ PlantLog /\ AbortLog /\ DefuseLog /\ OutcomeLog /\ FactsInv
  BY DEF IInv
<1>2. /\ events = {} /\ events' = {} /\ updates = {} /\ updates' = {} /\ "c4" \in firsts
      /\ firsts' = firsts \ {"c4"} /\ Becomes(r)
      /\ UNCHANGED <<mimic, hidden, bomb, before, inFrame, delayed, harm, interrupted>>
  BY DEF FirstValues
<1>3. Renewed /\ firsts' = {}
  BY <1>1, <1>2 DEF FrameInv
<1>4. /\ ~Planting /\ ~Ticking /\ bomb.planted = "none" /\ bomb.defuser = Nil
      /\ ~bomb.arming /\ before.over
  BY <1>1, <1>3 DEF Renewed, Planting, Ticking, FrameInv, Sane
<1>5. c = Nil /\ gameState.isPlanting \ {c} = gameState.isPlanting
  BY <1>1, <1>4, BombAssumption DEF PlanterInv, TypeInv
<1>6. C4Acts(State, r, TRUE, TRUE)
  BY <1>1, StateType, C4FirstActs
<1>7. State.gs = gameState /\ State.log = log /\ State.exploded = frameFacts.exploded
      /\ State.heard = heard
  BY <1>1, StateType
<1> HIDE DEF r
<1>8. /\ r \in States /\ r.exploded = frameFacts.exploded /\ r.gs.carrier = o
      /\ r.gs.currentDefuser = gameState.currentDefuser /\ r.gs.planter = gameState.planter
      /\ r.gs.currentPlanter = gameState.currentPlanter
      /\ r.gs.isPlanting = gameState.isPlanting
      /\ mimic /\ heard = gameState.carrier => r.heard = r.gs.carrier
      /\ \A t : t \notin {"BombPickup", "BombDropped"} => Same(log, r.log, t)
  BY <1>4, <1>5, <1>6, <1>7 DEF C4Acts
<1> HIDE DEF o, c
<1>9. /\ gameState' = r.gs /\ log' = r.log /\ heard' = r.heard
      /\ frameFacts'.exploded = r.exploded /\ frameFacts'.bombed = frameFacts.bombed
  BY <1>1, <1>2, <1>8, Became
<1>10. TypeInv' /\ FrameInv' /\ EventsInv' /\ HurtInv' /\ DamageTold' /\ Fixed
  <2>1. Same(log, r.log, "EqBomb") /\ Same(log, r.log, "EqWorld")
    BY <1>8
  <2>2. firsts' \subseteq firsts /\ updates' \subseteq updates /\ events' \subseteq events
    BY <1>2
  <2> QED
    BY <1>2, <1>8, <2>1, <2>2, HandlerStep
<1>11. CarrierInv'
  BY <1>1, <1>2, <1>3, <1>8, <1>9, <1>10 DEF CarrierInv, Fixed, o
<1>12. DefuserInv'
  BY <1>1, <1>2, <1>4, <1>8, <1>9, <1>10 DEF DefuserInv, Fixed
<1>13. PlanterInv'
  BY <1>1, <1>2, <1>4, <1>8, <1>9, <1>10 DEF PlanterInv, Fixed
<1>14. PlantLog' /\ AbortLog'
  BY <1>1, <1>2, <1>4, <1>8, <1>9, <1>10 DEF PlantLog, AbortLog, Fixed, Same
<1>15. DefuseLog' /\ OutcomeLog' /\ FactsInv'
  BY <1>1, <1>2, <1>4, <1>8, <1>9, <1>10 DEF DefuseLog, OutcomeLog, FactsInv, Fixed, Same
<1> QED
  BY <1>10, <1>11, <1>12, <1>13, <1>14, <1>15 DEF IInv

(* The entity of the bomb is gone, or the round ends.                       *)
LEMMA PlanterResetStep ==
  ASSUME IInv, inFrame, NEW u \in {"c4Gone", "rules"}, EntityUpdate(u)
  PROVE  IInv'
<1> DEFINE r == Set(State, "currentPlanter", Nil)
<1>1. /\ TypeInv /\ FrameInv /\ EventsInv /\ CarrierInv /\ DefuserInv /\ PlanterInv
      /\ PlantLog /\ AbortLog /\ DefuseLog /\ OutcomeLog /\ FactsInv
  BY DEF IInv
<1>2. /\ events = {} /\ events' = {} /\ u \in updates /\ updates' = updates \ {u}
      /\ firsts' = firsts /\ Becomes(r)
      /\ UNCHANGED <<mimic, hidden, bomb, before, inFrame, delayed, harm, interrupted>>
  BY DEF EntityUpdate, Handled, C4Destroyed, RoundWinReason
<1>3. State \in States /\ State.gs = gameState /\ State.log = log
      /\ State.exploded = frameFacts.exploded /\ State.heard = heard
  BY <1>1, StateType
<1>4. Nil \in Maybe /\ gameState.isPlanting \in SUBSET Players
  BY <1>1 DEF Maybe, TypeInv
<1>5. /\ r \in States /\ r.log = State.log /\ r.exploded = State.exploded /\ r.heard = State.heard
      /\ r.gs.currentPlanter = Nil /\ r.gs.carrier = State.gs.carrier
      /\ r.gs.currentDefuser = State.gs.currentDefuser
      /\ r.gs.isPlanting = State.gs.isPlanting /\ r.gs.planter = State.gs.planter
  BY <1>3, <1>4, FieldSet
<1> HIDE DEF r
<1>6. /\ r.log = log /\ r.exploded = frameFacts.exploded /\ r.heard = heard
      /\ r.gs.currentPlanter = Nil /\ r.gs.carrier = gameState.carrier
      /\ r.gs.currentDefuser = gameState.currentDefuser
      /\ r.gs.isPlanting = gameState.isPlanting /\ r.gs.planter = gameState.planter
  BY <1>3, <1>5
<1>7. /\ gameState' = r.gs /\ log' = log /\ heard' = heard
      /\ frameFacts'.exploded = frameFacts.exploded /\ frameFacts'.bombed = frameFacts.bombed
  BY <1>1, <1>2, <1>5, <1>6, Became
<1>8. TypeInv' /\ FrameInv' /\ EventsInv' /\ HurtInv' /\ DamageTold' /\ Fixed
  <2>1. Same(log, r.log, "EqBomb") /\ Same(log, r.log, "EqWorld")
    BY <1>6, SameLog
  <2> QED
    BY <1>2, <1>5, <2>1, HandlerStep
<1>9. /\ "c4" \in updates' <=> "c4" \in updates
      /\ "planted" \in updates' <=> "planted" \in updates
      /\ "plantedNew" \in updates' <=> "plantedNew" \in updates
      /\ "plantedGone" \in updates' <=> "plantedGone" \in updates
      /\ u # "rules" => ("rules" \in updates' <=> "rules" \in updates)
  BY <1>2
<1>10. CarrierInv'
  BY <1>1, <1>2, <1>6, <1>7, <1>8, <1>9 DEF CarrierInv, Fixed
<1>11. DefuserInv'
  BY <1>1, <1>2, <1>6, <1>7, <1>8, <1>9 DEF DefuserInv, Fixed
<1>12. PlanterInv'
  <2>1. bomb.arming /\ ~bomb.over => FALSE
    BY <1>1, <1>2 DEF FrameInv, Planting, Renewed
  <2>2. before.arming /\ ~before.over /\ "c4" \in updates => bomb.over
    BY <1>1, <1>2 DEF FrameInv
  <2>3. EndDone' <=> EndDone
    BY <1>2, <1>8, <1>9 DEF EndDone, Fixed
  <2> QED
    BY <1>1, <1>6, <1>7, <1>8, <1>9, <2>1, <2>2, <2>3 DEF PlanterInv, Fixed
<1>13. PlantLog' /\ AbortLog'
  <2>1. (EndDone' <=> EndDone) /\ (BeginDone' <=> BeginDone)
    BY <1>2, <1>8, <1>9 DEF EndDone, BeginDone, Fixed
  <2> QED
    BY <1>1, <1>7, <1>8, <1>9, <2>1 DEF PlantLog, AbortLog, Fixed
<1>14. DefuseLog' /\ OutcomeLog' /\ FactsInv'
  BY <1>1, <1>2, <1>7, <1>8, <1>9 DEF DefuseLog, OutcomeLog, FactsInv, Fixed
<1> QED
  BY <1>8, <1>10, <1>11, <1>12, <1>13, <1>14 DEF IInv

(* The entity of a planted bomb is gone.                                    *)
LEMMA PlantedGoneStep ==
  ASSUME IInv, inFrame, EntityUpdate("plantedGone")
  PROVE  IInv'
<1> DEFINE r == Set(State, "currentDefuser", Nil)
<1>1. /\ TypeInv /\ FrameInv /\ EventsInv /\ CarrierInv /\ DefuserInv /\ PlanterInv
      /\ PlantLog /\ AbortLog /\ DefuseLog /\ OutcomeLog /\ FactsInv
  BY DEF IInv
<1>2. /\ events = {} /\ events' = {} /\ "plantedGone" \in updates
      /\ updates' = updates \ {"plantedGone"} /\ firsts' = firsts /\ Becomes(r)
      /\ UNCHANGED <<mimic, hidden, bomb, before, inFrame, delayed, harm, interrupted>>
  BY DEF EntityUpdate, Handled, PlantedDestroyed
<1>3. State \in States /\ State.gs = gameState /\ State.log = log
      /\ State.exploded = frameFacts.exploded /\ State.heard = heard
  BY <1>1, StateType
<1>4. Nil \in Maybe /\ gameState.isPlanting \in SUBSET Players
  BY <1>1 DEF Maybe, TypeInv
<1>5. /\ r \in States /\ r.log = State.log /\ r.exploded = State.exploded /\ r.heard = State.heard
      /\ r.gs.currentDefuser = Nil /\ r.gs.carrier = State.gs.carrier
      /\ r.gs.currentPlanter = State.gs.currentPlanter
      /\ r.gs.isPlanting = State.gs.isPlanting /\ r.gs.planter = State.gs.planter
  BY <1>3, <1>4, FieldSet
<1> HIDE DEF r
<1>6. /\ r.log = log /\ r.exploded = frameFacts.exploded /\ r.heard = heard
      /\ r.gs.currentDefuser = Nil /\ r.gs.carrier = gameState.carrier
      /\ r.gs.currentPlanter = gameState.currentPlanter
      /\ r.gs.isPlanting = gameState.isPlanting /\ r.gs.planter = gameState.planter
  BY <1>3, <1>5
<1>7. /\ gameState' = r.gs /\ log' = log /\ heard' = heard
      /\ frameFacts'.exploded = frameFacts.exploded /\ frameFacts'.bombed = frameFacts.bombed
  BY <1>1, <1>2, <1>5, <1>6, Became
<1>8. TypeInv' /\ FrameInv' /\ EventsInv' /\ HurtInv' /\ DamageTold' /\ Fixed
  <2>1. Same(log, r.log, "EqBomb") /\ Same(log, r.log, "EqWorld")
    BY <1>6, SameLog
  <2> QED
    BY <1>2, <1>5, <2>1, HandlerStep
<1>9. Renewed /\ updates \subseteq {"c4Gone", "plantedGone"} /\ firsts \subseteq {"c4"}
      /\ updates' \subseteq {"c4Gone"}
  BY <1>1, <1>2 DEF FrameInv, Planting
<1>10. ~Planting /\ ~Ticking /\ bomb.planted = "none" /\ bomb.defuser = Nil
       /\ ~bomb.arming /\ ByPawn(bomb.defuser) = Nil
  BY <1>1, <1>9, NamedType DEF Renewed, Planting, Ticking, FrameInv, Sane, Maybe
<1>11. CarrierInv'
  BY <1>1, <1>2, <1>6, <1>7, <1>8, <1>9 DEF CarrierInv, Fixed
<1>12. DefuserInv'
  BY <1>2, <1>6, <1>7, <1>8, <1>9, <1>10 DEF DefuserInv, Fixed
<1>13. PlanterInv'
  BY <1>1, <1>2, <1>6, <1>7, <1>8, <1>9, <1>10 DEF PlanterInv, Fixed
<1>14. PlantLog' /\ AbortLog'
  BY <1>1, <1>2, <1>7, <1>8, <1>9, <1>10 DEF PlantLog, AbortLog, Fixed
<1>15. DefuseLog' /\ OutcomeLog' /\ FactsInv'
  BY <1>1, <1>2, <1>7, <1>8, <1>9, <1>10 DEF DefuseLog, OutcomeLog, FactsInv, Fixed
<1> QED
  BY <1>8, <1>11, <1>12, <1>13, <1>14, <1>15 DEF IInv

(* The bomb has been planted.                                               *)
LEMMA PlantedNewStep ==
  ASSUME IInv, inFrame, EntityUpdate("plantedNew")
  PROVE  IInv'
<1> DEFINE r == PlantedCreated(State)
           p == ByPawn(bomb.planter)
<1>1. /\ TypeInv /\ FrameInv /\ EventsInv /\ CarrierInv /\ DefuserInv /\ PlanterInv
      /\ PlantLog /\ AbortLog /\ DefuseLog /\ OutcomeLog /\ FactsInv
  BY DEF IInv
<1>2. /\ events = {} /\ events' = {} /\ "plantedNew" \in updates
      /\ updates' = updates \ {"plantedNew"} /\ firsts' = firsts /\ Becomes(r)
      /\ UNCHANGED <<mimic, hidden, bomb, before, inFrame, delayed, harm, interrupted>>
  BY DEF EntityUpdate, Handled
<1>3. State \in States /\ State.gs = gameState /\ State.log = log
      /\ State.exploded = frameFacts.exploded /\ State.heard = heard
  BY <1>1, StateType
<1>4. Planting /\ updates \subseteq {"c4Gone", "plantedNew"} /\ firsts \subseteq {"planted"}
  BY <1>1, <1>2 DEF FrameInv
<1>5. /\ ~Ticking /\ ~Aborted /\ bomb.planted = "ticking" /\ bomb.defuser = Nil /\ bomb.owner = Nil
      /\ ~bomb.arming /\ before.arming /\ ~bomb.over /\ ~before.over
      /\ bomb.planter = before.owner /\ before.owner # Nil
      /\ ByPawn(bomb.defuser) = Nil /\ ByPawn(bomb.owner) = Nil
  BY <1>1, <1>4, NamedType DEF Planting, Ticking, Aborted, FrameInv, Sane, Maybe
<1>6. /\ p \in Maybe /\ (p # Nil => p = bomb.planter) /\ (mimic => Named(bomb.planter) = p)
      /\ (p = Nil => bomb.planter \in hidden)
  BY <1>1, <1>5, OwnTypes, NamedType
<1>7. /\ r \in States /\ r.exploded = State.exploded
      /\ r.gs.carrier = Nil /\ r.gs.currentPlanter = Nil /\ r.gs.planter = p
      /\ r.gs.currentDefuser = State.gs.currentDefuser
      /\ r.gs.isPlanting = State.gs.isPlanting \ {p}
      /\ mimic => r.heard = Nil /\ SaysNow(State.log, r.log, "BombPlanted", p)
      /\ \A t : (t # "BombPlanted" \/ ~mimic) => Same(State.log, r.log, t)
  BY <1>3, PlantedCreatedActs
<1> HIDE DEF r, p
<1>8. /\ gameState' = r.gs /\ log' = r.log /\ heard' = r.heard
      /\ frameFacts'.exploded = frameFacts.exploded /\ frameFacts'.bombed = frameFacts.bombed
  BY <1>1, <1>2, <1>3, <1>7, Became
<1>9. \A t : (t # "BombPlanted" \/ ~mimic) => Same(log, r.log, t)
  BY <1>3, <1>7
<1>10. TypeInv' /\ FrameInv' /\ EventsInv' /\ HurtInv' /\ DamageTold' /\ Fixed
  <2>1. Same(log, r.log, "EqBomb") /\ Same(log, r.log, "EqWorld")
    BY <1>9
  <2> QED
    BY <1>2, <1>7, <2>1, HandlerStep
<1>11. /\ "c4" \notin updates' /\ "planted" \notin updates' /\ "planted" \notin updates
       /\ "plantedNew" \notin updates' /\ "plantedGone" \notin updates'
       /\ "plantedGone" \notin updates /\ "c4" \notin firsts'
  BY <1>2, <1>4
<1>12. CarrierInv'
  BY <1>5, <1>7, <1>8, <1>10, <1>11 DEF CarrierInv, Fixed
<1>13. DefuserInv'
  BY <1>1, <1>3, <1>5, <1>7, <1>8, <1>10, <1>11 DEF DefuserInv, Fixed, p
<1>14. EndDone' /\ (mimic => ~EndDone) /\ (~mimic => EndDone)
  BY <1>2, <1>10, <1>11 DEF EndDone, Fixed
<1>15. PlanterInv'
  <2>1. r.gs.isPlanting = gameState.isPlanting \ {p}
    BY <1>3, <1>7
  <2>2. ASSUME NEW q \in r.gs.isPlanting PROVE q \in interrupted
    <3>1. mimic => q \notin hidden
      BY <1>1, <2>1 DEF PlanterInv
    <3>2. q \in interrupted \/ (q = before.owner /\ ~EndDone)
      BY <1>1, <1>4, <1>5, <2>1 DEF PlanterInv
    <3> QED
      BY <1>5, <1>6, <1>14, <2>1, <3>1, <3>2
  <2>3. mimic => r.gs.isPlanting \cap hidden = {}
    BY <1>1, <2>1 DEF PlanterInv
  <2> QED
    BY <1>1, <1>5, <1>7, <1>8, <1>10, <1>11, <2>2, <2>3 DEF PlanterInv, Fixed
<1>16. PlantLog'
  <2>1. NoneIn(r.log, "BombPlantBegin")
    BY <1>1, <1>5, <1>9 DEF PlantLog, Same
  <2>2. OnceIn(r.log, "BombPlanted", Named(bomb.planter))
    <3>1. CASE mimic
      <4>1. NoneIn(log, "BombPlanted")
        BY <1>1, <1>14, <3>1 DEF PlantLog
      <4> QED
        BY <1>3, <1>6, <1>7, <3>1, <4>1 DEF SaysNow
    <3>2. CASE ~mimic
      <4>1. OnceIn(log, "BombPlanted", Named(bomb.planter))
        BY <1>1, <1>4, <1>14, <3>2 DEF PlantLog
      <4> QED
        BY <1>9, <3>2, <4>1 DEF Same
    <3> QED
      BY <3>1, <3>2
  <2> QED
    BY <1>4, <1>5, <1>8, <1>10, <1>14, <2>1, <2>2 DEF PlantLog, Fixed
<1>17. AbortLog'
  <2>1. NoneIn(log, "BombPlantAborted")
    BY <1>1, <1>5 DEF AbortLog
  <2> QED
    BY <1>5, <1>8, <1>9, <1>10, <2>1 DEF AbortLog, Fixed, Same
<1>18. DefuseLog' /\ OutcomeLog' /\ FactsInv'
  BY <1>1, <1>2, <1>5, <1>8, <1>9, <1>10 DEF DefuseLog, OutcomeLog, FactsInv, Fixed, Same
<1> QED
  BY <1>10, <1>12, <1>13, <1>15, <1>16, <1>17, <1>18 DEF IInv

(* The first values of a planted bomb, which nobody defuses.                *)
LEMMA PlantedFirstStep ==
  ASSUME IInv, inFrame, FirstValues("planted")
  PROVE  IInv'
<1> DEFINE r == PlantedFirst(State)
<1>1. /\ TypeInv /\ FrameInv /\ EventsInv /\ CarrierInv /\ DefuserInv /\ PlanterInv
      /\ PlantLog /\ AbortLog /\ DefuseLog /\ OutcomeLog /\ FactsInv
  BY DEF IInv
<1>2. /\ events = {} /\ events' = {} /\ updates = {} /\ updates' = {} /\ "planted" \in firsts
      /\ firsts' = firsts \ {"planted"} /\ Becomes(r)
      /\ UNCHANGED <<mimic, hidden, bomb, before, inFrame, delayed, harm, interrupted>>
  BY DEF FirstValues
<1>3. State \in States /\ State.gs = gameState /\ State.log = log
      /\ State.exploded = frameFacts.exploded /\ State.heard = heard
  BY <1>1, StateType
<1>4. Planting /\ firsts' = {} /\ "c4" \notin firsts
  BY <1>1, <1>2 DEF FrameInv
<1>5. bomb.defuser = Nil /\ ByPawn(bomb.defuser) = Nil /\ bomb.planted = "ticking"
  BY <1>4, NamedType DEF Planting, Maybe
<1>6. gameState.currentDefuser = Nil
  BY <1>1, <1>2, <1>5 DEF DefuserInv
<1>7. PlantedActs(State, r, FALSE, TRUE)
  BY <1>3, PlantedFirstActs
<1> HIDE DEF r
<1>8. /\ r \in States /\ r.heard = heard /\ r.exploded = frameFacts.exploded
      /\ r.gs.currentDefuser = gameState.currentDefuser /\ r.gs.carrier = gameState.carrier
      /\ r.gs.currentPlanter = gameState.currentPlanter
      /\ r.gs.isPlanting = gameState.isPlanting /\ r.gs.planter = gameState.planter
      /\ \A t : Same(log, r.log, t)
  BY <1>3, <1>5, <1>6, <1>7 DEF PlantedActs
<1>9. /\ gameState' = r.gs /\ log' = r.log /\ heard' = r.heard
      /\ frameFacts'.exploded = r.exploded /\ frameFacts'.bombed = frameFacts.bombed
  BY <1>1, <1>2, <1>8, Became
<1>10. TypeInv' /\ FrameInv' /\ EventsInv' /\ HurtInv' /\ DamageTold' /\ Fixed
  <2>1. Same(log, r.log, "EqBomb") /\ Same(log, r.log, "EqWorld")
    BY <1>8
  <2>2. firsts' \subseteq firsts /\ updates' \subseteq updates /\ events' \subseteq events
    BY <1>2
  <2> QED
    BY <1>2, <1>8, <2>1, <2>2, HandlerStep
<1>11. CarrierInv' /\ DefuserInv'
  BY <1>1, <1>2, <1>4, <1>8, <1>9, <1>10 DEF CarrierInv, DefuserInv, Fixed
<1>12. (EndDone' <=> EndDone) /\ (BeginDone' <=> BeginDone)
  BY <1>2, <1>10 DEF EndDone, BeginDone, Fixed
<1>13. PlanterInv'
  BY <1>1, <1>2, <1>8, <1>9, <1>10, <1>12 DEF PlanterInv, Fixed
<1>14. PlantLog' /\ AbortLog'
  BY <1>1, <1>2, <1>8, <1>9, <1>10, <1>12 DEF PlantLog, AbortLog, Fixed, Same
<1>15. DefuseLog' /\ OutcomeLog' /\ FactsInv'
  <2>1. DefuseLog'
    BY <1>1, <1>2, <1>8, <1>9, <1>10 DEF DefuseLog, Fixed, Same
  <2>2. OutcomeLog'
    BY <1>1, <1>2, <1>8, <1>9, <1>10 DEF OutcomeLog, Fixed, Same
  <2>3. FactsInv'
    BY <1>1, <1>8, <1>9, <1>10 DEF FactsInv, Fixed, Same
  <2> QED
    BY <2>1, <2>2, <2>3
<1> QED
  BY <1>10, <1>11, <1>13, <1>14, <1>15 DEF IInv

(* The planted bomb stops ticking or gets another defuser.                  *)
LEMMA PlantedStep ==
  ASSUME IInv, inFrame, EntityUpdate("planted")
  PROVE  IInv'
<1> DEFINE r == PlantedUpdate(State)
           c == gameState.currentDefuser
           d == ByPawn(bomb.defuser)
           b == ByPawn(before.defuser)
           stop == bomb.planted # "ticking"
           chg == bomb.defuser # before.defuser
           defused == bomb.planted = "defused"
<1>1. /\ TypeInv /\ FrameInv /\ EventsInv /\ CarrierInv /\ DefuserInv /\ PlanterInv
      /\ PlantLog /\ AbortLog /\ DefuseLog /\ OutcomeLog /\ FactsInv
  BY DEF IInv
<1>2. /\ events = {} /\ events' = {} /\ "planted" \in updates
      /\ updates' = updates \ {"planted"} /\ firsts' = firsts /\ Becomes(r)
      /\ UNCHANGED <<mimic, hidden, bomb, before, inFrame, delayed, harm, interrupted>>
  BY DEF EntityUpdate, Handled
<1>3. State \in States /\ State.gs = gameState /\ State.log = log
      /\ State.exploded = frameFacts.exploded /\ State.heard = heard
  BY <1>1, StateType
<1>4. Ticking /\ updates \subseteq {"planted", "rules"} /\ firsts = {}
  BY <1>1, <1>2 DEF FrameInv
<1>5. PlantedActs(State, r, stop, chg)
  BY <1>3, PlantedUpdateActs
<1>6. /\ ~Planting /\ ~Aborted /\ ~bomb.arming /\ ~before.arming
      /\ bomb.planted \in {"ticking", "defused", "exploded"} /\ bomb.planter # Nil
      /\ (defused => chg /\ bomb.defuser = Nil /\ DOMAIN harm = {})
      /\ (bomb.planted = "exploded" => bomb.defuser \in {before.defuser, Nil})
      /\ (bomb.planted = "ticking" => chg)
  BY <1>1, <1>2, <1>4 DEF Ticking, Planting, Aborted, FrameInv, Sane, TypeInv, Bombs
<1>7. /\ c \in Maybe /\ d \in Maybe /\ b \in Maybe
      /\ (bomb.defuser = Nil => d = Nil) /\ (before.defuser = Nil => b = Nil)
      /\ (mimic => Named(bomb.defuser) = d /\ Named(before.defuser) = b)
      /\ (b # Nil => b = before.defuser)
      /\ (mimic => Named(bomb.planter) = ByPawn(bomb.planter))
      /\ (~chg => d = b)
  BY <1>1, OwnTypes, NamedType DEF Maybe
<1>8. /\ (mimic \/ (bomb.planted = "ticking" /\ bomb.defuser = Nil) => c = b)
      /\ (~mimic /\ bomb.planted = "exploded" => c = Nil)
      /\ gameState.planter = ByPawn(bomb.planter)
  BY <1>1, <1>2, <1>4, <1>6 DEF DefuserInv
<1> HIDE DEF r, c, d, b, stop, chg, defused
<1>9. /\ r \in States /\ r.heard = heard
      /\ r.exploded = IF stop /\ c = Nil /\ mimic THEN TRUE ELSE frameFacts.exploded
      /\ r.gs.currentDefuser = IF chg THEN d ELSE c
      /\ r.gs.carrier = gameState.carrier /\ r.gs.currentPlanter = gameState.currentPlanter
      /\ r.gs.isPlanting = gameState.isPlanting /\ r.gs.planter = gameState.planter
      /\ \A t : t \notin {"BombDefuseStart", "BombDefuseAborted", "BombDefused", "BombExplode"}
                  => Same(log, r.log, t)
  BY <1>3, <1>5 DEF PlantedActs, c, d
<1>10. /\ IF stop /\ c = Nil /\ mimic THEN SaysNow(log, r.log, "BombExplode", gameState.planter)
          ELSE Same(log, r.log, "BombExplode")
       /\ IF defused /\ mimic THEN SaysNow(log, r.log, "BombDefused", b)
          ELSE Same(log, r.log, "BombDefused")
       /\ IF chg /\ bomb.defuser # Nil /\ mimic THEN SaysNow(log, r.log, "BombDefuseStart", d)
          ELSE Same(log, r.log, "BombDefuseStart")
       /\ IF chg /\ bomb.defuser = Nil /\ ~defused /\ c # Nil
          THEN SaysNow(log, r.log, "BombDefuseAborted", c)
          ELSE Same(log, r.log, "BombDefuseAborted")
  <2>1. defused <=> stop /\ bomb.planted = "defused"
    BY DEF defused, stop
  <2> QED
    BY <1>3, <1>5, <2>1 DEF PlantedActs, c, d, b, defused
<1>11. /\ gameState' = r.gs /\ log' = r.log /\ heard' = r.heard
       /\ frameFacts'.exploded = r.exploded /\ frameFacts'.bombed = frameFacts.bombed
  BY <1>1, <1>2, <1>9, Became
<1>12. TypeInv' /\ FrameInv' /\ EventsInv' /\ HurtInv' /\ DamageTold' /\ Fixed
  <2>1. Same(log, r.log, "EqBomb") /\ Same(log, r.log, "EqWorld")
    BY <1>9
  <2> QED
    BY <1>2, <1>9, <2>1, HandlerStep
<1>13. /\ "c4" \notin updates' /\ "c4" \notin updates /\ "planted" \notin updates'
       /\ "plantedNew" \notin updates' /\ "plantedNew" \notin updates
       /\ "plantedGone" \notin updates' /\ "c4" \notin firsts' /\ "c4" \notin firsts
       /\ ("rules" \in updates' <=> "rules" \in updates)
  BY <1>2, <1>4
<1>14. CarrierInv'
  BY <1>1, <1>9, <1>11, <1>12, <1>13 DEF CarrierInv, Fixed
<1>15. DefuserInv'
  <2>1. bomb.planted # "exploded" => r.gs.currentDefuser = d
    BY <1>6, <1>9 DEF defused
  <2>2. mimic => r.gs.currentDefuser = d
    BY <1>7, <1>8, <1>9
  <2>3. ~mimic /\ bomb.planted = "exploded" => r.gs.currentDefuser = Nil
    BY <1>6, <1>7, <1>8, <1>9 DEF chg
  <2> QED
    BY <1>8, <1>9, <1>11, <1>12, <1>13, <2>1, <2>2, <2>3 DEF DefuserInv, Fixed, d
<1>16. PlanterInv'
  BY <1>1, <1>6, <1>9, <1>11, <1>12, <1>13 DEF PlanterInv, Fixed
<1>17. PlantLog' /\ AbortLog'
  BY <1>1, <1>6, <1>9, <1>11, <1>12 DEF PlantLog, AbortLog, Fixed, Same
<1>18. DefuseLog'
  <2>1. IF chg /\ bomb.defuser # Nil
        THEN OnceIn(r.log, "BombDefuseStart", Named(bomb.defuser))
        ELSE NoneIn(r.log, "BombDefuseStart")
    BY <1>1, <1>2, <1>7, <1>10 DEF DefuseLog, Same, SaysNow, chg
  <2>2. NoneIn(log, "BombDefuseAborted")
    BY <1>1, <1>2 DEF DefuseLog
  <2>3. IF /\ bomb.defuser = Nil /\ b # Nil
           /\ bomb.planted = "ticking" \/ (bomb.planted = "exploded" /\ mimic)
        THEN OnceIn(r.log, "BombDefuseAborted", before.defuser)
        ELSE NoneIn(r.log, "BombDefuseAborted")
    <3>1. (bomb.defuser = Nil /\ b # Nil) => chg
      BY <1>7 DEF chg
    <3>2. (defused <=> bomb.planted = "defused") /\ (chg /\ bomb.defuser = Nil => before.defuser # Nil)
      BY DEF defused, chg
    <3> QED
      BY <1>6, <1>7, <1>8, <1>10, <2>2, <3>1, <3>2 DEF Same, SaysNow
  <2> QED
    BY <1>2, <1>4, <1>11, <1>12, <1>13, <2>1, <2>3 DEF DefuseLog, Fixed, chg, b
<1>19. OutcomeLog'
  <2>1. IF defused THEN OnceIn(r.log, "BombDefused", Named(before.defuser))
        ELSE NoneIn(r.log, "BombDefused")
    BY <1>1, <1>2, <1>4, <1>7, <1>10 DEF OutcomeLog, Same, SaysNow, defused
  <2>2. IF (mimic /\ stop /\ b = Nil) \/ (~mimic /\ bomb.planted = "exploded")
        THEN OnceIn(r.log, "BombExplode", Named(bomb.planter)) ELSE NoneIn(r.log, "BombExplode")
    <3>1. CASE mimic
      <4>1. NoneIn(log, "BombExplode")
        BY <1>1, <1>2, <3>1 DEF OutcomeLog
      <4> QED
        BY <1>7, <1>8, <1>10, <3>1, <4>1 DEF Same, SaysNow
    <3>2. CASE ~mimic
      BY <1>1, <1>2, <1>4, <1>10, <3>2 DEF OutcomeLog, Same
    <3> QED
      BY <3>1, <3>2
  <2> QED
    BY <1>2, <1>4, <1>11, <1>12, <1>13, <2>1, <2>2 DEF OutcomeLog, Fixed, defused, stop, b
<1>20. FactsInv'
  <2>1. ~NoneIn(r.log, "BombExplode") => r.exploded
    BY <1>1, <1>9, <1>10 DEF FactsInv, Same
  <2>2. r.exploded => bomb.planted = "exploded" \/ DOMAIN harm = {}
    BY <1>1, <1>6, <1>9 DEF FactsInv, stop, defused
  <2> QED
    BY <1>1, <1>11, <1>12, <2>1, <2>2 DEF FactsInv, Fixed
<1> QED
  BY <1>12, <1>14, <1>15, <1>16, <1>17, <1>18, <1>19, <1>20 DEF IInv

(* A game event of the bomb.                                                *)
LEMMA BombEventStep ==
  ASSUME IInv, NEW e \in events, GameEvent(e),
         e.do \notin {"player_hurt", "player_falldamage", "target_bombed"}
  PROVE  IInv'
<1> DEFINE r == BombEvent(State, e)
           p == e.who
           do == e.do
<1>1. /\ TypeInv /\ FrameInv /\ EventsInv /\ CarrierInv /\ DefuserInv /\ PlanterInv
      /\ PlantLog /\ AbortLog /\ DefuseLog /\ OutcomeLog /\ FactsInv
  BY DEF IInv
<1>2. /\ inFrame /\ events' = events \ {e} /\ updates' = updates /\ firsts' = firsts /\ Becomes(r)
      /\ UNCHANGED <<mimic, hidden, bomb, before, inFrame, delayed, harm, interrupted>>
  BY DEF GameEvent
<1>3. State \in States /\ State.gs = gameState /\ State.log = log
      /\ State.exploded = frameFacts.exploded /\ State.heard = heard
  BY <1>1, StateType
<1>4. e \in [do : EventNames, who : Players \cup {Nil}]
  BY <1>1 DEF TypeInv
<1>5. e.do \in BombDoings /\ e = Ev(e.do, e.who)
  BY <1>4 DEF EventNames, BombDoings, Ev
<1>6. ~mimic /\ e.who \in Players
  BY <1>1, <1>4, <1>5 DEF EventsInv, BombDoings
<1>7. /\ do = "bomb_beginplant" => /\ p = bomb.owner /\ bomb.arming /\ ~before.arming
                                   /\ "c4" \in updates
      /\ do = "bomb_planted" => /\ p = bomb.planter /\ Planting /\ "plantedNew" \in updates
      /\ do = "bomb_begindefuse" =>
           /\ p = bomb.defuser /\ bomb.defuser \notin {before.defuser, Nil}
           /\ Ticking /\ bomb.planted = "ticking" /\ "planted" \in updates
      /\ do = "bomb_defused" =>
           p = before.defuser /\ Ticking /\ bomb.planted = "defused" /\ "planted" \in updates
      /\ do = "bomb_exploded" =>
           p = bomb.planter /\ Ticking /\ bomb.planted = "exploded" /\ "planted" \in updates
  BY <1>1 DEF EventsInv
<1>8. \A x, q : Ev(x, q) \in events' <=> Ev(x, q) \in events /\ (x # do \/ q # p)
  BY <1>2, <1>5 DEF Ev
<1>9. EventActs(State, r, do, p)
  BY <1>3, <1>5, <1>6, BombEventActs
<1>10. Ev(do, p) \in events
  BY <1>5
<1> HIDE DEF r, p, do
<1>11. /\ r \in States
       /\ r.gs.carrier = gameState.carrier /\ r.gs.planter = gameState.planter
       /\ r.gs.currentPlanter = IF do = "bomb_beginplant" THEN p
                                ELSE IF do = "bomb_planted" THEN Nil ELSE gameState.currentPlanter
       /\ r.gs.currentDefuser = IF do = "bomb_begindefuse" THEN p
                                ELSE IF do \in {"bomb_defused", "bomb_exploded"} THEN Nil
                                ELSE gameState.currentDefuser
       /\ r.gs.isPlanting = IF do = "bomb_beginplant" THEN gameState.isPlanting \cup {p}
                            ELSE IF do = "bomb_planted" THEN gameState.isPlanting \ {p}
                            ELSE gameState.isPlanting
       /\ r.exploded = IF do = "bomb_exploded" THEN TRUE ELSE frameFacts.exploded
       /\ \A t : t # Saying(do) => Same(log, r.log, t)
       /\ SaysNow(log, r.log, Saying(do), p)
  BY <1>3, <1>9 DEF EventActs
<1>12. /\ gameState' = r.gs /\ log' = r.log /\ heard' = r.heard
       /\ frameFacts'.exploded = r.exploded /\ frameFacts'.bombed = frameFacts.bombed
  BY <1>1, <1>2, <1>11, Became
<1>13. do \in BombDoings /\ p \in Players
  BY <1>5, <1>6 DEF do, p
<1>14. /\ Saying(do) = "BombPlantBegin" <=> do = "bomb_beginplant"
       /\ Saying(do) = "BombPlanted" <=> do = "bomb_planted"
       /\ Saying(do) = "BombDefuseStart" <=> do = "bomb_begindefuse"
       /\ Saying(do) = "BombDefused" <=> do = "bomb_defused"
       /\ Saying(do) = "BombExplode" <=> do = "bomb_exploded"
       /\ Saying(do) \notin {"BombPlantAborted", "BombDefuseAborted", "EqBomb", "EqWorld"}
  BY <1>13 DEF Saying, BombDoings
<1>15. TypeInv' /\ FrameInv' /\ EventsInv' /\ HurtInv' /\ DamageTold' /\ Fixed
  <2>1. Same(log, r.log, "EqBomb") /\ Same(log, r.log, "EqWorld")
    BY <1>11, <1>14
  <2>2. \A x \in events : x \notin events' => x.do \notin {"player_hurt", "player_falldamage"}
    BY <1>2, <1>5 DEF BombDoings
  <2>3. events' \subseteq events /\ updates' \subseteq updates /\ firsts' \subseteq firsts
    BY <1>2
  <2> QED
    BY <1>2, <1>11, <2>1, <2>2, <2>3, HandlerStep
<1>16. /\ Named(bomb.owner) = bomb.owner /\ Named(before.owner) = before.owner
       /\ Named(bomb.planter) = bomb.planter /\ Named(bomb.defuser) = bomb.defuser
       /\ Named(before.defuser) = before.defuser
  BY <1>6 DEF Named
<1>17. CarrierInv'
  BY <1>1, <1>2, <1>6, <1>11, <1>12, <1>15 DEF CarrierInv, Fixed
<1>18. DefuserInv'
  <2>1. "planted" \notin updates => r.gs.currentDefuser = gameState.currentDefuser
    BY <1>7, <1>11
  <2>2. bomb.planted = "ticking" /\ bomb.defuser = Nil
          => r.gs.currentDefuser = gameState.currentDefuser
    BY <1>7, <1>11
  <2>3. Ticking /\ bomb.planted = "exploded" /\ Ev("bomb_exploded", bomb.planter) \notin events'
          => r.gs.currentDefuser = Nil
    <3>1. CASE do = "bomb_exploded"
      BY <1>11, <3>1
    <3>2. CASE do # "bomb_exploded"
      BY <1>1, <1>6, <1>7, <1>8, <1>11, <3>2 DEF DefuserInv
    <3> QED
      BY <3>1, <3>2
  <2> QED
    BY <1>1, <1>2, <1>6, <1>11, <1>12, <1>15, <2>1, <2>2, <2>3 DEF DefuserInv, Fixed
<1>19. /\ BeginDone' <=> BeginDone \/ (do = "bomb_beginplant")
       /\ EndDone' <=> EndDone \/ (do = "bomb_planted")
       /\ do = "bomb_beginplant" => ~BeginDone
       /\ do = "bomb_planted" => ~EndDone
  BY <1>2, <1>6, <1>7, <1>8, <1>10, <1>15 DEF BeginDone, EndDone, Fixed
<1>20. PlanterInv'
  <2>1. \A q \in r.gs.isPlanting :
          \/ q \in interrupted
          \/ bomb.arming /\ q = bomb.owner
          \/ before.arming /\ q = before.owner /\ ("c4" \in updates' \/ (Planting /\ ~EndDone'))
    <3> TAKE q \in r.gs.isPlanting
    <3>1. CASE do = "bomb_beginplant" /\ q = p
      BY <1>7, <3>1
    <3>2. CASE do = "bomb_planted"
      <4>1. q # before.owner
        BY <1>7, <1>11, <3>2 DEF Planting
      <4> QED
        BY <1>1, <1>11, <3>2, <4>1 DEF PlanterInv
    <3>3. CASE do # "bomb_planted" /\ ~(do = "bomb_beginplant" /\ q = p)
      BY <1>1, <1>2, <1>11, <1>19, <3>3 DEF PlanterInv
    <3> QED
      BY <3>1, <3>2, <3>3
  <2>2. before.arming /\ ~before.over /\ before.owner # Nil /\ "c4" \in updates
          => r.gs.currentPlanter = before.owner \/ (bomb.over /\ r.gs.currentPlanter = Nil)
    <3>1. "c4" \in updates => ~Planting
      BY <1>1 DEF FrameInv, Carried, Planting
    <3> QED
      BY <1>1, <1>7, <1>11, <1>16, <3>1 DEF PlanterInv
  <2>3. bomb.arming /\ ~bomb.over /\ bomb.owner # Nil /\ (before.arming \/ BeginDone')
          => bomb.owner \in r.gs.isPlanting /\ r.gs.currentPlanter = bomb.owner
    <3>1. CASE do = "bomb_beginplant"
      BY <1>7, <1>11, <3>1
    <3>2. CASE do = "bomb_planted"
      BY <1>7, <3>2 DEF Planting
    <3>3. CASE do \notin {"bomb_beginplant", "bomb_planted"}
      BY <1>1, <1>11, <1>16, <1>19, <3>3 DEF PlanterInv
    <3> QED
      BY <3>1, <3>2, <3>3
  <2>4. do = "bomb_beginplant" => ~before.over /\ ~bomb.over
    BY <1>1, <1>7 DEF FrameInv, Carried
  <2>5. /\ before.over => r.gs.currentPlanter = Nil
        /\ bomb.over /\ "rules" \notin updates => r.gs.currentPlanter = Nil
    BY <1>1, <1>11, <2>4 DEF PlanterInv
  <2> QED
    BY <1>1, <1>2, <1>6, <1>12, <1>15, <1>16, <2>1, <2>2, <2>3, <2>5 DEF PlanterInv, Fixed
<1>21. PlantLog'
  <2>1. IF bomb.arming /\ ~before.arming /\ bomb.owner # Nil /\ BeginDone'
        THEN OnceIn(r.log, "BombPlantBegin", bomb.owner) ELSE NoneIn(r.log, "BombPlantBegin")
    <3>1. CASE do = "bomb_beginplant"
      <4>1. NoneIn(log, "BombPlantBegin") /\ SaysNow(log, r.log, "BombPlantBegin", p)
        BY <1>1, <1>11, <1>14, <1>19, <3>1 DEF PlantLog
      <4>2. bomb.owner = p /\ p # Nil /\ bomb.arming /\ ~before.arming
        BY <1>7, <1>13, <3>1, BombAssumption
      <4> QED
        BY <1>19, <3>1, <4>1, <4>2 DEF SaysNow
    <3>2. CASE do # "bomb_beginplant"
      BY <1>1, <1>11, <1>14, <1>16, <1>19, <3>2 DEF PlantLog, Same
    <3> QED
      BY <3>1, <3>2
  <2>2. IF Planting /\ EndDone'
        THEN OnceIn(r.log, "BombPlanted", bomb.planter) ELSE NoneIn(r.log, "BombPlanted")
    <3>1. CASE do = "bomb_planted"
      <4>1. NoneIn(log, "BombPlanted") /\ SaysNow(log, r.log, "BombPlanted", p)
        BY <1>1, <1>11, <1>14, <1>19, <3>1 DEF PlantLog
      <4> QED
        BY <1>7, <1>19, <3>1, <4>1 DEF SaysNow
    <3>2. CASE do # "bomb_planted"
      BY <1>1, <1>11, <1>14, <1>16, <1>19, <3>2 DEF PlantLog, Same
    <3> QED
      BY <3>1, <3>2
  <2> QED
    BY <1>12, <1>15, <1>16, <2>1, <2>2 DEF PlantLog, Fixed
<1>22. AbortLog'
  <2>1. Same(log, r.log, "BombPlantAborted")
    BY <1>11, <1>14
  <2> QED
    BY <1>1, <1>2, <1>12, <1>15, <2>1 DEF AbortLog, Fixed, Same
<1>23. DefuseLog'
  <2>1. Same(log, r.log, "BombDefuseAborted")
    BY <1>11, <1>14
  <2>2. IF /\ bomb.defuser \notin {before.defuser, Nil}
           /\ Ev("bomb_begindefuse", bomb.defuser) \notin events'
        THEN OnceIn(r.log, "BombDefuseStart", bomb.defuser) ELSE NoneIn(r.log, "BombDefuseStart")
    <3>1. CASE do = "bomb_begindefuse"
      <4>1. NoneIn(log, "BombDefuseStart") /\ SaysNow(log, r.log, "BombDefuseStart", p)
        BY <1>1, <1>6, <1>7, <1>10, <1>11, <1>14, <3>1 DEF DefuseLog
      <4>2. Ev("bomb_begindefuse", bomb.defuser) \notin events'
        BY <1>7, <1>8, <3>1
      <4> QED
        BY <1>7, <3>1, <4>1, <4>2 DEF SaysNow
    <3>2. CASE do # "bomb_begindefuse"
      <4>1. Same(log, r.log, "BombDefuseStart")
        BY <1>11, <1>14, <3>2
      <4>2. Ev("bomb_begindefuse", bomb.defuser) \notin events'
              <=> Ev("bomb_begindefuse", bomb.defuser) \notin events
        BY <1>8, <3>2
      <4> QED
        BY <1>1, <1>6, <1>16, <4>1, <4>2 DEF DefuseLog, Same
    <3> QED
      BY <3>1, <3>2
  <2> QED
    BY <1>1, <1>2, <1>6, <1>12, <1>15, <1>16, <2>1, <2>2 DEF DefuseLog, Fixed, Same
<1>24. OutcomeLog'
  <2>1. IF /\ Ticking /\ bomb.planted = "defused"
           /\ Ev("bomb_defused", before.defuser) \notin events'
        THEN OnceIn(r.log, "BombDefused", before.defuser) ELSE NoneIn(r.log, "BombDefused")
    <3>1. CASE do = "bomb_defused"
      <4>1. NoneIn(log, "BombDefused") /\ SaysNow(log, r.log, "BombDefused", p)
        BY <1>1, <1>6, <1>7, <1>10, <1>11, <1>14, <3>1 DEF OutcomeLog
      <4>2. Ev("bomb_defused", before.defuser) \notin events'
        BY <1>7, <1>8, <3>1
      <4> QED
        BY <1>7, <3>1, <4>1, <4>2 DEF SaysNow
    <3>2. CASE do # "bomb_defused"
      <4>1. Same(log, r.log, "BombDefused")
        BY <1>11, <1>14, <3>2
      <4>2. Ev("bomb_defused", before.defuser) \notin events'
              <=> Ev("bomb_defused", before.defuser) \notin events
        BY <1>8, <3>2
      <4> QED
        BY <1>1, <1>6, <1>16, <4>1, <4>2 DEF OutcomeLog, Same
    <3> QED
      BY <3>1, <3>2
  <2>2. IF /\ Ticking /\ bomb.planted = "exploded"
           /\ Ev("bomb_exploded", bomb.planter) \notin events'
        THEN OnceIn(r.log, "BombExplode", bomb.planter) ELSE NoneIn(r.log, "BombExplode")
    <3>1. CASE do = "bomb_exploded"
      <4>1. NoneIn(log, "BombExplode") /\ SaysNow(log, r.log, "BombExplode", p)
        BY <1>1, <1>6, <1>7, <1>10, <1>11, <1>14, <3>1 DEF OutcomeLog
      <4>2. Ev("bomb_exploded", bomb.planter) \notin events'
        BY <1>7, <1>8, <3>1
      <4> QED
        BY <1>7, <3>1, <4>1, <4>2 DEF SaysNow
    <3>2. CASE do # "bomb_exploded"
      <4>1. Same(log, r.log, "BombExplode")
        BY <1>11, <1>14, <3>2
      <4>2. Ev("bomb_exploded", bomb.planter) \notin events'
              <=> Ev("bomb_exploded", bomb.planter) \notin events
        BY <1>8, <3>2
      <4> QED
        BY <1>1, <1>6, <1>16, <4>1, <4>2 DEF OutcomeLog, Same
    <3> QED
      BY <3>1, <3>2
  <2> QED
    BY <1>6, <1>12, <1>15, <1>16, <2>1, <2>2 DEF OutcomeLog, Fixed
<1>25. FactsInv'
  <2>1. ~NoneIn(r.log, "BombExplode") => r.exploded
    BY <1>1, <1>11, <1>14 DEF FactsInv, Same
  <2>2. r.exploded => bomb.planted = "exploded" \/ DOMAIN harm = {}
    BY <1>1, <1>7, <1>11 DEF FactsInv
  <2> QED
    BY <1>1, <1>12, <1>15, <2>1, <2>2 DEF FactsInv, Fixed
<1> QED
  BY <1>15, <1>17, <1>18, <1>20, <1>21, <1>22, <1>23, <1>24, <1>25 DEF IInv

(* Somebody is hurt or falls, or the target is bombed.                      *)
LEMMA HarmEventStep ==
  ASSUME IInv, NEW e \in events, GameEvent(e),
         e.do \in {"player_hurt", "player_falldamage", "target_bombed"}
  PROVE  IInv'
<1> DEFINE p == e.who
<1>1. /\ TypeInv /\ FrameInv /\ EventsInv /\ CarrierInv /\ DefuserInv /\ PlanterInv
      /\ PlantLog /\ AbortLog /\ DefuseLog /\ OutcomeLog /\ HurtInv /\ FactsInv
  BY DEF IInv
<1>2. /\ inFrame /\ events' = events \ {e} /\ updates' = updates /\ firsts' = firsts
      /\ gameState' = gameState /\ log' = log /\ heard' = heard
      /\ UNCHANGED <<mimic, hidden, bomb, before, inFrame, harm, interrupted>>
  BY DEF GameEvent
<1>3. Fixed
  BY <1>2, FixedInFrame
<1>4. e \in [do : EventNames, who : Players \cup {Nil}] /\ e = Ev(e.do, p)
  BY <1>1 DEF TypeInv, Ev
<1>5. /\ delayed' = IF e.do = "player_hurt" THEN Append(delayed, p) ELSE delayed
      /\ frameFacts' = IF e.do = "player_falldamage"
                       THEN [frameFacts EXCEPT !.fell = frameFacts.fell \cup {p}]
                       ELSE IF e.do = "target_bombed"
                       THEN [frameFacts EXCEPT !.bombed = TRUE] ELSE frameFacts
  BY DEF GameEvent
<1>6. /\ e.do = "player_hurt" => p \in DOMAIN harm
      /\ e.do = "player_falldamage" => p \in DOMAIN harm /\ harm[p] = "fall"
      /\ e.do = "target_bombed" => bomb.planted = "exploded"
      /\ DOMAIN harm \subseteq Players
  BY <1>1 DEF EventsInv, TypeInv, Harmed
<1>7. \A x, q : Ev(x, q) \in events' <=> Ev(x, q) \in events /\ (x # e.do \/ q # p)
  BY <1>2, <1>4 DEF Ev
<1> HIDE DEF p
<1>8. /\ frameFacts' \in [fell : SUBSET Players, exploded : BOOLEAN, bombed : BOOLEAN]
      /\ frameFacts'.exploded = frameFacts.exploded
      /\ frameFacts'.fell = IF e.do = "player_falldamage" THEN frameFacts.fell \cup {p}
                            ELSE frameFacts.fell
      /\ frameFacts'.bombed => frameFacts.bombed \/ e.do = "target_bombed"
  <2>1. frameFacts \in [fell : SUBSET Players, exploded : BOOLEAN, bombed : BOOLEAN]
    BY <1>1 DEF TypeInv
  <2>2. CASE e.do = "player_falldamage"
    BY <1>5, <1>6, <2>1, <2>2
  <2>3. CASE e.do = "target_bombed"
    BY <1>5, <2>1, <2>3
  <2>4. CASE e.do \notin {"player_falldamage", "target_bombed"}
    BY <1>5, <2>1, <2>4
  <2> QED
    BY <2>2, <2>3, <2>4
<1>9. delayed \in Seq(Players) /\ delayed' \in Seq(Players)
  <2>1. delayed \in Seq(Players)
    BY <1>1 DEF TypeInv
  <2>2. CASE e.do = "player_hurt"
    BY <1>5, <1>6, <2>1, <2>2, AppendProperties
  <2>3. CASE e.do # "player_hurt"
    BY <1>5, <2>1, <2>3
  <2> QED
    BY <2>1, <2>2, <2>3
<1>10. TypeInv'
  BY <1>1, <1>2, <1>8, <1>9 DEF TypeInv, Harmed
<1>11. FrameInv'
  <2>1. Sane(bomb)' /\ Sane(before)'
    BY <1>1, <1>2 DEF FrameInv, Sane
  <2> QED
    BY <1>1, <1>2, <1>3, <2>1 DEF FrameInv, Fixed
<1>12. EventsInv'
  BY <1>1, <1>2, <1>3 DEF EventsInv, Fixed
<1>13. HurtInv'
  <2>1. NoneIn(log', "EqBomb") /\ NoneIn(log', "EqWorld")
    BY <1>1, <1>2 DEF HurtInv
  <2>2. \A q \in frameFacts'.fell : q \in DOMAIN harm /\ harm[q] = "fall"
    BY <1>1, <1>2, <1>6, <1>8 DEF HurtInv
  <2>3. \A q \in DOMAIN harm : harm[q] = "fall" => \/ q \in frameFacts'.fell
                                                   \/ Ev("player_falldamage", q) \in events'
    <3> SUFFICES ASSUME NEW q \in DOMAIN harm, harm[q] = "fall"
                 PROVE  q \in frameFacts'.fell \/ Ev("player_falldamage", q) \in events'
      OBVIOUS
    <3>1. q \in frameFacts.fell \/ Ev("player_falldamage", q) \in events
      BY <1>1, <1>2 DEF HurtInv
    <3> QED
      BY <1>7, <1>8, <3>1
  <2>4. CASE e.do # "player_hurt"
    <3>1. delayed' = delayed /\ \A q : Ev("player_hurt", q) \in events' <=> Ev("player_hurt", q) \in events
      BY <1>5, <1>7, <2>4
    <3> QED
      BY <1>1, <1>2, <2>1, <2>2, <2>3, <3>1 DEF HurtInv
  <2>5. CASE e.do = "player_hurt"
    <3> DEFINE n == Len(delayed)
    <3>1. /\ n \in Nat /\ Len(delayed') = n + 1 /\ delayed'[n + 1] = p
          /\ \A i \in 1 .. n : delayed'[i] = delayed[i]
      BY <1>5, <1>9, <2>5
    <3>2. Ev("player_hurt", p) \in events /\ Ev("player_hurt", p) \notin events'
      BY <1>4, <1>7, <2>5
    <3>3. \A i \in 1 .. n : delayed[i] # p
      BY <1>1, <1>2, <3>2 DEF HurtInv
    <3>4. \A i, j \in 1 .. n : delayed[i] = delayed[j] => i = j
      BY <1>1, <1>2 DEF HurtInv
    <3>5. \A i \in 1 .. n : delayed[i] \in DOMAIN harm /\ Ev("player_hurt", delayed[i]) \notin events
      BY <1>1, <1>2 DEF HurtInv
    <3>6. \A q \in DOMAIN harm : Ev("player_hurt", q) \in events \/ \E i \in 1 .. n : delayed[i] = q
      BY <1>1, <1>2 DEF HurtInv
    <3> HIDE DEF n
    <3>7. \A i \in 1 .. n + 1 : i \in 1 .. n \/ i = n + 1
      BY <3>1
    <3>8. \A i, j \in 1 .. Len(delayed') : delayed'[i] = delayed'[j] => i = j
      BY <3>1, <3>3, <3>4, <3>7
    <3>9. \A i \in 1 .. Len(delayed') : /\ delayed'[i] \in DOMAIN harm
                                         /\ Ev("player_hurt", delayed'[i]) \notin events'
      <4> TAKE i \in 1 .. Len(delayed')
      <4>1. CASE i \in 1 .. n
        <5>1. delayed'[i] = delayed[i]
          BY <3>1, <4>1
        <5> QED
          BY <1>7, <3>5, <4>1, <5>1
      <4>2. CASE i = n + 1
        BY <1>6, <2>5, <3>1, <3>2, <4>2
      <4> QED
        BY <3>1, <3>7, <4>1, <4>2
    <3>10. ASSUME NEW q \in DOMAIN harm
           PROVE  Ev("player_hurt", q) \in events' \/ \E i \in 1 .. Len(delayed') : delayed'[i] = q
      <4>1. CASE q = p
        BY <3>1, <4>1
      <4>2. CASE q # p /\ Ev("player_hurt", q) \in events
        BY <1>7, <4>2
      <4>3. CASE \E i \in 1 .. n : delayed[i] = q
        <5> PICK i \in 1 .. n : delayed[i] = q
          BY <4>3
        <5>1. delayed'[i] = q /\ i \in 1 .. Len(delayed')
          BY <3>1
        <5> QED
          BY <5>1
      <4> QED
        BY <3>6, <4>1, <4>2, <4>3
    <3> QED
      BY <1>2, <2>1, <2>2, <2>3, <3>8, <3>9, <3>10 DEF HurtInv
  <2> QED
    BY <2>4, <2>5
<1>14. \A x \in BombDoings : \A q : Ev(x, q) \in events' <=> Ev(x, q) \in events
  BY <1>7 DEF BombDoings
<1>15. (BeginDone' <=> BeginDone) /\ (EndDone' <=> EndDone)
  BY <1>2, <1>3, <1>14 DEF BeginDone, EndDone, Fixed, BombDoings
<1>16. CarrierInv'
  BY <1>1, <1>2, <1>3 DEF CarrierInv, Fixed
<1>17. DefuserInv'
  BY <1>1, <1>2, <1>3, <1>14 DEF DefuserInv, Fixed, BombDoings
<1>18. PlanterInv'
  BY <1>1, <1>2, <1>3, <1>15 DEF PlanterInv, Fixed
<1>19. PlantLog' /\ AbortLog'
  BY <1>1, <1>2, <1>3, <1>15 DEF PlantLog, AbortLog, Fixed
<1>20. DefuseLog' /\ OutcomeLog'
  BY <1>1, <1>2, <1>3, <1>14 DEF DefuseLog, OutcomeLog, Fixed, BombDoings
<1>21. FactsInv'
  BY <1>1, <1>2, <1>3, <1>6, <1>8 DEF FactsInv, Fixed
<1>22. DamageTold'
  BY <1>2 DEF DamageTold
<1> QED
  BY <1>10, <1>11, <1>12, <1>13, <1>16, <1>17, <1>18, <1>19, <1>20, <1>21, <1>22 DEF IInv

(* The damage told of at the end of a frame leaves what was told before.    *)
Damage(w, d) == [i \in 1 .. Len(d) |-> Event(w[i], d[i])]

(* Each delayed event is told of at its place, and nothing else is.         *)
LEMMA DamageAppended ==
  ASSUME NEW l \in Seq(LogType), NEW d \in Seq(Players), NEW w \in [1 .. Len(d) -> {"EqBomb", "EqWorld"}],
         NEW m, m = l \o Damage(w, d)
  PROVE  /\ m \in Seq(LogType)
         /\ Len(l) \in Nat /\ Len(d) \in Nat /\ Len(m) = Len(l) + Len(d)
         /\ \A i \in 1 .. Len(l) : m[i] = l[i]
         /\ \A i \in 1 .. Len(d) : m[Len(l) + i].t = w[i] /\ m[Len(l) + i].who = d[i]
         /\ \A t : t \notin {"EqBomb", "EqWorld"} => Same(l, m, t)
<1> DEFINE s == Damage(w, d)
           k == Len(l)
           n == Len(d)
<1>1. k \in Nat /\ n \in Nat
  OBVIOUS
<1>2. s \in Seq(LogType) /\ Len(s) = n /\ \A i \in 1 .. n : s[i].t = w[i] /\ s[i].who = d[i]
  <2>1. \A i \in 1 .. n : Event(w[i], d[i]) \in LogType
    <3> TAKE i \in 1 .. n
    <3>1. w[i] \in {"EqBomb", "EqWorld"} /\ d[i] \in Players
      OBVIOUS
    <3> QED
      BY <3>1 DEF Event, LogType, ToldNames, Maybe
  <2>2. s \in [1 .. n -> LogType] /\ \A i \in 1 .. n : s[i] = Event(w[i], d[i])
    BY <2>1 DEF Damage
  <2>3. s \in Seq(LogType) /\ Len(s) = n
    BY SMTT(60), <1>1, <2>2, IsASeq, LenProperties DEF Damage
  <2> QED
    BY <2>2, <2>3 DEF Event
<1> HIDE DEF s
<1>3. /\ m \in Seq(LogType) /\ Len(m) = k + n
      /\ \A i \in 1 .. k + n : m[i] = IF i <= k THEN l[i] ELSE s[i - k]
  <2>1. m = l \o s
    BY DEF s
  <2>2. s \in Seq(LogType)
    BY <1>2
  <2>3. /\ l \o s \in Seq(LogType) /\ Len(l \o s) = Len(l) + Len(s)
        /\ \A i \in 1 .. Len(l) + Len(s) : (l \o s)[i] = IF i <= Len(l) THEN l[i] ELSE s[i - Len(l)]
    BY ONLY <2>2, l \in Seq(LogType), ConcatProperties
  <2> QED
    BY <1>2, <2>1, <2>3
<1> HIDE DEF k, n
<1>4. \A i \in 1 .. k : i \in 1 .. k + n /\ m[i] = l[i]
  <2> TAKE i \in 1 .. k
  <2>1. i \in 1 .. k + n /\ i <= k
    BY <1>1
  <2> QED
    BY <1>3, <2>1
<1>5. \A i \in 1 .. n : m[k + i].t = w[i] /\ m[k + i].who = d[i]
  <2> TAKE i \in 1 .. n
  <2>1. k + i \in 1 .. k + n /\ ~(k + i <= k) /\ (k + i) - k = i
    BY <1>1
  <2>2. m[k + i] = s[i]
    BY <1>3, <2>1
  <2> QED
    BY <1>2, <2>2
<1>6. ASSUME NEW t, t \notin {"EqBomb", "EqWorld"} PROVE Same(l, m, t)
  <2>1. \A i \in 1 .. k + n : i \in 1 .. k \/ \E j \in 1 .. n : i = k + j
    <3> TAKE i \in 1 .. k + n
    <3>1. CASE i <= k
      BY <1>1, <3>1
    <3>2. CASE ~(i <= k)
      <4>1. i - k \in 1 .. n /\ i = k + (i - k)
        BY <1>1, <3>2
      <4> QED
        BY <4>1
    <3> QED
      BY <3>1, <3>2
  <2>2. \A j \in 1 .. n : m[k + j].t # t
    <3> TAKE j \in 1 .. n
    <3>1. w[j] \in {"EqBomb", "EqWorld"}
      BY DEF n
    <3> QED
      BY <1>5, <1>6, <3>1
  <2>3. \A i \in 1 .. k + n : m[i].t = t => i \in 1 .. k
    BY <2>1, <2>2
  <2>4. Places(m, t) = Places(l, t)
    BY <1>3, <1>4, <2>3 DEF Places, k
  <2>5. \A i \in Places(l, t) : i \in 1 .. k
    BY DEF Places, k
  <2>6. ASSUME NEW q PROVE OnceIn(m, t, q) <=> OnceIn(l, t, q)
    BY <1>3, <1>4, <2>4, <2>5 DEF OnceIn, k
  <2> QED
    BY <2>4, <2>6 DEF Same, NoneIn
<1> QED
  BY <1>1, <1>3, <1>4, <1>5, <1>6 DEF k, n

(* A frame ends.                                                            *)
LEMMA EndFrameStep ==
  ASSUME IInv, EndFrame
  PROVE  IInv'
<1> DEFINE n == Len(delayed)
           k == Len(log)
           w == [i \in 1 .. Len(delayed) |-> AttackerWeaponType(delayed[i])]
<1>1. /\ TypeInv /\ FrameInv /\ EventsInv /\ CarrierInv /\ DefuserInv /\ PlanterInv
      /\ PlantLog /\ AbortLog /\ DefuseLog /\ OutcomeLog /\ HurtInv /\ FactsInv
  BY DEF IInv
<1>2. /\ inFrame /\ events = {} /\ updates = {} /\ firsts = {} /\ inFrame' = FALSE
      /\ delayed' = << >> /\ gameState' = gameState /\ frameFacts' = frameFacts /\ heard' = heard
      /\ events' = {} /\ updates' = {} /\ firsts' = {}
      /\ UNCHANGED <<mimic, hidden, bomb, before, harm, interrupted>>
  BY DEF EndFrame
<1>3. Fixed
  BY <1>2, FixedInFrame
<1>4. log \in Seq(LogType) /\ delayed \in Seq(Players)
  BY <1>1 DEF TypeInv, LogType, Maybe
<1>5. w \in [1 .. n -> {"EqBomb", "EqWorld"}] /\ \A i \in 1 .. n : w[i] = AttackerWeaponType(delayed[i])
  BY DEF AttackerWeaponType
<1>6. log' = log \o [i \in 1 .. n |-> Event(w[i], delayed[i])]
  <2>1. [i \in 1 .. n |-> Event(AttackerWeaponType(delayed[i]), delayed[i])]
          = [i \in 1 .. n |-> Event(w[i], delayed[i])]
    BY <1>5
  <2> QED
    BY <2>1 DEF EndFrame
<1> HIDE DEF w
<1>7. /\ log' \in Seq(LogType)
      /\ k \in Nat /\ n \in Nat /\ Len(log') = k + n
      /\ \A i \in 1 .. k : log'[i] = log[i]
      /\ \A i \in 1 .. n : log'[k + i].t = w[i] /\ log'[k + i].who = delayed[i]
      /\ \A t : t \notin {"EqBomb", "EqWorld"} => Same(log, log', t)
  <2> DEFINE m == log'
  <2>1. m = log \o Damage(w, delayed) /\ w \in [1 .. Len(delayed) -> {"EqBomb", "EqWorld"}]
    BY <1>5, <1>6 DEF Damage
  <2> HIDE DEF m
  <2>2. log \in Seq(LogType) /\ delayed \in Seq(Players)
    BY <1>4
  <2>3. w \in [1 .. Len(delayed) -> {"EqBomb", "EqWorld"}]
    BY <2>1
  <2>4. \A z : z = log \o Damage(w, delayed) =>
          /\ z \in Seq(LogType)
          /\ Len(log) \in Nat /\ Len(delayed) \in Nat /\ Len(z) = Len(log) + Len(delayed)
          /\ \A i \in 1 .. Len(log) : z[i] = log[i]
          /\ \A i \in 1 .. Len(delayed) : z[Len(log) + i].t = w[i] /\ z[Len(log) + i].who = delayed[i]
          /\ \A t : t \notin {"EqBomb", "EqWorld"} => Same(log, z, t)
    BY <2>2, <2>3, DamageAppended, Zenon
  <2>5. m = log \o Damage(w, delayed)
    BY <2>1
  <2> QED
    BY <2>4, <2>5, Zenon DEF m
<1>8. TypeInv'
  <2>1. log' \in Seq([t : ToldNames, who : Players \cup {Nil}])
    BY <1>7 DEF LogType, Maybe
  <2>2. delayed' \in Seq(Players)
    BY <1>2
  <2> QED
    BY <1>1, <1>2, <2>1, <2>2 DEF TypeInv, Harmed
<1>9. FrameInv'
  <2>1. Sane(bomb)' /\ Sane(before)'
    BY <1>1, <1>2 DEF FrameInv, Sane
  <2> QED
    BY <1>1, <1>2, <1>3, <2>1 DEF FrameInv, Fixed
<1>10. EventsInv' /\ HurtInv'
  BY <1>2 DEF EventsInv, HurtInv
<1>11. CarrierInv' /\ DefuserInv'
  BY <1>1, <1>2, <1>3 DEF CarrierInv, DefuserInv, Fixed
<1>12. (BeginDone' <=> BeginDone) /\ (EndDone' <=> EndDone)
  BY <1>2, <1>3 DEF BeginDone, EndDone, Fixed
<1>13. PlanterInv'
  BY <1>1, <1>2, <1>3, <1>12 DEF PlanterInv, Fixed
<1>14. PlantLog' /\ AbortLog'
  BY <1>1, <1>2, <1>3, <1>7, <1>12 DEF PlantLog, AbortLog, Fixed, Same
<1>15. DefuseLog'
  <2>1. Same(log, log', "BombDefuseStart") /\ Same(log, log', "BombDefuseAborted")
    BY <1>7
  <2> QED
    BY <1>1, <1>2, <1>3, <2>1 DEF DefuseLog, Fixed, Same
<1>16. OutcomeLog'
  <2>1. Same(log, log', "BombDefused") /\ Same(log, log', "BombExplode")
    BY <1>7
  <2> QED
    BY <1>1, <1>2, <1>3, <2>1 DEF OutcomeLog, Fixed, Same
<1>17. FactsInv'
  BY <1>1, <1>2, <1>3, <1>7 DEF FactsInv, Fixed, Same
<1>18. DamageTold'
  <2>1. \A i \in 1 .. k : log'[i].t \notin {"EqBomb", "EqWorld"}
    <3>1. NoneIn(log, "EqBomb") /\ NoneIn(log, "EqWorld")
      BY <1>1, <1>2 DEF HurtInv
    <3>2. \A i \in 1 .. k : log[i].t \notin {"EqBomb", "EqWorld"}
      BY <3>1 DEF NoneIn, Places
    <3> QED
      BY <1>7, <3>2
  <2>2. Told("BombExplode")' # {} => frameFacts.exploded
    <3>1. Told("BombExplode")' = Places(log', "BombExplode")
      BY DEF Told, Places
    <3>2. Same(log, log', "BombExplode")
      BY <1>7
    <3> QED
      BY <1>1, <3>1, <3>2 DEF FactsInv, Same, NoneIn
  <2>3. ASSUME NEW p \in DOMAIN harm
        PROVE  \E i \in 1 .. Len(log') :
                 /\ {j \in 1 .. Len(log') : log'[j].who = p /\ log'[j].t \in {"EqBomb", "EqWorld"}} = {i}
                 /\ harm[p] = "fall" => log'[i].t = "EqWorld"
                 /\ harm[p] = "bomb" /\ Told("BombExplode")' # {} => log'[i].t = "EqBomb"
                 /\ harm[p] = "other" /\ bomb.planted # "exploded" => log'[i].t = "EqWorld"
    <3>1. PICK a \in 1 .. n : delayed[a] = p
      BY <1>1, <1>2 DEF HurtInv
    <3>2. \A j \in 1 .. n : delayed[j] = p => j = a
      BY <1>1, <1>2, <3>1 DEF HurtInv
    <3> DEFINE i == k + a
               T == Told("BombExplode")'
    <3>3. i \in 1 .. Len(log') /\ log'[i].who = p /\ log'[i].t = w[a] /\ w[a] \in {"EqBomb", "EqWorld"}
      BY <1>5, <1>7, <3>1
    <3>4. \A j \in 1 .. Len(log') : log'[j].who = p /\ log'[j].t \in {"EqBomb", "EqWorld"} => j = i
      <4> TAKE j \in 1 .. Len(log')
      <4>1. CASE j \in 1 .. k
        BY <2>1, <4>1
      <4>2. CASE j \notin 1 .. k
        <5>1. j - k \in 1 .. n /\ j = k + (j - k)
          BY <1>7, <4>2
        <5>2. log'[j].who = delayed[j - k]
          BY <1>7, <5>1
        <5> QED
          BY <3>2, <5>1, <5>2
      <4> QED
        BY <4>1, <4>2
    <3>5. w[a] = IF p \in frameFacts.fell THEN "EqWorld"
                 ELSE IF frameFacts.bombed \/ frameFacts.exploded THEN "EqBomb" ELSE "EqWorld"
      BY <1>5, <3>1 DEF AttackerWeaponType
    <3>6. p \in frameFacts.fell <=> harm[p] = "fall"
      BY <1>1, <1>2 DEF HurtInv
    <3>7. harm[p] = "other" /\ bomb.planted # "exploded" => ~frameFacts.bombed /\ ~frameFacts.exploded
      BY <1>1 DEF FactsInv
    <3> HIDE DEF i, T
    <3>8. /\ harm[p] = "fall" => w[a] = "EqWorld"
          /\ harm[p] = "bomb" /\ T # {} => w[a] = "EqBomb"
          /\ harm[p] = "other" /\ bomb.planted # "exploded" => w[a] = "EqWorld"
      BY <2>2, <3>5, <3>6, <3>7 DEF T
    <3>9. {j \in 1 .. Len(log') : log'[j].who = p /\ log'[j].t \in {"EqBomb", "EqWorld"}} = {i}
      BY <3>3, <3>4
    <3> QED
      BY <3>3, <3>8, <3>9 DEF T
  <2> QED
    BY <1>2, <2>3 DEF DamageTold
<1> QED
  BY <1>8, <1>9, <1>10, <1>11, <1>13, <1>14, <1>15, <1>16, <1>17, <1>18 DEF IInv

-------------------------------------------------------------------------------
(* The server.                                                              *)

(* Nothing has been told of when a frame begins.                            *)
LEMMA EmptyLog == \A t : NoneIn(<< >>, t)
  BY DEF NoneIn, Places

(* What is so between frames.                                               *)
LEMMA Settled ==
  ASSUME IInv, ~inFrame
  PROVE  /\ gameState.carrier = ByPawn(bomb.owner) /\ (mimic => heard = ByPawn(bomb.owner))
         /\ bomb.planted # "exploded" \/ mimic => gameState.currentDefuser = ByPawn(bomb.defuser)
         /\ bomb.planted # "none" => gameState.planter = ByPawn(bomb.planter)
         /\ mimic => gameState.isPlanting \cap hidden = {}
         /\ \A p \in gameState.isPlanting : p \in interrupted \/ (bomb.arming /\ p = bomb.owner)
         /\ bomb.arming /\ ~bomb.over /\ Named(bomb.owner) # Nil
              => bomb.owner \in gameState.isPlanting /\ gameState.currentPlanter = bomb.owner
         /\ bomb.over => gameState.currentPlanter = Nil
         /\ bomb.arming /\ bomb.over => bomb.owner \in interrupted
         /\ Sane(bomb) /\ delayed = << >>
<1>1. TypeInv /\ FrameInv /\ CarrierInv /\ DefuserInv /\ PlanterInv
  BY DEF IInv
<1>2. events = {} /\ updates = {} /\ firsts = {} /\ delayed = << >> /\ Sane(bomb)
  BY <1>1 DEF FrameInv
<1>3. BeginDone /\ EndDone
  BY <1>2 DEF BeginDone, EndDone
<1>4. /\ gameState.carrier = ByPawn(bomb.owner) /\ (mimic => heard = ByPawn(bomb.owner))
      /\ bomb.planted # "exploded" \/ mimic => gameState.currentDefuser = ByPawn(bomb.defuser)
      /\ bomb.planted # "none" => gameState.planter = ByPawn(bomb.planter)
  BY <1>1, <1>2 DEF CarrierInv, DefuserInv
<1>5. /\ mimic => gameState.isPlanting \cap hidden = {}
      /\ \A p \in gameState.isPlanting : p \in interrupted \/ (bomb.arming /\ p = bomb.owner)
  BY <1>1, <1>2, <1>3 DEF PlanterInv
<1>6. /\ bomb.arming /\ ~bomb.over /\ Named(bomb.owner) # Nil
           => bomb.owner \in gameState.isPlanting /\ gameState.currentPlanter = bomb.owner
      /\ bomb.over => gameState.currentPlanter = Nil
      /\ bomb.arming /\ bomb.over => bomb.owner \in interrupted
  BY <1>1, <1>2, <1>3 DEF PlanterInv
<1> QED
  BY <1>2, <1>4, <1>5, <1>6

(* How a bomb may turn into another in a frame with these updates and first *)
(* values,                                                                  *)
Shape(new, ups, fs) ==
  \/ Still' /\ ups = {} /\ fs = {}
  \/ Carried' /\ ups = {"c4"} /\ fs = {}
  \/ Planting' /\ ups = {"c4Gone", "plantedNew"} /\ fs = {"planted"}
  \/ Ticking' /\ ups = {"planted"} /\ fs = {}
  \/ Renewed' /\ ups \subseteq {"c4Gone", "plantedGone"} /\ fs = {"c4"}
       /\ (bomb.planted # "none" => "plantedGone" \in ups)

(* with these game events,                                                  *)
Announced(new, bes, ups) ==
  /\ new.arming /\ ~bomb.arming => "c4" \in ups /\ Ev("bomb_beginplant", new.owner) \in bes
  /\ Planting' => Ev("bomb_planted", new.planter) \in bes
  /\ new.defuser \notin {bomb.defuser, Nil}
       => "planted" \in ups /\ Ev("bomb_begindefuse", new.defuser) \in bes
  /\ Ticking' /\ (new.defuser # bomb.defuser \/ new.planted # "ticking") => "planted" \in ups
  /\ Ticking' /\ new.planted = "defused" => Ev("bomb_defused", bomb.defuser) \in bes
  /\ Ticking' /\ new.planted = "exploded" => Ev("bomb_exploded", new.planter) \in bes
  /\ "planted" \in ups /\ new.planted = "ticking" => new.defuser # bomb.defuser

(* that say what became of it.                                              *)
Truthful(new, bes, ups) ==
  /\ bes \subseteq [do : BombDoings \cup {"target_bombed"}, who : Players \cup {Nil}]
  /\ \A e \in bes :
       /\ e.do # "target_bombed" => e.who # Nil
       /\ e.do = "bomb_beginplant" => e.who = new.owner /\ new.arming /\ ~bomb.arming /\ "c4" \in ups
       /\ e.do = "bomb_planted" => e.who = new.planter /\ Planting' /\ "plantedNew" \in ups
       /\ e.do = "bomb_begindefuse" =>
            /\ e.who = new.defuser /\ new.defuser \notin {bomb.defuser, Nil}
            /\ Ticking' /\ new.planted = "ticking" /\ "planted" \in ups
       /\ e.do = "bomb_defused" =>
            e.who = bomb.defuser /\ Ticking' /\ new.planted = "defused" /\ "planted" \in ups
       /\ e.do = "bomb_exploded" =>
            e.who = new.planter /\ Ticking' /\ new.planted = "exploded" /\ "planted" \in ups
       /\ e.do = "target_bombed" => new.planted = "exploded"

(* The game events of who is hurt.                                          *)
LEMMA HurtsAre ==
  ASSUME NEW harms \in Harmed(Causes)
  PROVE  /\ DOMAIN harms \subseteq Players
         /\ Hurts(harms) \subseteq [do : EventNames, who : Players \cup {Nil}]
         /\ \A e \in Hurts(harms) :
              /\ e.do \in {"player_hurt", "player_falldamage"} /\ e.who \in DOMAIN harms
              /\ e.do = "player_falldamage" => harms[e.who] = "fall"
         /\ \A p \in DOMAIN harms :
              /\ Ev("player_hurt", p) \in Hurts(harms)
              /\ harms[p] = "fall" => Ev("player_falldamage", p) \in Hurts(harms)
<1>1. DOMAIN harms \subseteq Players
  BY DEF Harmed
<1>2. \A e \in Hurts(harms) : \E p \in DOMAIN harms :
        e = Ev("player_hurt", p) \/ (e = Ev("player_falldamage", p) /\ harms[p] = "fall")
  BY DEF Hurts
<1>3. \A p \in DOMAIN harms :
        /\ Ev("player_hurt", p) \in Hurts(harms)
        /\ harms[p] = "fall" => Ev("player_falldamage", p) \in Hurts(harms)
  BY DEF Hurts
<1>4. ASSUME NEW e \in Hurts(harms)
      PROVE  /\ e.do \in {"player_hurt", "player_falldamage"} /\ e.who \in DOMAIN harms
             /\ e.do = "player_falldamage" => harms[e.who] = "fall"
             /\ e \in [do : EventNames, who : Players \cup {Nil}]
  <2> PICK p \in DOMAIN harms :
        e = Ev("player_hurt", p) \/ (e = Ev("player_falldamage", p) /\ harms[p] = "fall")
    BY <1>2
  <2>1. CASE e = Ev("player_hurt", p)
    BY <1>1, <2>1 DEF Ev, EventNames
  <2>2. CASE e = Ev("player_falldamage", p) /\ harms[p] = "fall"
    BY <1>1, <2>2 DEF Ev, EventNames
  <2> QED
    BY <2>1, <2>2
<1> QED
  BY <1>1, <1>3, <1>4

(* A frame in which the bomb becomes new.                                   *)
LEMMA FrameStep ==
  ASSUME IInv, NEW new \in Bombs, Sane(new), NEW bes, NEW harms \in Harmed(Causes),
         NEW ups, NEW fs, Frame(new, bes, harms, ups, fs),
         Shape(new, ups, fs), Announced(new, bes, ups), Truthful(new, bes, ups)
  PROVE  IInv'
<1> DEFINE ended == new.over /\ ~bomb.over
           hurts == Hurts(harms)
<1>1. ~inFrame /\ TypeInv /\ FrameInv /\ inFrame'
  BY DEF IInv, Frame
<1>2. /\ bomb' = new /\ before' = bomb /\ harm' = harms /\ firsts' = fs /\ log' = << >>
      /\ events' = (IF mimic THEN {} ELSE bes) \cup hurts
      /\ updates' = ups \cup (IF ended THEN {"rules"} ELSE {})
      /\ interrupted' = IF ended /\ bomb.arming THEN interrupted \cup {bomb.owner} ELSE interrupted
      /\ frameFacts' = [fell |-> {}, exploded |-> FALSE, bombed |-> FALSE]
      /\ UNCHANGED <<mimic, hidden, gameState, delayed, heard>>
  BY DEF Frame
<1>3. /\ gameState.carrier = ByPawn(bomb.owner) /\ (mimic => heard = ByPawn(bomb.owner))
      /\ bomb.planted # "exploded" \/ mimic => gameState.currentDefuser = ByPawn(bomb.defuser)
      /\ bomb.planted # "none" => gameState.planter = ByPawn(bomb.planter)
      /\ mimic => gameState.isPlanting \cap hidden = {}
      /\ \A p \in gameState.isPlanting : p \in interrupted \/ (bomb.arming /\ p = bomb.owner)
      /\ bomb.arming /\ ~bomb.over /\ Named(bomb.owner) # Nil
           => bomb.owner \in gameState.isPlanting /\ gameState.currentPlanter = bomb.owner
      /\ bomb.over => gameState.currentPlanter = Nil
      /\ bomb.arming /\ bomb.over => bomb.owner \in interrupted
      /\ Sane(bomb) /\ delayed = << >>
  BY <1>1, Settled
<1>4. /\ hurts \subseteq [do : EventNames, who : Players \cup {Nil}]
      /\ DOMAIN harms \subseteq Players
      /\ \A e \in hurts :
           /\ e.do \in {"player_hurt", "player_falldamage"} /\ e.who \in DOMAIN harms
           /\ e.do = "player_falldamage" => harms[e.who] = "fall"
      /\ \A p \in DOMAIN harms :
           /\ Ev("player_hurt", p) \in hurts
           /\ harms[p] = "fall" => Ev("player_falldamage", p) \in hurts
  BY HurtsAre
<1> HIDE DEF ended, hurts
<1>5. /\ ByPawn(bomb.owner)' = ByPawn(new.owner) /\ ByPawn(before.owner)' = ByPawn(bomb.owner)
      /\ ByPawn(bomb.defuser)' = ByPawn(new.defuser)
      /\ ByPawn(before.defuser)' = ByPawn(bomb.defuser)
      /\ ByPawn(bomb.planter)' = ByPawn(new.planter)
      /\ Named(bomb.owner)' = Named(new.owner) /\ Named(before.owner)' = Named(bomb.owner)
      /\ Named(bomb.defuser)' = Named(new.defuser)
      /\ Named(before.defuser)' = Named(bomb.defuser)
      /\ Named(bomb.planter)' = Named(new.planter)
  BY <1>2 DEF ByPawn, Named
<1>6. /\ "c4" \in updates' <=> "c4" \in ups
      /\ "planted" \in updates' <=> "planted" \in ups
      /\ "plantedNew" \in updates' <=> "plantedNew" \in ups
      /\ "plantedGone" \in updates' <=> "plantedGone" \in ups
      /\ "rules" \in updates' <=> ended
      /\ (ended <=> new.over /\ ~bomb.over)
  BY <1>2 DEF Shape, ended
<1>7. Nil \notin Players /\ bomb \in Bombs
  BY <1>1, BombAssumption DEF TypeInv
<1>8. TypeInv'
  <2>1. interrupted' \subseteq Players
    BY <1>1, <1>2, <1>3, <1>7 DEF TypeInv, Sane, Bombs
  <2>2. bes \subseteq [do : EventNames, who : Players \cup {Nil}]
    BY DEF Truthful, EventNames, BombDoings
  <2>3. events' \subseteq [do : EventNames, who : Players \cup {Nil}]
    BY <1>2, <1>4, <2>2
  <2>4. frameFacts' \in [fell : SUBSET Players, exploded : BOOLEAN, bombed : BOOLEAN]
    BY <1>2
  <2> QED
    BY <1>1, <1>2, <1>7, <2>1, <2>3, <2>4 DEF TypeInv, Harmed
<1>9. FrameInv'
  <2>1. Sane(bomb)' /\ Sane(before)'
    BY <1>2, <1>3 DEF Sane
  <2>2. ups \subseteq updates' /\ updates' \subseteq ups \cup {"rules"} /\ firsts' = fs
    BY <1>2
  <2>3. Planting' \/ Renewed' => ~ended
    BY <1>2 DEF Planting, Renewed, ended
  <2>4. \/ Still' /\ updates' \subseteq {"rules"} /\ firsts' = {}
        \/ Carried' /\ updates' \subseteq {"c4", "rules"} /\ firsts' = {}
        \/ Planting' /\ updates' \subseteq {"c4Gone", "plantedNew"} /\ firsts' \subseteq {"planted"}
        \/ Ticking' /\ updates' \subseteq {"planted", "rules"} /\ firsts' = {}
        \/ Renewed' /\ updates' \subseteq {"c4Gone", "plantedGone"} /\ firsts' \subseteq {"c4"}
    BY <1>2, <2>3 DEF Shape
  <2>5. "planted" \in updates' /\ bomb'.planted = "ticking" => bomb'.defuser # before'.defuser
    BY <1>2, <1>6 DEF Announced
  <2> QED
    BY <1>1, <1>2, <1>6, <2>1, <2>4, <2>5 DEF FrameInv
<1>10. EventsInv'
  <2> SUFFICES ASSUME NEW e \in events' PROVE
         /\ e.do \notin {"player_hurt", "player_falldamage"} => ~mimic
         /\ e.do \in {"bomb_pickup", "bomb_dropped", "bomb_beginplant", "bomb_planted",
                      "bomb_begindefuse", "bomb_defused", "bomb_exploded"} => e.who # Nil
         /\ e.do = "player_hurt" => e.who \in DOMAIN harms
         /\ e.do = "player_falldamage" => e.who \in DOMAIN harms /\ harms[e.who] = "fall"
         /\ e.do = "bomb_beginplant" => /\ e.who = new.owner /\ new.arming /\ ~bomb.arming
                                        /\ "c4" \in ups
         /\ e.do = "bomb_planted" => /\ e.who = new.planter /\ Planting' /\ "plantedNew" \in ups
         /\ e.do = "bomb_begindefuse" =>
              /\ e.who = new.defuser /\ new.defuser \notin {bomb.defuser, Nil}
              /\ Ticking' /\ new.planted = "ticking" /\ "planted" \in ups
         /\ e.do = "bomb_defused" =>
              e.who = bomb.defuser /\ Ticking' /\ new.planted = "defused" /\ "planted" \in ups
         /\ e.do = "bomb_exploded" =>
              e.who = new.planter /\ Ticking' /\ new.planted = "exploded" /\ "planted" \in ups
         /\ e.do = "target_bombed" => new.planted = "exploded"
    BY <1>2, <1>6 DEF EventsInv
  <2>1. CASE e \in hurts
    BY <1>4, <2>1
  <2>2. CASE e \in bes /\ ~mimic
    <3>1. e.do \in BombDoings \cup {"target_bombed"}
      BY <2>2 DEF Truthful
    <3> QED
      BY <2>2, <3>1 DEF Truthful, BombDoings
  <2> QED
    BY <1>2, <2>1, <2>2
<1>11. CarrierInv'
  <2>1. "c4" \in ups \/ "plantedNew" \in ups \/ "c4" \in fs \/ new.owner = bomb.owner
    BY <1>2 DEF Shape, Still, Ticking
  <2> QED
    BY <1>2, <1>3, <1>5, <1>6, <2>1 DEF CarrierInv
<1>12. \A x \in BombDoings : \A q : Ev(x, q) \in bes /\ ~mimic => Ev(x, q) \in events'
  BY <1>2
<1>13. Still' \/ Carried' \/ Planting' \/ Ticking' \/ Renewed'
  BY DEF Shape
<1>14. DefuserInv'
  <2>1. ASSUME "planted" \notin ups, "plantedGone" \notin ups
        PROVE  /\ new.defuser = bomb.defuser
               /\ new.planted # "exploded" => bomb.planted # "exploded"
    <3>1. CASE Still' \/ Renewed'
      BY <1>2, <1>3, <2>1, <3>1 DEF Shape, Still, Renewed, Sane, Carried, Planting, Ticking
    <3>2. CASE Carried' \/ Planting'
      BY <1>2, <1>3, <3>2 DEF Carried, Planting, Sane
    <3>3. CASE Ticking'
      BY <1>2, <2>1, <3>3 DEF Ticking, Announced
    <3> QED
      BY <1>13, <3>1, <3>2, <3>3
  <2>2. "planted" \in ups => bomb.planted = "ticking" /\ Ticking'
    BY <1>2 DEF Shape, Ticking
  <2>3. new.planted # "none" /\ "plantedNew" \notin ups
          => bomb.planted # "none" /\ new.planter = bomb.planter
    BY <1>2 DEF Shape, Still, Carried, Planting, Ticking, Renewed
  <2>4. ~(~mimic /\ Ticking' /\ new.planted = "exploded"
            /\ Ev("bomb_exploded", new.planter) \notin events')
    BY <1>12 DEF Announced, BombDoings
  <2>5. /\ "planted" \notin ups /\ "plantedGone" \notin ups /\ new.planted # "exploded"
             => gameState.currentDefuser = ByPawn(new.defuser)
        /\ mimic /\ "planted" \notin ups /\ "plantedGone" \notin ups
             => gameState.currentDefuser = ByPawn(new.defuser)
    BY <1>3, <2>1
  <2>6. "planted" \in ups => gameState.currentDefuser = ByPawn(bomb.defuser)
    BY <1>3, <2>2
  <2>7. new.planted # "none" /\ "plantedNew" \notin ups => gameState.planter = ByPawn(new.planter)
    BY <1>3, <2>3
  <2> QED
    BY <1>2, <1>5, <1>6, <2>4, <2>5, <2>6, <2>7 DEF DefuserInv
<1>15. /\ new.arming /\ ~bomb.arming => ~BeginDone'
       /\ Planting' => ~EndDone'
  <2>1. Planting' => "plantedNew" \in ups
    BY <1>2 DEF Shape, Still, Carried, Planting, Ticking, Renewed
  <2> QED
    BY <1>2, <1>6, <1>12, <2>1 DEF BeginDone, EndDone, Announced, BombDoings
<1>16. /\ bomb.arming /\ ~bomb.over /\ ~new.over
            => (new.arming /\ new.owner = bomb.owner) \/ "c4" \in ups \/ Planting'
       /\ new.arming /\ bomb.arming => new.owner = bomb.owner
       /\ new.arming /\ bomb.over => new.over
       /\ new.arming /\ new.over => bomb.arming
  BY <1>2, <1>13 DEF Shape, Still, Carried, Planting, Ticking, Renewed
<1>17. /\ interrupted \subseteq interrupted'
       /\ bomb.arming /\ new.over => bomb.owner \in interrupted'
       /\ bomb.arming /\ bomb.over => bomb.owner \in interrupted'
  BY <1>2, <1>3, <1>6
<1>18. PlanterInv'
  <2>1. \A p \in gameState.isPlanting :
          \/ p \in interrupted'
          \/ new.arming /\ p = new.owner
          \/ bomb.arming /\ p = bomb.owner /\ ("c4" \in ups \/ (Planting' /\ ~EndDone'))
    BY <1>3, <1>15, <1>16, <1>17
  <2>2. new.arming /\ ~new.over /\ Named(new.owner) # Nil /\ (bomb.arming \/ BeginDone')
          => new.owner \in gameState.isPlanting /\ gameState.currentPlanter = new.owner
    BY <1>3, <1>15, <1>16
  <2>3. /\ bomb.arming /\ ~bomb.over /\ Named(bomb.owner) # Nil
             => gameState.currentPlanter = bomb.owner
        /\ bomb.over => gameState.currentPlanter = Nil
        /\ new.over /\ ~ended => gameState.currentPlanter = Nil
    BY <1>3, <1>6
  <2>4. new.arming /\ new.over => new.owner \in interrupted'
    BY <1>16, <1>17
  <2> QED
    BY <1>2, <1>3, <1>5, <1>6, <1>17, <2>1, <2>2, <2>3, <2>4 DEF PlanterInv
<1>19. \A t : NoneIn(log', t)
  BY <1>2, EmptyLog
<1>20. PlantLog'
  BY <1>2, <1>15, <1>19 DEF PlantLog
<1>21. AbortLog'
  <2>1. bomb.arming /\ ~new.arming /\ ~Planting' /\ ~new.over /\ ~bomb.over => "c4" \in ups
    BY <1>16
  <2> QED
    BY <1>2, <1>6, <1>19, <2>1 DEF AbortLog, Aborted
<1>22. DefuseLog'
  <2>1. ~(/\ new.defuser \notin {bomb.defuser, Nil}
          /\ IF mimic THEN "planted" \notin ups
             ELSE Ev("bomb_begindefuse", new.defuser) \notin events')
    BY <1>12 DEF Announced, BombDoings
  <2>2. ~(/\ Ticking' /\ new.defuser = Nil /\ ByPawn(bomb.defuser) # Nil
          /\ "planted" \notin ups)
    BY <1>7, NamedType DEF Announced, Maybe
  <2> QED
    BY <1>2, <1>5, <1>6, <1>19, <2>1, <2>2 DEF DefuseLog
<1>23. OutcomeLog'
  <2>1. ~(/\ Ticking' /\ new.planted = "defused"
          /\ IF mimic THEN "planted" \notin ups
             ELSE Ev("bomb_defused", bomb.defuser) \notin events')
    BY <1>12 DEF Announced, BombDoings
  <2>2. /\ ~(mimic /\ Ticking' /\ new.planted # "ticking" /\ "planted" \notin ups)
        /\ ~(~mimic /\ Ticking' /\ new.planted = "exploded"
               /\ Ev("bomb_exploded", new.planter) \notin events')
    BY <1>12 DEF Announced, BombDoings
  <2> QED
    BY <1>2, <1>5, <1>6, <1>19, <2>1, <2>2 DEF OutcomeLog
<1>24. HurtInv'
  <2>1. delayed' = << >> /\ frameFacts'.fell = {} /\ harm' = harms
    BY <1>2, <1>3
  <2>2. \A p \in DOMAIN harms :
          /\ Ev("player_hurt", p) \in events'
          /\ harms[p] = "fall" => Ev("player_falldamage", p) \in events'
    BY <1>2, <1>4
  <2> QED
    BY <1>19, <2>1, <2>2 DEF HurtInv
<1>25. FactsInv'
  BY <1>2, <1>19 DEF FactsInv
<1>26. DamageTold'
  BY <1>1 DEF DamageTold
<1> QED
  BY <1>8, <1>9, <1>10, <1>11, <1>14, <1>18, <1>20, <1>21, <1>22, <1>23, <1>24, <1>25, <1>26 DEF IInv

(* Nobody is hurt.                                                          *)
LEMMA NoHarmIs == NoHarm \in Harmed(Causes) /\ DOMAIN NoHarm = {}
<1>1. DOMAIN NoHarm = {}
  BY DEF NoHarm
<1>2. NoHarm \in [{} -> Causes]
  BY DEF NoHarm
<1> QED
  BY <1>1, <1>2 DEF Harmed

(* A terrorist picks up the bomb.                                           *)
LEMMA PickUpStep ==
  ASSUME IInv, NEW p \in Terrorists, PickUp(p)
  PROVE  IInv'
<1> DEFINE new == [bomb EXCEPT !.owner = p]
           bes == {Ev("bomb_pickup", p)}
<1>1. /\ bomb.c4 /\ ~bomb.arming /\ bomb.owner # p /\ ~inFrame
      /\ Frame(new, bes, NoHarm, {"c4"}, {})
  BY DEF PickUp, Frame
<1>2. bomb \in Bombs /\ Sane(bomb) /\ p \in Players /\ Nil \notin Players
  BY <1>1, Settled, BombAssumption DEF IInv, TypeInv, Players
<1>3. /\ new \in Bombs /\ new.c4 = bomb.c4 /\ new.owner = p /\ new.arming = bomb.arming
      /\ new.planted = bomb.planted /\ new.planter = bomb.planter
      /\ new.defuser = bomb.defuser /\ new.over = bomb.over
  BY <1>2 DEF Bombs
<1> HIDE DEF new
<1>4. bomb' = new /\ before' = bomb
  BY <1>1 DEF Frame
<1>5. Sane(new) /\ bomb.planted = "none" /\ bomb.defuser = Nil
  BY <1>1, <1>2, <1>3 DEF Sane, Bombs
<1>6. Carried' /\ ~Planting' /\ ~Ticking'
  BY <1>1, <1>3, <1>4, <1>5 DEF Carried, Planting, Ticking
<1>7. Shape(new, {"c4"}, {})
  BY <1>6 DEF Shape
<1>8. Announced(new, bes, {"c4"})
  BY <1>1, <1>3, <1>5, <1>6 DEF Announced
<1>9. Truthful(new, bes, {"c4"})
  BY <1>2 DEF Truthful, Ev, BombDoings
<1> QED
  BY <1>1, <1>3, <1>5, <1>7, <1>8, <1>9, NoHarmIs, FrameStep

(* The carrier drops the bomb, or dies.                                     *)
LEMMA DropStep ==
  ASSUME IInv, NEW over \in BOOLEAN, Drop(over)
  PROVE  IInv'
<1> DEFINE new == [bomb EXCEPT !.owner = Nil, !.arming = FALSE, !.over = over]
           bes == {Ev("bomb_dropped", bomb.owner)}
<1>1. /\ bomb.owner # Nil /\ (bomb.over => over) /\ ~inFrame
      /\ Frame(new, bes, NoHarm, {"c4"}, {})
  BY DEF Drop, Frame
<1>2. bomb \in Bombs /\ Sane(bomb)
  BY <1>1, Settled DEF IInv, TypeInv
<1>3. /\ new \in Bombs /\ new.c4 = bomb.c4 /\ new.owner = Nil /\ ~new.arming
      /\ new.planted = bomb.planted /\ new.planter = bomb.planter
      /\ new.defuser = bomb.defuser /\ new.over = over
  BY <1>2 DEF Bombs
<1> HIDE DEF new
<1>4. bomb' = new /\ before' = bomb
  BY <1>1 DEF Frame
<1>5. Sane(new) /\ bomb.planted = "none" /\ bomb.defuser = Nil /\ bomb.c4
  BY <1>1, <1>2, <1>3 DEF Sane, Bombs
<1>6. Carried' /\ ~Planting' /\ ~Ticking'
  BY <1>1, <1>3, <1>4, <1>5 DEF Carried, Planting, Ticking
<1>7. Shape(new, {"c4"}, {})
  BY <1>6 DEF Shape
<1>8. Announced(new, bes, {"c4"})
  BY <1>1, <1>3, <1>5, <1>6 DEF Announced
<1>9. Truthful(new, bes, {"c4"})
  BY <1>1, <1>2 DEF Truthful, Ev, BombDoings, Bombs
<1> QED
  BY <1>1, <1>3, <1>5, <1>7, <1>8, <1>9, NoHarmIs, FrameStep

(* The carrier starts to plant.                                             *)
LEMMA StartArmingStep ==
  ASSUME IInv, StartArming
  PROVE  IInv'
<1> DEFINE new == [bomb EXCEPT !.arming = TRUE]
           bes == {Ev("bomb_beginplant", bomb.owner)}
<1>1. /\ bomb.owner # Nil /\ ~bomb.arming /\ ~bomb.over /\ ~inFrame
      /\ Frame(new, bes, NoHarm, {"c4"}, {})
  BY DEF StartArming, Frame
<1>2. bomb \in Bombs /\ Sane(bomb)
  BY <1>1, Settled DEF IInv, TypeInv
<1>3. /\ new \in Bombs /\ new.c4 = bomb.c4 /\ new.owner = bomb.owner /\ new.arming
      /\ new.planted = bomb.planted /\ new.planter = bomb.planter
      /\ new.defuser = bomb.defuser /\ new.over = bomb.over
  BY <1>2 DEF Bombs
<1> HIDE DEF new
<1>4. bomb' = new /\ before' = bomb
  BY <1>1 DEF Frame
<1>5. Sane(new) /\ bomb.planted = "none" /\ bomb.defuser = Nil /\ bomb.c4
  BY <1>1, <1>2, <1>3 DEF Sane, Bombs
<1>6. Carried' /\ ~Planting' /\ ~Ticking'
  BY <1>1, <1>3, <1>4, <1>5 DEF Carried, Planting, Ticking
<1>7. Shape(new, {"c4"}, {})
  BY <1>6 DEF Shape
<1>8. Announced(new, bes, {"c4"})
  BY <1>1, <1>3, <1>5, <1>6 DEF Announced
<1>9. Truthful(new, bes, {"c4"})
  BY <1>1, <1>2, <1>3 DEF Truthful, Ev, BombDoings, Bombs
<1> QED
  BY <1>1, <1>3, <1>5, <1>7, <1>8, <1>9, NoHarmIs, FrameStep

(* The carrier stops planting.                                              *)
LEMMA StopArmingStep ==
  ASSUME IInv, NEW over \in BOOLEAN, StopArming(over)
  PROVE  IInv'
<1> DEFINE new == [bomb EXCEPT !.arming = FALSE, !.over = over]
<1>1. /\ bomb.arming /\ (bomb.over => over) /\ ~inFrame
      /\ Frame(new, {}, NoHarm, {"c4"}, {})
  BY DEF StopArming, Frame
<1>2. bomb \in Bombs /\ Sane(bomb)
  BY <1>1, Settled DEF IInv, TypeInv
<1>3. /\ new \in Bombs /\ new.c4 = bomb.c4 /\ new.owner = bomb.owner /\ ~new.arming
      /\ new.planted = bomb.planted /\ new.planter = bomb.planter
      /\ new.defuser = bomb.defuser /\ new.over = over
  BY <1>2 DEF Bombs
<1> HIDE DEF new
<1>4. bomb' = new /\ before' = bomb
  BY <1>1 DEF Frame
<1>5. Sane(new) /\ bomb.planted = "none" /\ bomb.defuser = Nil /\ bomb.c4
  BY <1>1, <1>2, <1>3 DEF Sane, Bombs
<1>6. Carried' /\ ~Planting' /\ ~Ticking'
  BY <1>1, <1>3, <1>4, <1>5 DEF Carried, Planting, Ticking
<1>7. Shape(new, {"c4"}, {})
  BY <1>6 DEF Shape
<1>8. Announced(new, {}, {"c4"})
  BY <1>1, <1>3, <1>5, <1>6 DEF Announced
<1>9. Truthful(new, {}, {"c4"})
  BY DEF Truthful
<1> QED
  BY <1>1, <1>3, <1>5, <1>7, <1>8, <1>9, NoHarmIs, FrameStep

(* The carrier has planted the bomb.                                        *)
LEMMA PlantStep ==
  ASSUME IInv, Plant
  PROVE  IInv'
<1> DEFINE new == [bomb EXCEPT !.c4 = FALSE, !.owner = Nil, !.arming = FALSE,
                               !.planted = "ticking", !.planter = bomb.owner]
           bes == {Ev("bomb_planted", bomb.owner)}
           ups == {"c4Gone", "plantedNew"}
<1>1. /\ bomb.arming /\ ~bomb.over /\ ~inFrame
      /\ Frame(new, bes, NoHarm, ups, {"planted"})
  BY DEF Plant, Frame
<1>2. bomb \in Bombs /\ Sane(bomb)
  BY <1>1, Settled DEF IInv, TypeInv
<1>3. /\ new \in Bombs /\ ~new.c4 /\ new.owner = Nil /\ ~new.arming
      /\ new.planted = "ticking" /\ new.planter = bomb.owner
      /\ new.defuser = bomb.defuser /\ new.over = bomb.over
  BY <1>2 DEF Bombs
<1> HIDE DEF new
<1>4. bomb' = new /\ before' = bomb
  BY <1>1 DEF Frame
<1>5. Sane(new) /\ bomb.planted = "none" /\ bomb.defuser = Nil /\ bomb.owner # Nil
  BY <1>1, <1>2, <1>3 DEF Sane, Bombs
<1>6. Planting' /\ ~Ticking'
  BY <1>1, <1>3, <1>4, <1>5 DEF Planting, Ticking
<1>7. Shape(new, ups, {"planted"})
  BY <1>6 DEF Shape
<1>8. Announced(new, bes, ups)
  BY <1>1, <1>3, <1>5, <1>6 DEF Announced
<1>9. Truthful(new, bes, ups)
  BY <1>2, <1>3, <1>5, <1>6 DEF Truthful, Ev, BombDoings, Bombs
<1> QED
  BY <1>1, <1>3, <1>5, <1>7, <1>8, <1>9, NoHarmIs, FrameStep

(* Somebody starts, takes over or stops a defuse.                           *)
LEMMA DefusingStep ==
  ASSUME IInv, NEW d \in Others \cup {Nil}, Defusing(d)
  PROVE  IInv'
<1> DEFINE new == [bomb EXCEPT !.defuser = d]
           bes == IF d = Nil THEN {} ELSE {Ev("bomb_begindefuse", d)}
<1>1. /\ bomb.planted = "ticking" /\ d # bomb.defuser /\ ~inFrame
      /\ Frame(new, bes, NoHarm, {"planted"}, {})
  BY DEF Defusing, Frame
<1>2. bomb \in Bombs /\ Sane(bomb) /\ d \in Players \cup {Nil}
  BY <1>1, Settled DEF IInv, TypeInv, Players
<1>3. /\ new \in Bombs /\ new.c4 = bomb.c4 /\ new.owner = bomb.owner /\ new.arming = bomb.arming
      /\ new.planted = bomb.planted /\ new.planter = bomb.planter
      /\ new.defuser = d /\ new.over = bomb.over
  BY <1>2 DEF Bombs
<1> HIDE DEF new
<1>4. bomb' = new /\ before' = bomb
  BY <1>1 DEF Frame
<1>5. Sane(new) /\ bomb.owner = Nil /\ ~bomb.arming
  BY <1>1, <1>2, <1>3 DEF Sane, Bombs
<1>6. Ticking' /\ ~Planting'
  BY <1>1, <1>3, <1>4, <1>5 DEF Planting, Ticking
<1>7. Shape(new, {"planted"}, {})
  BY <1>6 DEF Shape
<1>8. d # Nil => Ev("bomb_begindefuse", d) \in bes
  OBVIOUS
<1>9. Announced(new, bes, {"planted"})
  BY <1>1, <1>3, <1>5, <1>6, <1>8 DEF Announced
<1>10. Truthful(new, bes, {"planted"})
  BY <1>1, <1>2, <1>3, <1>6 DEF Truthful, Ev, BombDoings
<1> QED
  BY <1>1, <1>3, <1>5, <1>7, <1>9, <1>10, NoHarmIs, FrameStep

(* The bomb is defused.                                                     *)
LEMMA DefuseStep ==
  ASSUME IInv, Defuse
  PROVE  IInv'
<1> DEFINE new == [bomb EXCEPT !.planted = "defused", !.defuser = Nil, !.over = TRUE]
           bes == {Ev("bomb_defused", bomb.defuser)}
<1>1. /\ bomb.planted = "ticking" /\ bomb.defuser # Nil /\ ~inFrame
      /\ Frame(new, bes, NoHarm, {"planted"}, {})
  BY DEF Defuse, Frame
<1>2. bomb \in Bombs /\ Sane(bomb)
  BY <1>1, Settled DEF IInv, TypeInv
<1>3. /\ new \in Bombs /\ new.c4 = bomb.c4 /\ new.owner = bomb.owner /\ new.arming = bomb.arming
      /\ new.planted = "defused" /\ new.planter = bomb.planter
      /\ new.defuser = Nil /\ new.over
  BY <1>2 DEF Bombs
<1> HIDE DEF new
<1>4. bomb' = new /\ before' = bomb /\ harm' = NoHarm
  BY <1>1 DEF Frame
<1>5. Sane(new) /\ bomb.owner = Nil /\ ~bomb.arming
  BY <1>1, <1>2, <1>3 DEF Sane, Bombs
<1>6. Ticking' /\ ~Planting'
  BY <1>1, <1>3, <1>4, <1>5, NoHarmIs DEF Planting, Ticking
<1>7. Shape(new, {"planted"}, {})
  BY <1>6 DEF Shape
<1>8. Announced(new, bes, {"planted"})
  BY <1>1, <1>3, <1>5, <1>6 DEF Announced
<1>9. Truthful(new, bes, {"planted"})
  BY <1>1, <1>2, <1>3, <1>6 DEF Truthful, Ev, BombDoings, Bombs
<1> QED
  BY <1>1, <1>3, <1>5, <1>7, <1>8, <1>9, NoHarmIs, FrameStep

(* The bomb explodes.                                                       *)
LEMMA ExplodeStep ==
  ASSUME IInv, NEW harms \in Harmed(Causes), NEW d \in Others \cup {Nil}, Explode(harms, d)
  PROVE  IInv'
<1> DEFINE new == [bomb EXCEPT !.planted = "exploded", !.defuser = d, !.over = TRUE]
           bes == {Ev("bomb_exploded", bomb.planter)}
                    \cup (IF bomb.over THEN {} ELSE {Ev("target_bombed", Nil)})
<1>1. /\ bomb.planted = "ticking" /\ d \in {bomb.defuser, Nil} /\ ~inFrame
      /\ Frame(new, bes, harms, {"planted"}, {})
  BY DEF Explode, Frame
<1>2. bomb \in Bombs /\ Sane(bomb) /\ d \in Players \cup {Nil}
  BY <1>1, Settled DEF IInv, TypeInv, Players
<1>3. /\ new \in Bombs /\ new.c4 = bomb.c4 /\ new.owner = bomb.owner /\ new.arming = bomb.arming
      /\ new.planted = "exploded" /\ new.planter = bomb.planter
      /\ new.defuser = d /\ new.over
  BY <1>2 DEF Bombs
<1> HIDE DEF new
<1>4. bomb' = new /\ before' = bomb
  BY <1>1 DEF Frame
<1>5. Sane(new) /\ bomb.owner = Nil /\ ~bomb.arming /\ bomb.planter # Nil
  BY <1>1, <1>2, <1>3 DEF Sane, Bombs
<1>6. Ticking' /\ ~Planting'
  BY <1>1, <1>3, <1>4, <1>5 DEF Planting, Ticking
<1>7. Shape(new, {"planted"}, {})
  BY <1>6 DEF Shape
<1>8. /\ Ev("bomb_exploded", bomb.planter) \in bes
      /\ \A e \in bes : e = Ev("bomb_exploded", bomb.planter) \/ e = Ev("target_bombed", Nil)
  OBVIOUS
<1> HIDE DEF bes
<1>9. Announced(new, bes, {"planted"})
  BY <1>1, <1>3, <1>5, <1>6, <1>8 DEF Announced
<1>10. Truthful(new, bes, {"planted"})
  BY <1>1, <1>2, <1>3, <1>5, <1>6, <1>8 DEF Truthful, Ev, BombDoings, Bombs
<1> QED
  BY <1>1, <1>3, <1>5, <1>7, <1>9, <1>10, FrameStep DEF bes

(* Somebody is hurt, or the round ends, and nothing becomes of the bomb.    *)
LEMMA NothingStep ==
  ASSUME IInv, NEW over \in BOOLEAN, bomb.over => over, NEW harms \in Harmed(Causes),
         Frame([bomb EXCEPT !.over = over], {}, harms, {}, {})
  PROVE  IInv'
<1> DEFINE new == [bomb EXCEPT !.over = over]
<1>1. ~inFrame
  BY DEF Frame
<1>2. bomb \in Bombs /\ Sane(bomb)
  BY <1>1, Settled DEF IInv, TypeInv
<1>3. /\ new \in Bombs /\ new.c4 = bomb.c4 /\ new.owner = bomb.owner /\ new.arming = bomb.arming
      /\ new.planted = bomb.planted /\ new.planter = bomb.planter
      /\ new.defuser = bomb.defuser /\ new.over = over
  BY <1>2 DEF Bombs
<1>4. Frame(new, {}, harms, {}, {})
  OBVIOUS
<1> HIDE DEF new
<1>5. bomb' = new /\ before' = bomb
  BY <1>4 DEF Frame
<1>6. Sane(new)
  BY <1>2, <1>3 DEF Sane, Bombs
<1>7. Still' /\ ~Planting'
  BY <1>3, <1>5 DEF Still, Planting
<1>8. Ticking' => new.planted = "ticking" /\ new.defuser = bomb.defuser
  BY <1>3, <1>5 DEF Ticking
<1>9. Shape(new, {}, {})
  BY <1>7 DEF Shape
<1>10. Announced(new, {}, {})
  BY <1>3, <1>7, <1>8 DEF Announced
<1>11. Truthful(new, {}, {})
  BY DEF Truthful
<1> QED
  BY <1>3, <1>4, <1>6, <1>9, <1>10, <1>11, FrameStep

(* Players are hurt while nothing becomes of the bomb.                      *)
LEMMA HarmStep ==
  ASSUME IInv, NEW harms \in Harmed(Causes \ {"bomb"}), Harm(harms)
  PROVE  IInv'
<1>1. bomb \in Bombs
  BY DEF IInv, TypeInv
<1>2. bomb.over \in BOOLEAN /\ bomb = [bomb EXCEPT !.over = bomb.over]
  BY <1>1 DEF Bombs
<1>3. harms \in Harmed(Causes)
  BY DEF Harmed
<1>4. Frame([bomb EXCEPT !.over = bomb.over], {}, harms, {}, {})
  BY <1>2 DEF Harm
<1> QED
  BY <1>2, <1>3, <1>4, NothingStep

(* The round ends for another reason.                                       *)
LEMMA RoundEndStep ==
  ASSUME IInv, RoundEnd
  PROVE  IInv'
<1>1. Frame([bomb EXCEPT !.over = TRUE], {}, NoHarm, {}, {})
  BY DEF RoundEnd
<1> QED
  BY <1>1, NoHarmIs, NothingStep

(* A round starts with a new bomb.                                          *)
LEMMA NewRoundStep ==
  ASSUME IInv, NEW p \in Terrorists \cup {Nil}, NewRound(p)
  PROVE  IInv'
<1> DEFINE new == [NoBomb EXCEPT !.c4 = TRUE, !.owner = p, !.over = FALSE]
           bes == IF p = Nil THEN {} ELSE {Ev("bomb_pickup", p)}
           ups == (IF bomb.c4 THEN {"c4Gone"} ELSE {})
                    \cup (IF bomb.planted # "none" THEN {"plantedGone"} ELSE {})
<1>1. bomb.over /\ ~inFrame /\ Frame(new, bes, NoHarm, ups, {"c4"})
  BY DEF NewRound, Frame
<1>2. bomb \in Bombs /\ Sane(bomb) /\ p \in Players \cup {Nil}
  BY <1>1, Settled DEF IInv, TypeInv, Players
<1>3. /\ new \in Bombs /\ new.c4 /\ new.owner = p /\ ~new.arming
      /\ new.planted = "none" /\ new.planter = Nil /\ new.defuser = Nil /\ ~new.over
  BY <1>2 DEF Bombs, NoBomb
<1> HIDE DEF new
<1>4. bomb' = new /\ before' = bomb
  BY <1>1 DEF Frame
<1>5. Sane(new) /\ (bomb.planted = "none" \/ bomb.owner = Nil)
  BY <1>2, <1>3 DEF Sane
<1>6. Renewed' /\ ~Planting' /\ ~Ticking'
  BY <1>1, <1>3, <1>4, <1>5 DEF Renewed, Planting, Ticking
<1>7. /\ ups \subseteq {"c4Gone", "plantedGone"}
      /\ bomb.planted # "none" => "plantedGone" \in ups
  OBVIOUS
<1>8. \A e \in bes : e = Ev("bomb_pickup", p) /\ p # Nil
  OBVIOUS
<1> HIDE DEF ups, bes
<1>9. Shape(new, ups, {"c4"})
  BY <1>6, <1>7 DEF Shape
<1>10. Announced(new, bes, ups)
  BY <1>3, <1>6, <1>7 DEF Announced
<1>11. Truthful(new, bes, ups)
  BY <1>2, <1>8 DEF Truthful, Ev, BombDoings
<1> QED
  BY <1>1, <1>3, <1>5, <1>9, <1>10, <1>11, NoHarmIs, FrameStep

-------------------------------------------------------------------------------
(* The invariant.                                                           *)

(* It holds before the first frame.                                         *)
LEMMA InitInv == Init => IInv
<1> SUFFICES ASSUME Init PROVE IInv
  OBVIOUS
<1>1. /\ bomb = NoBomb /\ before = NoBomb /\ ~inFrame
      /\ events = {} /\ updates = {} /\ firsts = {} /\ delayed = << >> /\ log = << >>
      /\ harm = NoHarm /\ heard = Nil /\ interrupted = {}
      /\ mimic \in BOOLEAN /\ hidden \subseteq Players
  BY BombAssumption DEF Init, NoHarm
<1>2. /\ gameState.carrier = Nil /\ gameState.currentPlanter = Nil
      /\ gameState.currentDefuser = Nil /\ gameState.isPlanting = {} /\ gameState.planter = Nil
      /\ gameState \in GameStates
  BY DEF Init, GameStates, Maybe
<1>3. /\ frameFacts \in [fell : SUBSET Players, exploded : BOOLEAN, bombed : BOOLEAN]
      /\ ~frameFacts.exploded /\ ~frameFacts.bombed /\ frameFacts.fell = {}
  BY DEF Init
<1>4. /\ NoBomb \in Bombs /\ ~NoBomb.c4 /\ NoBomb.owner = Nil /\ ~NoBomb.arming
      /\ NoBomb.planted = "none" /\ NoBomb.planter = Nil /\ NoBomb.defuser = Nil /\ NoBomb.over
  BY DEF NoBomb, Bombs
<1>5. harm \in Harmed(Causes) /\ DOMAIN harm = {}
  BY <1>1, NoHarmIs
<1>6. \A t : NoneIn(log, t)
  BY <1>1, EmptyLog
<1>7. ByPawn(Nil) = Nil
  BY BombAssumption DEF ByPawn
<1>8. TypeInv
  <2>1. delayed \in Seq(Players) /\ log \in Seq([t : ToldNames, who : Players \cup {Nil}])
    BY <1>1
  <2>2. inFrame \in BOOLEAN
    BY DEF Init
  <2>3. bomb \in Bombs /\ before \in Bombs
    BY <1>1, <1>4
  <2> QED
    BY <1>1, <1>2, <1>3, <1>5, <2>1, <2>2, <2>3 DEF TypeInv, GameStates, Maybe
<1>9. Still /\ ~Planting /\ ~Ticking
  BY <1>1, <1>4 DEF Still, Planting, Ticking
<1>10. FrameInv
  BY <1>1, <1>4, <1>9 DEF FrameInv, Sane
<1>11. EventsInv
  BY <1>1 DEF EventsInv
<1>12. CarrierInv
  BY <1>1, <1>2, <1>4, <1>7 DEF CarrierInv
<1>13. DefuserInv
  BY <1>1, <1>2, <1>4, <1>7, <1>9 DEF DefuserInv
<1>14. PlanterInv
  BY <1>1, <1>2, <1>4 DEF PlanterInv
<1>15. PlantLog /\ AbortLog
  BY <1>1, <1>4, <1>6, <1>9 DEF PlantLog, AbortLog, Aborted
<1>16. DefuseLog /\ OutcomeLog
  BY <1>1, <1>4, <1>6, <1>9 DEF DefuseLog, OutcomeLog
<1>17. HurtInv /\ FactsInv /\ DamageTold
  BY <1>1, <1>3, <1>5, <1>6 DEF HurtInv, FactsInv, DamageTold
<1> QED
  BY <1>8, <1>10, <1>11, <1>12, <1>13, <1>14, <1>15, <1>16, <1>17 DEF IInv

(* It is kept when nothing changes.                                         *)
LEMMA StutterInv == IInv /\ UNCHANGED vars => IInv'
<1> SUFFICES ASSUME IInv, UNCHANGED vars PROVE IInv'
  OBVIOUS
<1> USE DEF vars
<1>1. TypeInv' /\ FrameInv'
  BY DEF IInv, TypeInv, FrameInv, Still, Carried, Planting, Ticking, Renewed
<1>2. EventsInv'
  BY DEF IInv, EventsInv, Planting, Ticking
<1>3. CarrierInv' /\ DefuserInv'
  BY DEF IInv, CarrierInv, DefuserInv, Ticking, ByPawn
<1>4. PlanterInv' /\ PlantLog'
  BY DEF IInv, PlanterInv, PlantLog, Planting, BeginDone, EndDone, Named, ByPawn
<1>5. AbortLog'
  BY DEF IInv, AbortLog, Aborted, Planting, Named, ByPawn
<1>6. DefuseLog' /\ OutcomeLog'
  BY DEF IInv, DefuseLog, OutcomeLog, Ticking, Named, ByPawn
<1>7. HurtInv' /\ FactsInv' /\ DamageTold'
  BY DEF IInv, HurtInv, FactsInv, DamageTold, Told
<1> QED
  BY <1>1, <1>2, <1>3, <1>4, <1>5, <1>6, <1>7 DEF IInv

(* A deed of the server keeps it,                                           *)
LEMMA ServerInv == IInv /\ Server => IInv'
<1> SUFFICES ASSUME IInv, Server PROVE IInv'
  OBVIOUS
<1>1. CASE \E p \in Terrorists : PickUp(p)
  BY <1>1, PickUpStep
<1>2. CASE \E over \in BOOLEAN : Drop(over) \/ StopArming(over)
  BY <1>2, DropStep, StopArmingStep
<1>3. CASE StartArming \/ Plant \/ Defuse \/ RoundEnd
  BY <1>3, StartArmingStep, PlantStep, DefuseStep, RoundEndStep
<1>4. CASE \E d \in Others \cup {Nil} : Defusing(d)
  BY <1>4, DefusingStep
<1>5. CASE \E harms \in Harmed(Causes), d \in Others \cup {Nil} : Explode(harms, d)
  BY <1>5, ExplodeStep
<1>6. CASE \E harms \in Harmed(Causes \ {"bomb"}) : Harm(harms)
  BY <1>6, HarmStep
<1>7. CASE \E p \in Terrorists \cup {Nil} : NewRound(p)
  BY <1>7, NewRoundStep
<1> QED
  BY <1>1, <1>2, <1>3, <1>4, <1>5, <1>6, <1>7 DEF Server

(* and so does all that is made of the frame.                               *)
LEMMA NextInv == IInv /\ [Next]_vars => IInv'
<1> SUFFICES ASSUME IInv, [Next]_vars PROVE IInv'
  OBVIOUS
<1>1. /\ updates \subseteq {"c4", "c4Gone", "planted", "plantedNew", "plantedGone", "rules"}
      /\ firsts \subseteq {"c4", "planted"}
  BY DEF IInv, FrameInv
<1>2. CASE Server
  BY <1>2, ServerInv
<1>3. ASSUME NEW e \in events, GameEvent(e) PROVE IInv'
  BY <1>3, BombEventStep, HarmEventStep
<1>4. ASSUME NEW u \in updates, EntityUpdate(u) PROVE IInv'
  <2>1. inFrame
    BY <1>4 DEF EntityUpdate
  <2>2. CASE u = "c4"
    BY <1>4, <2>1, <2>2, C4Step
  <2>3. CASE u \in {"c4Gone", "rules"}
    BY <1>4, <2>1, <2>3, PlanterResetStep
  <2>4. CASE u = "planted"
    BY <1>4, <2>1, <2>4, PlantedStep
  <2>5. CASE u = "plantedNew"
    BY <1>4, <2>1, <2>5, PlantedNewStep
  <2>6. CASE u = "plantedGone"
    BY <1>4, <2>1, <2>6, PlantedGoneStep
  <2> QED
    BY <1>1, <2>2, <2>3, <2>4, <2>5, <2>6
<1>5. ASSUME NEW u \in firsts, FirstValues(u) PROVE IInv'
  <2>1. inFrame
    BY <1>5 DEF FirstValues
  <2>2. CASE u = "c4"
    BY <1>5, <2>1, <2>2, C4FirstStep
  <2>3. CASE u = "planted"
    BY <1>5, <2>1, <2>3, PlantedFirstStep
  <2> QED
    BY <1>1, <2>2, <2>3
<1>6. CASE EndFrame
  BY <1>6, EndFrameStep
<1>7. CASE UNCHANGED vars
  BY <1>7, StutterInv
<1> QED
  BY <1>2, <1>3, <1>4, <1>5, <1>6, <1>7 DEF Next

(* What the state of the bomb, of the frame and of the log are to each      *)
(* other, through a frame.                                                  *)
THEOREM InductiveInvariant == Spec => []IInv
<1>1. Init => IInv
  BY InitInv
<1>2. IInv /\ [Next]_vars => IInv'
  BY NextInv
<1> QED
  BY <1>1, <1>2, PTL DEF Spec

-------------------------------------------------------------------------------
(* The properties.                                                          *)

(* Logs, by the names of Bomb.                                              *)
LEMMA LogNames ==
  \A t : (Told(t) = {} <=> NoneIn(log, t)) /\ \A p : Once(t, p) <=> OnceIn(log, t, p)
  BY DEF Told, Once, NoneIn, OnceIn, Places

(* GameStateFollows: between frames the game state has the carrier, the     *)
(* planter and the defuser that the server has.                             *)
THEOREM BombStateFollows == Spec => []GameStateFollows
<1>1. ASSUME IInv PROVE GameStateFollows
  <2> SUFFICES ASSUME ~inFrame
               PROVE  /\ gameState.carrier = ByPawn(bomb.owner)
                      /\ mimic /\ bomb.c4 => heard = ByPawn(bomb.owner)
                      /\ bomb.planted # "exploded" => gameState.currentDefuser = ByPawn(bomb.defuser)
                      /\ gameState.isPlanting \subseteq
                           interrupted \cup (IF bomb.arming THEN {bomb.owner} ELSE {})
                      /\ bomb.arming /\ ~bomb.over /\ Named(bomb.owner) # Nil =>
                           bomb.owner \in gameState.isPlanting
                             /\ gameState.currentPlanter = bomb.owner
    BY DEF GameStateFollows
  <2>1. /\ gameState.carrier = ByPawn(bomb.owner) /\ (mimic => heard = ByPawn(bomb.owner))
        /\ bomb.planted # "exploded" \/ mimic => gameState.currentDefuser = ByPawn(bomb.defuser)
        /\ \A p \in gameState.isPlanting : p \in interrupted \/ (bomb.arming /\ p = bomb.owner)
        /\ bomb.arming /\ ~bomb.over /\ Named(bomb.owner) # Nil
             => bomb.owner \in gameState.isPlanting /\ gameState.currentPlanter = bomb.owner
    BY <1>1, Settled
  <2> QED
    BY <2>1
<1> QED
  BY <1>1, InductiveInvariant, PTL

(* PlantTold: the begin, the abort and the end of a plant are told of once. *)
THEOREM PlantsAreTold == Spec => []PlantTold
<1>1. ASSUME IInv PROVE PlantTold
  <2> SUFFICES ASSUME ~inFrame PROVE PlantTold
    BY DEF PlantTold
  <2>1. /\ TypeInv /\ FrameInv /\ PlantLog /\ AbortLog
        /\ updates = {} /\ firsts = {} /\ BeginDone /\ EndDone
    BY <1>1 DEF IInv, FrameInv, BeginDone, EndDone
  <2>2. Planting <=> bomb.planted = "ticking" /\ before.planted = "none"
    BY <2>1 DEF FrameInv, Still, Carried, Planting, Ticking, Renewed
  <2>3. /\ IF bomb.arming /\ ~before.arming /\ Named(bomb.owner) # Nil
           THEN Once("BombPlantBegin", bomb.owner) ELSE Told("BombPlantBegin") = {}
        /\ IF Planting THEN Once("BombPlanted", Named(bomb.planter)) ELSE Told("BombPlanted") = {}
    BY <2>1, LogNames DEF PlantLog
  <2>4. /\ \/ Told("BombPlantAborted") = {}
           \/ /\ Aborted
              /\ \E p \in Players : /\ Once("BombPlantAborted", p)
                                    /\ p = before.owner \/ before.owner \in hidden
        /\ Aborted /\ ~bomb.over /\ ~before.over /\ Named(before.owner) # Nil
             => Told("BombPlantAborted") # {}
    BY <2>1, LogNames DEF AbortLog
  <2> QED
    BY <2>2, <2>3, <2>4 DEF PlantTold, Aborted
<1> QED
  BY <1>1, InductiveInvariant, PTL

(* OutcomeTold: a defuse that starts, is aborted or succeeds is told of     *)
(* once, and so is an explosion, except where the code tells of it for a    *)
(* defuse or does not.                                                      *)
THEOREM OutcomesAreTold == Spec => []OutcomeTold
<1>1. ASSUME IInv PROVE OutcomeTold
  <2> DEFINE now(outcome) == bomb.planted = outcome /\ before.planted = "ticking"
             started == bomb.defuser \notin {before.defuser, Nil}
             stopped == bomb.defuser = Nil /\ ByPawn(before.defuser) # Nil
                          /\ bomb.planted \in {"ticking", "exploded"}
             exploded == IF mimic THEN now("exploded") \/ now("defused") ELSE now("exploded")
  <2> SUFFICES ASSUME ~inFrame
               PROVE  /\ IF started THEN Once("BombDefuseStart", Named(bomb.defuser))
                         ELSE Told("BombDefuseStart") = {}
                      /\ IF stopped /\ (now("exploded") => mimic)
                         THEN Once("BombDefuseAborted", before.defuser)
                         ELSE Told("BombDefuseAborted") = {}
                      /\ IF now("defused") THEN Once("BombDefused", Named(before.defuser))
                         ELSE Told("BombDefused") = {}
                      /\ IF exploded /\ (mimic => ByPawn(before.defuser) = Nil)
                         THEN Once("BombExplode", Named(bomb.planter))
                         ELSE Told("BombExplode") = {}
    BY DEF OutcomeTold
  <2>1. /\ TypeInv /\ FrameInv /\ DefuseLog /\ OutcomeLog
        /\ updates = {} /\ firsts = {} /\ events = {}
    BY <1>1 DEF IInv, FrameInv
  <2>2. /\ bomb.planted = "defused" /\ Ticking <=> now("defused")
        /\ bomb.planted = "exploded" /\ Ticking <=> now("exploded")
        /\ Ticking => before.planted = "ticking"
    BY <2>1 DEF FrameInv, Still, Carried, Planting, Ticking, Renewed
  <2>3. /\ before.defuser = Nil => ByPawn(before.defuser) = Nil
        /\ bomb.planted \in {"none", "ticking", "defused", "exploded"}
    BY <2>1, BombAssumption DEF ByPawn, TypeInv, Bombs
  <2>4. stopped => Ticking
    BY <2>1, <2>3 DEF FrameInv, Sane, Still, Carried, Planting, Renewed
  <2>5. IF started THEN Once("BombDefuseStart", Named(bomb.defuser))
        ELSE Told("BombDefuseStart") = {}
    BY <2>1, LogNames DEF DefuseLog
  <2>6. IF stopped /\ (now("exploded") => mimic)
        THEN Once("BombDefuseAborted", before.defuser) ELSE Told("BombDefuseAborted") = {}
    BY <2>1, <2>2, <2>4, LogNames DEF DefuseLog
  <2>7. IF now("defused") THEN Once("BombDefused", Named(before.defuser))
        ELSE Told("BombDefused") = {}
    BY <2>1, <2>2, LogNames DEF OutcomeLog
  <2>8. IF exploded /\ (mimic => ByPawn(before.defuser) = Nil)
        THEN Once("BombExplode", Named(bomb.planter)) ELSE Told("BombExplode") = {}
    <3>1. /\ mimic => (exploded <=> Ticking /\ bomb.planted # "ticking")
          /\ ~mimic => (exploded <=> Ticking /\ bomb.planted = "exploded")
      BY <2>2, <2>3, <2>1 DEF Ticking
    <3> QED
      BY <2>1, <3>1, LogNames DEF OutcomeLog
  <2> QED
    BY <2>5, <2>6, <2>7, <2>8
<1> QED
  BY <1>1, InductiveInvariant, PTL

(* DamageTold: everybody who is hurt without a weapon is told of once, with *)
(* the weapon that it was.                                                  *)
THEOREM DamageIsTold == Spec => []DamageTold
<1>1. IInv => DamageTold
  BY DEF IInv
<1> QED
  BY <1>1, InductiveInvariant, PTL
===============================================================================
