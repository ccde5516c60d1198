---------------------------------- MODULE Bomb ----------------------------------
(***************************************************************************)
(* The bomb from its first carrier to the end of the round: what the       *)
(* updates of the entities CC4 and CPlantedC4 (datatables.go, bindBomb) or *)
(* the game events of Source 1 (game_events.go) make of the game state and *)
(* tell the users, and which weapon the damage without one is ascribed to. *)
(*                                                                         *)
(* The server changes one thing a frame.  The frame brings game events,    *)
(* then entity updates in any order, then the first values of entities     *)
(* created in it; EndFrame runs the delayed handlers.  Bomb sites are left *)
(* out, and so is the defuse kit.                                          *)
(***************************************************************************)
EXTENDS Naturals, Sequences

CONSTANTS
  Terrorists, Others,   (* the players, by who may carry and who may defuse *)
  Povs,                 (* sets of players whose pawns a demo does not have *)
  Mimics                (* whether ~disableMimicSource1GameEvents           *)

Players == Terrorists \cup Others
Nil == "nil"

ASSUME BombAssumption ==
  /\ Nil \notin Players /\ Povs \subseteq SUBSET Players /\ Mimics \subseteq BOOLEAN

VARIABLES
  mimic, hidden,
  bomb,           (* the bomb as the server has it in this frame            *)
  before,         (* and as it was in the frame before                      *)
  events,         (* the game events,                                       *)
  updates,        (* the entity updates                                     *)
  firsts,         (* and the first values still to come in this frame       *)
  inFrame,
  gameState,
  frameFacts,     (* what the maps keyed by frame have of this frame        *)
  delayed,        (* the players of the delayed player_hurt events          *)
  log,            (* the events dispatched in this frame                    *)
  harm,           (* history: what hurt whom in this frame,                 *)
  heard,          (* who has the bomb to one who follows the events,        *)
  interrupted     (* and who was planting when a round ended                *)

vars == <<mimic, hidden, bomb, before, events, updates, firsts, inFrame, gameState,
          frameFacts, delayed, log, harm, heard, interrupted>>

(* c4: the entity CC4 exists, with its owner and m_bStartedArming; planted:*)
(* the state of CPlantedC4, by whom it was planted and is being defused.   *)
Bombs == [c4 : BOOLEAN, owner : Players \cup {Nil}, arming : BOOLEAN,
          planted : {"none", "ticking", "defused", "exploded"},
          planter : Players \cup {Nil}, defuser : Players \cup {Nil}, over : BOOLEAN]
NoBomb == [c4 |-> FALSE, owner |-> Nil, arming |-> FALSE, planted |-> "none",
           planter |-> Nil, defuser |-> Nil, over |-> TRUE]

Event(t, p) == [t |-> t, who |-> p]
Causes == {"bomb", "fall", "other"}

Init ==
  /\ mimic \in Mimics /\ hidden \in Povs
  /\ bomb = NoBomb /\ before = NoBomb /\ inFrame = FALSE
  /\ events = {} /\ updates = {} /\ firsts = {} /\ delayed = << >> /\ log = << >>
  /\ gameState = [carrier |-> Nil, currentPlanter |-> Nil, currentDefuser |-> Nil,
                  isPlanting |-> {}, planter |-> Nil]
  /\ frameFacts = [fell |-> {}, exploded |-> FALSE, bombed |-> FALSE]
  /\ harm = << >> /\ heard = Nil /\ interrupted = {}

(* FindByPawnHandle                                                        *)
ByPawn(p) == IF p \in Players \ hidden THEN p ELSE Nil

(* The handlers turn a state and what was dispatched into others.          *)
State == [gs |-> gameState, log |-> log, exploded |-> frameFacts.exploded, heard |-> heard]
Set(st, f, v) == [st EXCEPT !.gs = [@ EXCEPT ![f] = v]]
Dispatch(st, t, p) ==
  [st EXCEPT !.log = Append(@, Event(t, p)),
             !.heard = IF t = "BombPickup" THEN p
                       ELSE IF t \in {"BombDropped", "BombPlanted"} THEN Nil ELSE @]
Mimicked(st, t, p) == IF mimic THEN Dispatch(st, t, p) ELSE st

Becomes(st) ==
  /\ gameState' = st.gs /\ log' = st.log /\ heard' = st.heard
  /\ frameFacts' = [frameFacts EXCEPT !.exploded = st.exploded]

---------------------------------------------------------------------------
(* The handlers of CC4                                                     *)

OwnerEntity_NilDropped(st) ==
  LET carrier == ByPawn(bomb.owner)
  IN  Set(Mimicked(st, IF carrier # Nil THEN "BombPickup" ELSE "BombDropped",
                   IF carrier # Nil THEN carrier ELSE st.gs.carrier), "carrier", carrier)

OwnerEntity(st) ==
  LET carrier == ByPawn(bomb.owner)
      told == IF carrier # Nil THEN Mimicked(st, "BombPickup", carrier)
              ELSE IF st.gs.carrier # Nil THEN Mimicked(st, "BombDropped", st.gs.carrier)
              ELSE st
  IN  Set(told, "carrier", carrier)

BeginsPlant(st, p) ==
  Set(Set(st, "isPlanting", st.gs.isPlanting \cup {p}), "currentPlanter", p)

StartedArming_Once(st) ==
  LET planter == ByPawn(bomb.owner)
  IN  IF bomb.arming /\ st.gs.currentPlanter = Nil
      THEN IF planter = Nil THEN st
           ELSE Mimicked(BeginsPlant(st, planter), "BombPlantBegin", planter)
      ELSE st

(* An aborted plant does not reset currentPlanter.                         *)
StartedArming(st) ==
  LET planter == ByPawn(bomb.owner)
      current == st.gs.currentPlanter
  IN  IF bomb.arming
      THEN IF planter = Nil THEN st
           ELSE Mimicked(BeginsPlant(st, planter), "BombPlantBegin", planter)
      ELSE IF current # Nil
      THEN Dispatch(Set(st, "isPlanting", st.gs.isPlanting \ {current}),
                    "BombPlantAborted", current)
      ELSE st

(* The fields of one update are set in their order, each with its handler. *)
C4Update(st) ==
  LET owned == IF bomb.owner # before.owner THEN OwnerEntity(st) ELSE st
  IN  IF bomb.arming # before.arming THEN StartedArming(owned) ELSE owned

(* First values come in the order of the fields' names.                    *)
C4First(st) == OwnerEntity(StartedArming(st))

C4Destroyed(st) == Set(st, "currentPlanter", Nil)

---------------------------------------------------------------------------
(* The handlers of CPlantedC4                                              *)

PlantedCreated_StillPlanting(st) ==
  LET planter == ByPawn(bomb.planter)
  IN  Mimicked([st EXCEPT !.gs = [@ EXCEPT !.carrier = Nil, !.currentPlanter = Nil,
                                           !.planter = planter]],
               "BombPlanted", planter)

PlantedCreated(st) ==
  LET planter == ByPawn(bomb.planter)
  IN  Mimicked([st EXCEPT !.gs = [@ EXCEPT !.carrier = Nil, !.currentPlanter = Nil,
                                           !.planter = planter,
                                           !.isPlanting = st.gs.isPlanting \ {planter}]],
               "BombPlanted", planter)

(* m_bBombTicking: the bomb has been defused or has exploded.              *)
IsDefuseEvent(st) == st.gs.currentDefuser # Nil

BombTicking(st) ==
  IF IsDefuseEvent(st) \/ ~mimic THEN st
  ELSE Dispatch([st EXCEPT !.exploded = TRUE], "BombExplode", st.gs.planter)

(* m_bBombDefused: m_hBombDefuser is not updated yet.                      *)
BombDefused(st) == Mimicked(st, "BombDefused", ByPawn(before.defuser))

(* m_hBombDefuser                                                          *)
BombDefuser(st) ==
  LET current == st.gs.currentDefuser
      defuser == ByPawn(bomb.defuser)
      told == IF bomb.defuser # Nil THEN Mimicked(st, "BombDefuseStart", defuser)
              ELSE IF bomb.planted # "defused" /\ current # Nil
              THEN Dispatch(st, "BombDefuseAborted", current)
              ELSE st
  IN  Set(told, "currentDefuser", defuser)

PlantedUpdate_DefuserFirst(st) ==
  LET reset == IF bomb.defuser # before.defuser THEN BombDefuser(st) ELSE st
      stopped == IF bomb.planted # "ticking" THEN BombTicking(reset) ELSE reset
  IN  IF bomb.planted = "defused" THEN BombDefused(stopped) ELSE stopped

(* In the order of the fields: a defuser is reset after the defuse is told.*)
PlantedUpdate(st) ==
  LET stopped == IF bomb.planted # "ticking" THEN BombTicking(st) ELSE st
      defused == IF bomb.planted = "defused" THEN BombDefused(stopped) ELSE stopped
  IN  IF bomb.defuser # before.defuser THEN BombDefuser(defused) ELSE defused

PlantedFirst(st) == BombDefuser(st)

PlantedDestroyed(st) == Set(st, "currentDefuser", Nil)

(* m_eRoundWinReason (bindGameRules): a round has ended.                   *)
RoundWinReason(st) == Set(st, "currentPlanter", Nil)

---------------------------------------------------------------------------
(* The handlers of game events                                             *)

(* Those of the bomb act without mimic only; their players are found by    *)
(* user ID, so the hidden ones, too.                                       *)
BombEvent(st, e) ==
  CASE e.do = "bomb_pickup"  -> Dispatch(st, "BombPickup", e.who)
    [] e.do = "bomb_dropped" -> Dispatch(st, "BombDropped", e.who)
    [] e.do = "bomb_beginplant" -> Dispatch(BeginsPlant(st, e.who), "BombPlantBegin", e.who)
    [] e.do = "bomb_planted" ->
         Dispatch(Set(Set(st, "isPlanting", st.gs.isPlanting \ {e.who}),
                      "currentPlanter", Nil), "BombPlanted", e.who)
    [] e.do = "bomb_begindefuse" ->
         Dispatch(Set(st, "currentDefuser", e.who), "BombDefuseStart", e.who)
    [] e.do = "bomb_defused" ->
         Dispatch(Set(st, "currentDefuser", Nil), "BombDefused", e.who)
    [] e.do = "bomb_exploded" ->
         Dispatch(Set([st EXCEPT !.exploded = TRUE], "currentDefuser", Nil),
                  "BombExplode", e.who)

(* player_hurt without a weapon is delayed; player_falldamage and the      *)
(* reason of round_end are kept for it.                                    *)
GameEvent(e) ==
  /\ inFrame /\ e \in events /\ events' = events \ {e}
  /\ \/ /\ e.do = "player_hurt" /\ delayed' = Append(delayed, e.who)
        /\ UNCHANGED <<gameState, log, heard, frameFacts>>
     \/ /\ e.do = "player_falldamage"
        /\ frameFacts' = [frameFacts EXCEPT !.fell = @ \cup {e.who}]
        /\ UNCHANGED <<gameState, log, heard, delayed>>
     \/ /\ e.do = "target_bombed"
        /\ frameFacts' = [frameFacts EXCEPT !.bombed = TRUE]
        /\ UNCHANGED <<gameState, log, heard, delayed>>
     \/ /\ e.do \notin {"player_hurt", "player_falldamage", "target_bombed"}
        /\ Becomes(BombEvent(State, e)) /\ UNCHANGED delayed
  /\ UNCHANGED <<mimic, hidden, bomb, before, updates, firsts, inFrame, harm, interrupted>>

---------------------------------------------------------------------------
(* Entity updates                                                          *)

Handled(u, st) ==
  CASE u = "c4"          -> C4Update(st)
    [] u = "c4Gone"      -> C4Destroyed(st)
    [] u = "planted"     -> PlantedUpdate(st)
    [] u = "plantedNew"  -> PlantedCreated(st)
    [] u = "plantedGone" -> PlantedDestroyed(st)
    [] u = "rules"       -> RoundWinReason(st)

EntityUpdate(u) ==
  /\ inFrame /\ events = {} /\ u \in updates
  /\ updates' = updates \ {u}
  /\ Becomes(Handled(u, State))
  /\ UNCHANGED <<mimic, hidden, bomb, before, events, firsts, inFrame, delayed, harm, interrupted>>

FirstValues(u) ==
  /\ inFrame /\ events = {} /\ updates = {} /\ u \in firsts
  /\ firsts' = firsts \ {u}
  /\ Becomes(IF u = "c4" THEN C4First(State) ELSE PlantedFirst(State))
  /\ UNCHANGED <<mimic, hidden, bomb, before, events, updates, inFrame, delayed, harm, interrupted>>

(* attackerWeaponType, and what player_hurt makes of an unknown weapon     *)
AttackerWeaponType_BombFirst(p) ==
  IF frameFacts.exploded \/ frameFacts.bombed THEN "EqBomb" ELSE "EqWorld"

AttackerWeaponType(p) ==
  IF p \in frameFacts.fell THEN "EqWorld"
  ELSE IF frameFacts.bombed \/ frameFacts.exploded THEN "EqBomb" ELSE "EqWorld"

(* The delayed handlers of player_hurt, in the order of the events         *)
EndFrame ==
  /\ inFrame /\ events = {} /\ updates = {} /\ firsts = {}
  /\ inFrame' = FALSE
  /\ log' = log \o [i \in 1 .. Len(delayed) |-> Event(AttackerWeaponType(delayed[i]), delayed[i])]
  /\ delayed' = << >>
  /\ UNCHANGED <<mimic, hidden, bomb, before, events, updates, firsts, gameState,
                 frameFacts, harm, heard, interrupted>>

---------------------------------------------------------------------------
(* The server (its rules are the game's, not the repository's)             *)

NoHarm == << >>
Ev(do, p) == [do |-> do, who |-> p]

(* Players are hurt, at most once each; a fall comes with an event more.   *)
Hurts(harms) ==
  UNION {{Ev("player_hurt", p)} \cup
         (IF harms[p] = "fall" THEN {Ev("player_falldamage", p)} ELSE {}) : p \in DOMAIN harms}

Frame(new, bombEvents, harms, ups, fs) ==
  /\ ~inFrame /\ inFrame' = TRUE
  /\ bomb' = new /\ before' = bomb
  /\ events' = (IF mimic THEN {} ELSE bombEvents) \cup Hurts(harms) /\ harm' = harms
  /\ updates' = ups \cup (IF new.over /\ ~bomb.over THEN {"rules"} ELSE {})
  /\ firsts' = fs
  /\ frameFacts' = [fell |-> {}, exploded |-> FALSE, bombed |-> FALSE]
  /\ log' = << >>
  /\ interrupted' = IF new.over /\ ~bomb.over /\ bomb.arming
                    THEN interrupted \cup {bomb.owner} ELSE interrupted
  /\ UNCHANGED <<mimic, hidden, gameState, delayed, heard>>

PickUp(p) ==
  /\ bomb.c4 /\ ~bomb.arming /\ bomb.owner # p
  /\ Frame([bomb EXCEPT !.owner = p], {Ev("bomb_pickup", p)}, NoHarm, {"c4"}, {})

(* A carrier who drops the bomb or dies may have been planting, and their  *)
(* death may end the round.                                                *)
Drop(over) ==
  /\ bomb.owner # Nil /\ (bomb.over => over)
  /\ Frame([bomb EXCEPT !.owner = Nil, !.arming = FALSE, !.over = over],
           {Ev("bomb_dropped", bomb.owner)}, NoHarm, {"c4"}, {})

StartArming ==
  /\ bomb.owner # Nil /\ ~bomb.arming /\ ~bomb.over
  /\ Frame([bomb EXCEPT !.arming = TRUE], {Ev("bomb_beginplant", bomb.owner)}, NoHarm, {"c4"}, {})

StopArming(over) ==
  /\ bomb.arming /\ (bomb.over => over)
  /\ Frame([bomb EXCEPT !.arming = FALSE, !.over = over], {}, NoHarm, {"c4"}, {})

Plant ==
  /\ bomb.arming /\ ~bomb.over
  /\ Frame([bomb EXCEPT !.c4 = FALSE, !.owner = Nil, !.arming = FALSE,
                        !.planted = "ticking", !.planter = bomb.owner],
           {Ev("bomb_planted", bomb.owner)}, NoHarm, {"c4Gone", "plantedNew"}, {"planted"})

Defusing(d) ==
  /\ bomb.planted = "ticking" /\ d # bomb.defuser
  /\ Frame([bomb EXCEPT !.defuser = d],
           IF d = Nil THEN {} ELSE {Ev("bomb_begindefuse", d)}, NoHarm, {"planted"}, {})

Defuse ==
  /\ bomb.planted = "ticking" /\ bomb.defuser # Nil
  /\ Frame([bomb EXCEPT !.planted = "defused", !.defuser = Nil, !.over = TRUE],
           {Ev("bomb_defused", bomb.defuser)}, NoHarm, {"planted"}, {})

Harmed(causes) == UNION {[ps -> causes] : ps \in SUBSET Players}

(* The bomb may explode while someone is defusing it, who may or may not   *)
(* be reset; it is the end of the round if nothing was before.             *)
Explode(harms, d) ==
  /\ bomb.planted = "ticking" /\ d \in {bomb.defuser, Nil}
  /\ Frame([bomb EXCEPT !.planted = "exploded", !.defuser = d, !.over = TRUE],
           {Ev("bomb_exploded", bomb.planter)}
             \cup (IF bomb.over THEN {} ELSE {Ev("target_bombed", Nil)}),
           harms, {"planted"}, {})

Harm(harms) ==
  /\ DOMAIN harms # {}
  /\ Frame(bomb, {}, harms, {}, {})

RoundEnd ==
  /\ ~bomb.over
  /\ Frame([bomb EXCEPT !.over = TRUE], {}, NoHarm, {}, {})

(* A round starts with a new bomb; the old one goes.                       *)
NewRound(p) ==
  /\ bomb.over
  /\ Frame([NoBomb EXCEPT !.c4 = TRUE, !.owner = p, !.over = FALSE],
           IF p = Nil THEN {} ELSE {Ev("bomb_pickup", p)}, NoHarm,
           (IF bomb.c4 THEN {"c4Gone"} ELSE {})
             \cup (IF bomb.planted # "none" THEN {"plantedGone"} ELSE {}),
           {"c4"})

Server ==
  \/ \E p \in Terrorists : PickUp(p)
  \/ \E over \in BOOLEAN : Drop(over) \/ StopArming(over)
  \/ StartArming \/ Plant \/ Defuse \/ RoundEnd
  \/ \E d \in Others \cup {Nil} : Defusing(d)
  \/ \E harms \in Harmed(Causes), d \in Others \cup {Nil} : Explode(harms, d)
  \/ \E harms \in Harmed(Causes \ {"bomb"}) : Harm(harms)
  \/ \E p \in Terrorists \cup {Nil} : NewRound(p)

Next ==
  \/ Server
  \/ \E e \in events : GameEvent(e)
  \/ \E u \in updates : EntityUpdate(u)
  \/ \E u \in firsts : FirstValues(u)
  \/ EndFrame

Spec == Init /\ [][Next]_vars

---------------------------------------------------------------------------
(* Properties: of the game state and the events, when a frame has ended    *)

(* Where in the log it is told of; that this is in one place, with p.      *)
Told(t) == {i \in 1 .. Len(log) : log[i].t = t}
Once(t, p) == \E i \in 1 .. Len(log) : Told(t) = {i} /\ log[i].who = p

(* Whom an event can name: game events name the hidden players, too.       *)
Named(p) == IF mimic THEN ByPawn(p) ELSE p

(* The types; the players that may be missing from an event are those that *)
(* POV demos do not have.  Nobody drops a bomb whom the event cannot name. *)
TypeOK ==
  /\ bomb \in Bombs /\ before \in Bombs
  /\ gameState \in [carrier : Players \cup {Nil}, currentPlanter : Players \cup {Nil},
                     currentDefuser : Players \cup {Nil}, isPlanting : SUBSET Players,
                     planter : Players \cup {Nil}]
  /\ delayed \in Seq(Players) /\ harm \in Harmed(Causes)
  /\ \A i \in 1 .. Len(log) :
       log[i].who = Nil => /\ hidden # {}
                           /\ log[i].t \in {"BombPlanted", "BombDefuseStart",
                                            "BombDefused", "BombExplode"}

(* Whoever has, plants or defuses the bomb is known as the one who does,   *)
(* by the game state and to one who follows the events, and nobody is who  *)
(* does not; except that one is left planting whom the round's end         *)
(* interrupts, and one defusing whom the explosion does.                   *)
GameStateFollows ==
  ~inFrame =>
    /\ gameState.carrier = ByPawn(bomb.owner)
    /\ mimic /\ bomb.c4 => heard = ByPawn(bomb.owner)
    /\ bomb.planted # "exploded" => gameState.currentDefuser = ByPawn(bomb.defuser)
    /\ gameState.isPlanting \subseteq
         interrupted \cup (IF bomb.arming THEN {bomb.owner} ELSE {})
    /\ bomb.arming /\ ~bomb.over /\ Named(bomb.owner) # Nil =>
         bomb.owner \in gameState.isPlanting /\ gameState.currentPlanter = bomb.owner

(* The begin, the abort and the end of a plant are each told of once, with *)
(* the player who did it.  An abort is told of unless the round has ended; *)
(* it may name an earlier planter if a POV demo does not have this one     *)
(* (datatables.go:99 leaves currentPlanter as it is).                      *)
PlantTold ==
  ~inFrame =>
    LET begun   == bomb.arming /\ ~before.arming
        planted == bomb.planted = "ticking" /\ before.planted = "none"
        aborted == before.arming /\ ~bomb.arming /\ ~planted
        aborts  == Told("BombPlantAborted")
    IN  /\ IF begun /\ Named(bomb.owner) # Nil THEN Once("BombPlantBegin", bomb.owner)
           ELSE Told("BombPlantBegin") = {}
        /\ IF planted THEN Once("BombPlanted", Named(bomb.planter))
           ELSE Told("BombPlanted") = {}
        /\ aborts # {} =>
             /\ aborted
             /\ \E p \in Players :
                  Once("BombPlantAborted", p) /\ (p = before.owner \/ before.owner \in hidden)
        /\ aborted /\ ~before.over /\ ~bomb.over /\ Named(before.owner) # Nil => aborts # {}

(* A defuse that starts, is aborted or succeeds is told of once, with its  *)
(* player, whether or not the bomb resets its defuser in the same update;  *)
(* an explosion, with the planter.  Except that from the entities' updates *)
(* an explosion is what ends the bomb while nobody is known to defuse it   *)
(* (datatables.go:170).                                                    *)
OutcomeTold ==
  ~inFrame =>
    LET now(outcome) == bomb.planted = outcome /\ before.planted = "ticking"
        started == bomb.defuser \notin {before.defuser, Nil}
        stopped == bomb.defuser = Nil /\ ByPawn(before.defuser) # Nil
                     /\ bomb.planted \in {"ticking", "exploded"}
        exploded == IF mimic THEN now("exploded") \/ now("defused") ELSE now("exploded")
    IN  /\ IF started THEN Once("BombDefuseStart", Named(bomb.defuser))
           ELSE Told("BombDefuseStart") = {}
        /\ IF stopped /\ (now("exploded") => mimic)
           THEN Once("BombDefuseAborted", before.defuser)
           ELSE Told("BombDefuseAborted") = {}
        /\ IF now("defused") THEN Once("BombDefused", Named(before.defuser))
           ELSE Told("BombDefused") = {}
        /\ IF exploded /\ (mimic => ByPawn(before.defuser) = Nil)
           THEN Once("BombExplode", Named(bomb.planter))
           ELSE Told("BombExplode") = {}

(* Everybody who is hurt without a weapon is told of once, in the frame: a *)
(* fall is the world's, though the bomb explodes in the same frame, and    *)
(* the bomb's harm is the bomb's if its explosion was told of, whichever   *)
(* of player_hurt and the bomb's updates comes first.                      *)
DamageTold ==
  ~inFrame =>
    /\ delayed = << >>
    /\ \A p \in DOMAIN harm :
         \E i \in 1 .. Len(log) :
           /\ {j \in 1 .. Len(log) : log[j].who = p /\ log[j].t \in {"EqBomb", "EqWorld"}} = {i}
           /\ harm[p] = "fall" => log[i].t = "EqWorld"
           /\ harm[p] = "bomb" /\ Told("BombExplode") # {} => log[i].t = "EqBomb"
           /\ harm[p] = "other" /\ bomb.planted # "exploded" => log[i].t = "EqWorld"

(* Not true of the code.  events/events.go:340 says "BombExplode signals   *)
(* that the bomb has exploded."                                            *)
ExplosionTold ==
  ~inFrame => (Told("BombExplode") # {}
                 <=> bomb.planted = "exploded" /\ before.planted = "ticking")
===============================================================================
