-------------------------------- MODULE Grenades --------------------------------
(***************************************************************************)
(* Grenades from the throw to the end of their effect: the projectiles and *)
(* infernos that are alive, the equipment that game events are to name     *)
(* (thrownGrenades), and the queue that tells which flashbang flashed a    *)
(* player (datatables.go, game_events.go).                                 *)
(*                                                                         *)
(* Within a frame the server's updates come in any order; EndFrame is      *)
(* processFrameGameEvents.  With mimic (the default) PlayerFlashed comes   *)
(* from entity updates, else from the game events of Source 1.             *)
(***************************************************************************)
EXTENDS Naturals, Sequences, FiniteSets, SequencesExt

CONSTANTS
  Players,
  Bots,           (* the players whose Steam ID is 0                        *)
  Controls,       (* ControlledBot of each player, or Nil                   *)
  Kits,           (* sets of types of grenades: those of one are thrown     *)
  Mimics,         (* whether ~disableMimicSource1GameEvents                 *)
  Spacing,        (* frames between the bursts of two flashbangs, at least  *)
  Throws,         (* bound: how many grenades are thrown                    *)
  MaxFrame        (* bound: how many frames there are                       *)

AllTypes == {"HE", "Flash", "Smoke", "Decoy", "Molotov", "Incendiary"}
Nil == "nil"

ASSUME GrenadesAssumption ==
  /\ IsFiniteSet(Players) /\ Bots \subseteq Players /\ Nil \notin Players
  /\ Controls \in [Players -> Players \cup {Nil}]
  /\ Kits \subseteq SUBSET AllTypes /\ Mimics \subseteq BOOLEAN
  /\ Spacing \in Nat /\ Throws \in Nat /\ MaxFrame \in Nat

SteamID(p) == IF p \in Bots THEN "0" ELSE p

(* A player controls at most one bot, which controls nobody, unless the    *)
(* demo has it that they control each other (getThrownGrenade).            *)
ASSUME ControlsAssumption ==
  \A p \in Players : Controls[p] # Nil =>
    /\ SteamID(Controls[p]) # SteamID(p)
    /\ Controls[Controls[p]] \in {p, Nil}

VARIABLES
  mimic, kit, frame,
  stage,          (* the server's grenades: none, flying, effect, over, or  *)
                  (* left behind by the round before                        *)
  kind, thrower,  (* of each grenade thrown                                 *)
  burst,          (* the frame in which a flashbang burst, or 0             *)
  lastRound,      (* the frame of the last round start, or 0                *)
  toDestroy,      (* projectiles and infernos whose entities are to be      *)
  toBlind,        (* deleted, and players to be blinded, in this frame      *)
  grenadeProjectiles, infernos,
  thrownGrenades, (* by player and type, the grenades in the order thrown   *)
  flyingFlashbangs,
  lastFlash,      (* the player of the last burst, projectileByPlayer       *)
  delayedEventHandlers,
  destroyed,      (* history: GrenadeProjectileDestroy events, by grenade   *)
  flashed,        (* history: who was blinded by what in this frame,        *)
  lastFlashed,    (* in the last one,                                       *)
  told            (* and the PlayerFlashed events of the last one           *)

server == <<mimic, kit, lastRound, kind, thrower, burst>>
history == <<lastFlashed, told>>
vars == <<server, frame, stage, toDestroy, toBlind, grenadeProjectiles, infernos,
          thrownGrenades, flyingFlashbangs, lastFlash, delayedEventHandlers,
          destroyed, flashed, history>>

Grenades == 1 .. Throws
Fires == {"Molotov", "Incendiary"}
Active == {g \in Grenades : stage[g] \in {"flying", "effect"}}
InFlight(g) == stage[g] = "flying" \/ (stage[g] = "effect" /\ kind[g] \notin Fires)

Init ==
  /\ mimic \in Mimics /\ kit \in Kits /\ frame = 1 /\ lastRound = 0
  /\ stage = [g \in Grenades |-> "none"]
  /\ kind = [g \in Grenades |-> Nil] /\ thrower = [g \in Grenades |-> Nil]
  /\ burst = [g \in Grenades |-> 0]
  /\ toDestroy = {} /\ toBlind = {} /\ grenadeProjectiles = {} /\ infernos = {}
  /\ thrownGrenades = [p \in Players |-> [t \in AllTypes |-> << >>]]
  /\ flyingFlashbangs = << >> /\ delayedEventHandlers = << >>
  /\ lastFlash = [player |-> Nil, projectileByPlayer |-> [p \in Players |-> 0]]
  /\ destroyed = [g \in Grenades |-> 0]
  /\ flashed = {} /\ lastFlashed = {} /\ told = {}

---------------------------------------------------------------------------
(* thrownGrenades.  A molotov may be reported as an incendiary and the     *)
(* other way round; what a player who controls a bot throws is the bot's.  *)

Held(p, t) ==
  LET other == IF t = "Molotov" THEN "Incendiary" ELSE "Molotov"
  IN  IF thrownGrenades[p][t] = << >> /\ t \in Fires
        THEN thrownGrenades[p][other] ELSE thrownGrenades[p][t]

(* The n-th player after p of those who control one another.               *)
Controlled(p, n) ==
  LET bot[i \in 0 .. n] ==
        IF i = 0 THEN p
        ELSE LET q == bot[i - 1]
             IN  IF q = Nil THEN Nil
                 ELSE IF Controls[q] = Nil THEN Nil
                 ELSE IF SteamID(Controls[q]) = SteamID(q) THEN Nil ELSE Controls[q]
  IN  bot[n]

GetThrownGrenade(p, t) ==
  LET holds == {n \in 0 .. Cardinality(Players) - 1 :
                  /\ Controlled(p, n) # Nil
                  /\ Held(Controlled(p, n), t) # << >>}
  IN  IF holds = {} THEN 0 ELSE Last(Held(Controlled(p, Min(holds)), t))

DeleteThrownGrenade(all, p, t) ==
  IF all[p][t] = << >> THEN all ELSE [all EXCEPT ![p][t] = Front(@)]

(* The player whom game events name for what p throws.                     *)
EventUser(p) ==
  IF \E h \in Players : Controls[h] = p
    THEN CHOOSE h \in Players : Controls[h] = p ELSE p

(* Whom nadeEvent makes the thrower: the player of the event's userid, the *)
(* owner of its userid_pawn when it has no other, or nobody.               *)
EventThrowers(p) == {EventUser(p), p, Nil}

---------------------------------------------------------------------------
(* bindGrenadeProjectiles: created (OnCreateFinished).  Rounds start with  *)
(* a freeze time, in which nothing is thrown; what a round left behind and *)
(* was not deleted then is never deleted.                                  *)

Throw(g, p, t) ==
  /\ stage[g] = "none" /\ \A h \in 1 .. g - 1 : stage[h] # "none"
  /\ lastRound # frame
  /\ stage' = [h \in Grenades |-> IF h = g THEN "flying"
                                 ELSE IF stage[h] = "left" THEN "over" ELSE stage[h]]
  /\ kind' = [kind EXCEPT ![g] = t] /\ thrower' = [thrower EXCEPT ![g] = p]
  /\ grenadeProjectiles' = grenadeProjectiles \cup {g}
  /\ thrownGrenades' = [thrownGrenades EXCEPT ![p][t] = Append(@, g)]
  /\ flyingFlashbangs' =
       IF t = "Flash"
       THEN Append(flyingFlashbangs, [projectile |-> g, flashed |-> {}, exploded |-> 0])
       ELSE flyingFlashbangs
  /\ UNCHANGED <<mimic, kit, lastRound, frame, burst, toDestroy, toBlind, infernos, lastFlash,
                 delayedEventHandlers, destroyed, flashed, history>>

(* The server: flashbangs burst in the order thrown, their fuses being the *)
(* same.  The game event (flashBangDetonate) comes before the updates.     *)
FlashBursts(g, blinded) ==
  /\ stage[g] = "flying" /\ kind[g] = "Flash"
  /\ \A h \in Grenades \ {g} :
       kind[h] = "Flash" =>
         /\ h < g => stage[h] # "flying"
         /\ burst[h] # 0 => frame - burst[h] >= Spacing
  /\ stage' = [stage EXCEPT ![g] = "over"] /\ burst' = [burst EXCEPT ![g] = frame]
  /\ toDestroy' = toDestroy \cup {g} /\ toBlind' = toBlind \cup (blinded \X {g})
  /\ flashed' = flashed \cup (blinded \X {g})
  /\ \E by \in EventThrowers(thrower[g]) : lastFlash' = [lastFlash EXCEPT !.player = by]
  /\ delayedEventHandlers' =
       IF mimic THEN delayedEventHandlers
       ELSE delayedEventHandlers \o
              [i \in 1 .. Cardinality(blinded) |->
                 [do |-> "blind", who |-> SetToSeq(blinded)[i]]]
  /\ UNCHANGED <<mimic, kit, lastRound, frame, kind, thrower, grenadeProjectiles, infernos,
                 thrownGrenades, flyingFlashbangs, destroyed, history>>

(* m_flFlashDuration of a player's pawn.                                   *)
FlashDuration(p, g) ==
  /\ <<p, g>> \in toBlind /\ toBlind' = toBlind \ {<<p, g>>}
  /\ flyingFlashbangs' =
       IF flyingFlashbangs = << >> THEN << >>
       ELSE [flyingFlashbangs EXCEPT ![1].flashed = @ \cup {p}]
  /\ UNCHANGED <<server, frame, stage, toDestroy, grenadeProjectiles, infernos,
                 thrownGrenades, lastFlash, delayedEventHandlers, destroyed, flashed,
                 history>>

(* Other grenades have their effect, or end it.  A decoy's detonation      *)
(* deletes it from thrownGrenades with the delayed handlers, an expired    *)
(* smoke at once; an HE's goes with its projectile.                        *)
Detonate(g) ==
  /\ stage[g] = "flying" /\ kind[g] # "Flash"
  /\ stage' = [stage EXCEPT ![g] = IF kind[g] = "HE" THEN "over" ELSE "effect"]
  /\ toDestroy' = IF kind[g] \in Fires \cup {"HE"} THEN toDestroy \cup {g} ELSE toDestroy
  /\ UNCHANGED <<server, frame, toBlind, grenadeProjectiles, infernos, thrownGrenades,
                 flyingFlashbangs, lastFlash, delayedEventHandlers, destroyed, flashed,
                 history>>

Expire(g) ==
  /\ stage[g] = "effect" /\ kind[g] \in {"Smoke", "Decoy"}
  /\ stage' = [stage EXCEPT ![g] = "over"] /\ toDestroy' = toDestroy \cup {g}
  /\ LET user == EventUser(thrower[g])
     IN  IF kind[g] = "Smoke"
         THEN /\ thrownGrenades' = DeleteThrownGrenade(thrownGrenades, user, "Smoke")
              /\ UNCHANGED delayedEventHandlers
         ELSE /\ delayedEventHandlers' =
                   Append(delayedEventHandlers, [do |-> "decoy", who |-> user])
              /\ UNCHANGED thrownGrenades
  /\ UNCHANGED <<server, frame, toBlind, grenadeProjectiles, infernos,
                 flyingFlashbangs, lastFlash, destroyed, flashed, history>>

(* bindNewInferno: created, destroyed (infernoExpired).                    *)
InfernoCreated(g) ==
  /\ stage[g] = "effect" /\ kind[g] \in Fires /\ g \notin infernos \cup toDestroy
  /\ infernos' = infernos \cup {g}
  /\ UNCHANGED <<server, frame, stage, toDestroy, toBlind, grenadeProjectiles,
                 thrownGrenades, flyingFlashbangs, lastFlash, delayedEventHandlers,
                 destroyed, flashed, history>>

InfernoDestroyed(g) ==
  /\ g \in infernos /\ infernos' = infernos \ {g}
  /\ stage' = [stage EXCEPT ![g] = "over"]
  /\ thrownGrenades' = DeleteThrownGrenade(thrownGrenades, thrower[g], "Incendiary")
  /\ UNCHANGED <<server, frame, toDestroy, toBlind, grenadeProjectiles,
                 flyingFlashbangs, lastFlash, delayedEventHandlers, destroyed, flashed,
                 history>>

---------------------------------------------------------------------------
(* nadeProjectileDestroyed: nothing, if a round start came first.          *)

DeletedWithProjectile_Any(t) == t \in AllTypes

DeletedWithProjectile(t) == t \in {"HE", "Flash"}

Known_Any(g) == TRUE

Known(g) == g \in grenadeProjectiles

NadeProjectileDestroyed(g) ==
  IF Known(g)
  THEN /\ destroyed' = [destroyed EXCEPT ![g] = @ + 1]
       /\ grenadeProjectiles' = grenadeProjectiles \ {g}
       /\ lastFlash' = IF kind[g] = "Flash"
                       THEN [lastFlash EXCEPT !.projectileByPlayer[thrower[g]] = g]
                       ELSE lastFlash
       /\ thrownGrenades' = IF DeletedWithProjectile(kind[g])
                            THEN DeleteThrownGrenade(thrownGrenades, thrower[g], kind[g])
                            ELSE thrownGrenades
  ELSE UNCHANGED <<destroyed, grenadeProjectiles, lastFlash, thrownGrenades>>

ExplodedFrame_Next == frame + 1

ExplodedFrame == frame

(* The entity of a projectile is deleted.  A flashbang that finds no other *)
(* in the queue leaves it at that.                                         *)
OnDestroy(g) ==
  /\ IF kind[g] = "Flash" /\ mimic
     THEN IF flyingFlashbangs = << >>
          THEN UNCHANGED <<flyingFlashbangs, destroyed, grenadeProjectiles, lastFlash,
                           thrownGrenades>>
          ELSE /\ flyingFlashbangs' =
                    [flyingFlashbangs EXCEPT ![1].exploded = ExplodedFrame]
               /\ NadeProjectileDestroyed(g)
     ELSE NadeProjectileDestroyed(g) /\ UNCHANGED flyingFlashbangs
  /\ UNCHANGED <<server, frame, toBlind, infernos, delayedEventHandlers, flashed, history>>

Destroy(g) ==
  g \in toDestroy /\ toDestroy' = toDestroy \ {g} /\ UNCHANGED stage /\ OnDestroy(g)

(* What a round left behind; for an inferno this is infernoExpired, which  *)
(* does nothing for one that is not known either.                          *)
DestroyLeft(g) ==
  /\ stage[g] = "left"
  /\ stage' = [stage EXCEPT ![g] = "over"] /\ UNCHANGED toDestroy
  /\ OnDestroy(g)

(* clearGrenadeProjectiles, at the start (or the official end) of a round. *)
(* The server puts all players back on their feet: nobody is flashed in    *)
(* that frame (the queue that is emptied would forget it).                 *)

Forgotten_Flying == {g \in grenadeProjectiles : stage[g] = "flying"}

Forgotten == grenadeProjectiles

ClearGrenadeProjectiles ==
  /\ toDestroy = {} /\ flashed = {} /\ Active # {}
  /\ destroyed' = [g \in Grenades |->
                     destroyed[g] + (IF g \in Forgotten THEN 1 ELSE 0)]
  /\ grenadeProjectiles' = grenadeProjectiles \ Forgotten /\ infernos' = {}
  /\ \E last \in [Players -> Grenades \cup {0}] :
       /\ \A p \in Players :
            LET flashes == {g \in Forgotten : kind[g] = "Flash" /\ thrower[g] = p}
            IN  last[p] \in IF flashes = {} THEN {lastFlash.projectileByPlayer[p]}
                            ELSE flashes
       /\ lastFlash' = [lastFlash EXCEPT !.projectileByPlayer = last]
  /\ thrownGrenades' = [p \in Players |-> [t \in AllTypes |-> << >>]]
  /\ flyingFlashbangs' = << >>
  /\ stage' = [g \in Grenades |-> IF g \in Active THEN "left" ELSE stage[g]]
  /\ lastRound' = frame
  /\ UNCHANGED <<mimic, kit, kind, thrower, burst, frame, toDestroy, toBlind,
                 delayedEventHandlers, flashed, history>>

---------------------------------------------------------------------------
(* processFlyingFlashbangs: the PlayerFlashed events, and what is left of  *)
(* the queue.                                                              *)

Flying_Kept ==
  IF flyingFlashbangs = << >> THEN << >>
  ELSE LET head == Head(flyingFlashbangs)
       IN  IF head.exploded > 0 /\ head.exploded < frame
             THEN Tail(flyingFlashbangs) ELSE flyingFlashbangs

Flying ==
  IF flyingFlashbangs = << >> THEN << >>
  ELSE LET head == Head(flyingFlashbangs)
       IN  IF head.flashed # {} \/ (head.exploded > 0 /\ head.exploded < frame)
             THEN Tail(flyingFlashbangs) ELSE flyingFlashbangs

PlayerFlashed(p, attacker, projectile) ==
  [player |-> p, attacker |-> attacker, projectile |-> projectile]

FlyingFlashed ==
  IF flyingFlashbangs = << >> THEN {}
  ELSE LET by == Head(flyingFlashbangs).projectile
       IN  {PlayerFlashed(p, thrower[by], by) : p \in Head(flyingFlashbangs).flashed}

(* playerBlind: it names the player of the last burst's event, and the     *)
(* flashbang of theirs (as its owner) destroyed last, if there is one.     *)
BlindTold ==
  LET attacker == lastFlash.player
      by == IF attacker = Nil THEN 0 ELSE lastFlash.projectileByPlayer[attacker]
  IN  {PlayerFlashed(d.who, attacker, by) :
         d \in {d \in ToSet(delayedEventHandlers) : d.do = "blind"}}

(* The delayed handlers, in turn: a decoy's deletes the grenade thrown last. *)
Handled ==
  LET after[n \in 0 .. Len(delayedEventHandlers)] ==
        IF n = 0 THEN thrownGrenades
        ELSE LET d == delayedEventHandlers[n]
             IN  IF d.do = "decoy" THEN DeleteThrownGrenade(after[n - 1], d.who, "Decoy")
                 ELSE after[n - 1]
  IN  after[Len(delayedEventHandlers)]

EndFrame ==
  /\ frame < MaxFrame /\ toDestroy = {} /\ toBlind = {}
  /\ frame' = frame + 1
  /\ flyingFlashbangs' = IF mimic THEN Flying ELSE flyingFlashbangs
  /\ told' = IF mimic THEN FlyingFlashed ELSE BlindTold
  /\ lastFlashed' = flashed /\ flashed' = {}
  /\ thrownGrenades' = Handled /\ delayedEventHandlers' = << >>
  /\ UNCHANGED <<server, stage, toDestroy, toBlind, grenadeProjectiles, infernos,
                 lastFlash, destroyed>>

Next ==
  \/ EndFrame
  \/ ClearGrenadeProjectiles
  \/ \E p \in Players, g \in Grenades : FlashDuration(p, g)
  \/ \E g \in Grenades :
       \/ \E p \in Players, t \in kit : Throw(g, p, t)
       \/ \E blinded \in SUBSET Players : FlashBursts(g, blinded)
       \/ Detonate(g)
       \/ Expire(g)
       \/ InfernoCreated(g)
       \/ InfernoDestroyed(g)
       \/ Destroy(g)
       \/ DestroyLeft(g)

Spec == Init /\ [][Next]_vars

---------------------------------------------------------------------------
(* Properties *)

(* The shape of the state (gameState).                                     *)
TypeOK ==
  /\ mimic \in Mimics /\ kit \in Kits /\ frame \in 1 .. MaxFrame
  /\ stage \in [Grenades -> {"none", "flying", "effect", "over", "left"}]
  /\ kind \in [Grenades -> kit \cup {Nil}]
  /\ thrower \in [Grenades -> Players \cup {Nil}]
  /\ burst \in [Grenades -> 0 .. frame] /\ lastRound \in 0 .. frame
  /\ toDestroy \cup grenadeProjectiles \cup infernos \subseteq Grenades
  /\ toBlind \cup flashed \cup lastFlashed \subseteq Players \X Grenades
  /\ told \subseteq [player : Players, attacker : Players \cup {Nil},
                      projectile : Grenades \cup {0}]
  /\ \A p \in Players, t \in AllTypes : IsInjective(thrownGrenades[p][t])
  /\ \A i \in 1 .. Len(flyingFlashbangs) :
       flyingFlashbangs[i].flashed \subseteq Players /\ flyingFlashbangs[i].exploded \in 0 .. frame
  /\ \A d \in ToSet(delayedEventHandlers) : d.do \in {"blind", "decoy"} /\ d.who \in Players

(* The PlayerFlashed events of a frame tell who was blinded in it and      *)
(* nobody else (processFlyingFlashbangs, playerBlind).  A flashbang that   *)
(* they name is one of the attacker's, and it is the one that blinded the  *)
(* player; with game events this takes one that named who threw it.        *)
FlashesTold ==
  /\ {t.player : t \in told} = {f[1] : f \in lastFlashed}
  /\ \A t \in told :
       /\ t.projectile # 0 => t.attacker = thrower[t.projectile]
       /\ \A f \in lastFlashed :
            t.player = f[1] /\ (mimic \/ t.attacker = thrower[f[2]])
              => t.projectile = f[2]

(* playerBlind asserts that PlayerFlashed.Projectile is never nil: at      *)
(* least not when the flashbang's event has named an attacker.             *)
ProjectileKnown == \A t \in told : t.attacker # Nil => t.projectile # 0

(* game_state.go says that the queue loses flashbangs as they burst, and   *)
(* processFlyingFlashbangs gives updates that are late one more frame: a   *)
(* flashbang that burst before that is not what flashes anyone now.        *)
NoStaleFlash ==
  \A t \in told : t.projectile # 0 => burst[t.projectile] >= frame - 2

(* GrenadeProjectiles and Infernos are those in flight or with an effect,  *)
(* except in the frame in which their entities change; and for a grenade   *)
(* that leaves the live projectiles GrenadeProjectileDestroy comes once,   *)
(* with its entity or with a round start, whichever is first               *)
(* (nadeProjectileDestroyed, clearGrenadeProjectiles).                     *)
LiveGrenades ==
  /\ toDestroy = {} =>
       /\ grenadeProjectiles = {g \in Grenades : InFlight(g)}
       /\ infernos \subseteq {g \in Grenades : stage[g] = "effect" /\ kind[g] \in Fires}
  /\ \A g \in Grenades :
       destroyed[g] = IF stage[g] # "none" /\ g \notin grenadeProjectiles THEN 1 ELSE 0

(* While a grenade is active, a game event about it finds a grenade of its *)
(* type that its thrower, or the bot they control, threw (nadeEvent).      *)
ActiveResolve ==
  \A g \in Active :
    LET found == GetThrownGrenade(EventUser(thrower[g]), kind[g])
    IN  found # 0 /\ (kind[found] = kind[g] \/ {kind[found], kind[g]} = Fires)

===============================================================================
