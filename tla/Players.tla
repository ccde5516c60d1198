--------------------------------- MODULE Players ---------------------------------
(***************************************************************************)
(* Who is who: the Player objects, the userinfo string table ("raw"        *)
(* players), the player controllers, and the maps that lead from entity    *)
(* IDs, user IDs and Steam IDs to players (datatables.go, stringtables.go, *)
(* game_state.go).                                                         *)
(*                                                                         *)
(* A person occupies a slot of the server.  The code takes a user ID for   *)
(* an index into the raw players (game_events.go:90), which are by slot:   *)
(* so the low byte of a user ID is here the slot.  The controller of slot  *)
(* s is the entity s + 1; the model numbers both by the slot.              *)
(***************************************************************************)
EXTENDS Naturals, Sequences, FiniteSets

CONSTANTS
  Slots,          (* numbers below 255                                      *)
  Humans,         (* their Steam IDs, which are their names too             *)
  Bots,           (* their names; a bot's Steam ID is 0                     *)
  BotsReport,     (* m_iConnected of a bot becomes 8 when it leaves         *)
  Joins           (* bound: how often each person joins                     *)

Nobody == "nobody"
NoSteamID == "0"
People == Humans \cup Bots

ASSUME PlayersAssumption ==
  /\ Slots \subseteq 0 .. 254 /\ Humans \cap Bots = {}
  /\ Nobody \notin People /\ NoSteamID \notin Humans
  /\ BotsReport \in BOOLEAN /\ Joins \in [People -> Nat]

VARIABLES
  seat,           (* the server: the person in each slot, or Nobody         *)
  joined,         (* how often each person has joined                       *)
  rawPlayers,     (* p.rawPlayers: who and uid, or NoRaw                    *)
  controllers,    (* gameState.playerControllerEntities: the person and the *)
                  (* state (m_iConnected) of the entity, and the player its *)
                  (* OnDestroy captured; or NoController                    *)
  players,        (* the Player objects ever made                           *)
  announced,      (* history: the people for whom the last event told was   *)
                  (* PlayerConnect or BotConnect, not PlayerDisconnected    *)
  playersByEntityID, playersByUserID, playersBySteamID32

index == <<playersByEntityID, playersByUserID, playersBySteamID32>>
vars == <<seat, joined, rawPlayers, controllers, players, announced, index>>

NoRaw == [who |-> Nobody, uid |-> 0]
NoController == [who |-> Nobody, state |-> "none", pl |-> 0]
NoUid == 65535          (* math.MaxUint16                                   *)
Nil == 0

(* The low byte of -1 and of 65535 alike.                                  *)
LowByte(uid) == IF uid = NoUid THEN 255 ELSE uid
UserIDs == Slots \cup {255}

SteamID_OfBots(who) == who

SteamID(who) == IF who \in Humans THEN who ELSE NoSteamID

Init ==
  /\ seat = [s \in Slots |-> Nobody] /\ joined = [w \in People |-> 0]
  /\ rawPlayers = [s \in Slots |-> NoRaw]
  /\ controllers = [s \in Slots |-> NoController]
  /\ players = << >> /\ announced = {}
  /\ playersByEntityID = [s \in Slots |-> Nil]
  /\ playersByUserID = [u \in UserIDs |-> Nil]
  /\ playersBySteamID32 = [h \in Humans |-> Nil]

---------------------------------------------------------------------------
(* The userinfo string table.  A user ID of 65535 keeps the one before.    *)

KeptUid_Never(s, uid) == uid

KeptUid(s, uid) ==
  IF uid = NoUid /\ rawPlayers[s] # NoRaw THEN rawPlayers[s].uid ELSE uid

(* gameState.indexPlayerBySteamID.                                         *)
IndexBySteamID(pl, id) ==
  playersBySteamID32' =
    IF ~pl.isBot /\ pl.steamID # NoSteamID
    THEN [playersBySteamID32 EXCEPT ![pl.steamID] = id]
    ELSE playersBySteamID32

UpdatePlayerFromRawIfExists(s, who) ==
  LET id == playersByEntityID[s]
      pl == [players[id] EXCEPT !.name = who, !.steamID = SteamID(who), !.isBot = who \in Bots]
  IN  IF id = Nil
      THEN UNCHANGED <<players, playersBySteamID32>>
      ELSE players' = [players EXCEPT ![id] = pl] /\ IndexBySteamID(pl, id)

SetRawPlayer(s, who, uid) ==
  /\ rawPlayers' = [rawPlayers EXCEPT ![s] = [who |-> who, uid |-> KeptUid(s, uid)]]
  /\ UpdatePlayerFromRawIfExists(s, who)
  /\ UNCHANGED <<controllers, announced, playersByEntityID, playersByUserID>>

(* A person takes a slot: a free one whose controller is gone, or the one  *)
(* whose controller is still theirs.  Bound: Joins.                        *)
Join(s, who) ==
  /\ seat[s] = Nobody /\ controllers[s].who \in {Nobody, who}
  /\ \A t \in Slots : seat[t] # who
  /\ \A t \in Slots \ {s} : controllers[t].who # who
  /\ joined[who] < Joins[who]
  /\ seat' = [seat EXCEPT ![s] = who]
  /\ joined' = [joined EXCEPT ![who] = @ + 1]
  /\ SetRawPlayer(s, who, s)

(* Their userinfo is sent again.                                           *)
UserInfo(s, uid) ==
  /\ seat[s] # Nobody /\ uid \in {s, NoUid}
  /\ SetRawPlayer(s, seat[s], uid)
  /\ UNCHANGED <<seat, joined>>

---------------------------------------------------------------------------
(* The player of a controller: by entity, by user ID, or a new one.        *)

(* The raw player with the controller's Steam ID, or bot's name, if there  *)
(* is one (in a Go map, whichever comes last if there are several), or the *)
(* one of the slot.                                                        *)
RawOf(s, who) ==
  LET own == {rawPlayers[t] : t \in {u \in Slots : rawPlayers[u].who = who}}
  IN  IF own # {} THEN own ELSE {rawPlayers[s]}

(* An unknown player, without a raw one (issue #162).                      *)
NewPlayer(rp) ==
  [userID |-> 255, steamID |-> SteamID(rp.who), isBot |-> rp.who \in Bots,
   name |-> IF rp = NoRaw THEN "unknown" ELSE rp.who, isConnected |-> FALSE]

Known(s, rp) ==
  IF playersByEntityID[s] # Nil \/ rp = NoRaw THEN playersByEntityID[s]
  ELSE playersByUserID[LowByte(rp.uid)]

(* The player that getOrCreatePlayerFromControllerEntity returns: which    *)
(* one, and what it has become.                                            *)
Id(s, rp) == IF Known(s, rp) # Nil THEN Known(s, rp) ELSE Len(players) + 1

Player(s, who, rp) ==
  LET pl == IF Known(s, rp) # Nil THEN players[Known(s, rp)] ELSE NewPlayer(rp)
  IN  [pl EXCEPT !.userID = LowByte(IF rp = NoRaw THEN NoUid ELSE rp.uid),
                 !.isBot = who \in Bots,
                 !.name = IF who \in Bots THEN who ELSE @]

Indexed_ByRawOnly(s, rp) == FALSE

Indexed(s, rp) == Known(s, rp) = Nil /\ rp # NoRaw

(* Its effect, with the player as the caller goes on to change it.         *)
GetOrCreatePlayer(s, rp, pl) ==
  LET id == Id(s, rp)
  IN  /\ players' = IF id > Len(players) THEN Append(players, pl) ELSE [players EXCEPT ![id] = pl]
      /\ playersByEntityID' = [playersByEntityID EXCEPT ![s] = id]
      /\ playersByUserID' = IF rp = NoRaw THEN playersByUserID
                            ELSE [playersByUserID EXCEPT ![LowByte(rp.uid)] = id]
      /\ IF Indexed(s, rp)
         THEN IndexBySteamID(NewPlayer(rp), id)
         ELSE UNCHANGED playersBySteamID32

---------------------------------------------------------------------------
(* The controllers.  A server creates one for a person with userinfo,      *)
(* changes it while the person is there, and then deletes it or keeps it   *)
(* for their return.                                                       *)

(* bindNewPlayerController.                                                *)
CreateController(s) ==
  /\ seat[s] # Nobody /\ controllers[s] = NoController
  /\ \E rp \in RawOf(s, seat[s]) :
       /\ GetOrCreatePlayer(s, rp, Player(s, seat[s], rp))
       /\ controllers' = [controllers EXCEPT ![s] =
                            [who |-> seat[s], state |-> "new", pl |-> Id(s, rp)]]
  /\ UNCHANGED <<seat, joined, rawPlayers, announced>>

(* m_hController of a pawn, which finds the player of the controller.      *)
PawnUpdate(s) ==
  /\ seat[s] # Nobody /\ controllers[s] # NoController
  /\ \E rp \in RawOf(s, seat[s]) : GetOrCreatePlayer(s, rp, Player(s, seat[s], rp))
  /\ UNCHANGED <<seat, joined, rawPlayers, controllers, announced>>

WasConnected_Late(pl, st) == st = "connected"

WasConnected(pl, st) == pl.isConnected

(* m_iConnected becomes 0 ("connected"), 8, or anything else.              *)
Connected(s, st) ==
  /\ seat[s] # Nobody /\ controllers[s] # NoController
  /\ st \in {"connected", "connecting"}
  /\ \E rp \in RawOf(s, seat[s]) :
       LET pl == Player(s, seat[s], rp)
       IN  /\ GetOrCreatePlayer(s, rp, [pl EXCEPT !.isConnected = st = "connected"])
           /\ announced' = IF st = "connected" /\ ~WasConnected(pl, st)
                           THEN announced \cup {pl.name} ELSE announced
  /\ controllers' = [controllers EXCEPT ![s].state = st]
  /\ UNCHANGED <<seat, joined, rawPlayers>>

(* All raw players with the Steam ID go: with a bot, those of all bots.    *)
Disconnected(s) ==
  /\ seat[s] # Nobody /\ controllers[s] # NoController
  /\ seat[s] \in Humans \/ BotsReport
  /\ \E rp \in RawOf(s, seat[s]) :
       LET pl == Player(s, seat[s], rp)
       IN  /\ GetOrCreatePlayer(s, rp, [pl EXCEPT !.isConnected = FALSE])
           /\ rawPlayers' = [t \in Slots |-> IF rawPlayers[t] # NoRaw
                                               /\ SteamID(rawPlayers[t].who) = pl.steamID
                                            THEN NoRaw ELSE rawPlayers[t]]
           /\ announced' = announced \ {pl.name}
  /\ controllers' = [controllers EXCEPT ![s].state = "disconnected"]
  /\ seat' = [seat EXCEPT ![s] = Nobody]
  /\ UNCHANGED joined

Forgotten_ByEntityOnly(pl) == playersByUserID

(* The user ID is that of the player whom the controller was created with. *)
Forgotten(pl) == [playersByUserID EXCEPT ![pl.userID] = Nil]

(* OnDestroy of the controller.                                            *)
DeleteController(s) ==
  /\ seat[s] = Nobody /\ controllers[s] # NoController
  /\ LET id == controllers[s].pl
     IN  /\ players' = [players EXCEPT ![id].isConnected = FALSE]
         /\ playersByUserID' = Forgotten(players[id])
  /\ playersByEntityID' = [playersByEntityID EXCEPT ![s] = Nil]
  /\ controllers' = [controllers EXCEPT ![s] = NoController]
  /\ UNCHANGED <<seat, joined, rawPlayers, announced, playersBySteamID32>>

---------------------------------------------------------------------------
(* The game events address players by user ID.                             *)

PlayerByUserID(uid) ==
  LET rawUid == rawPlayers[uid].uid
  IN  CASE playersByUserID[uid] # Nil -> playersByUserID[uid]
        [] playersByUserID[uid] = Nil /\ rawPlayers[uid] # NoRaw /\ rawUid \in UserIDs
             -> playersByUserID[rawUid]
        [] OTHER -> Nil

(* player_disconnect, which counts for bots only.                          *)
BotLeaves(s) ==
  /\ seat[s] \in Bots /\ ~BotsReport /\ controllers[s] # NoController
  /\ LET id == PlayerByUserID(s)
     IN  IF id # Nil /\ players[id].isBot
         THEN /\ players' = [players EXCEPT ![id].isConnected = FALSE]
              /\ announced' = announced \ {players[id].name}
         ELSE UNCHANGED <<players, announced>>
  /\ seat' = [seat EXCEPT ![s] = Nobody]
  /\ UNCHANGED <<joined, rawPlayers, controllers, index>>

Next ==
  \E s \in Slots :
    \/ \E who \in People : Join(s, who)
    \/ \E uid \in {s, NoUid} : UserInfo(s, uid)
    \/ CreateController(s) \/ PawnUpdate(s) \/ DeleteController(s)
    \/ (\E st \in {"connected", "connecting"} : Connected(s, st)) \/ Disconnected(s)
    \/ BotLeaves(s)

Spec == Init /\ [][Next]_vars

---------------------------------------------------------------------------
(* Properties.                                                             *)

(* The slots whose controller has told, by m_iConnected, that its person   *)
(* is there, and the player of each.                                       *)
Present == {s \in Slots : seat[s] # Nobody /\ controllers[s].state = "connected"}

PlayerOf(s) == players[playersByEntityID[s]]

(* Participants.ByUserID, and Connected.                                   *)
ByUserID_Unfiltered ==
  {playersByUserID[u] : u \in {v \in UserIDs : playersByUserID[v] # Nil}}

ByUserID ==
  {playersByUserID[u] : u \in {v \in UserIDs : playersByUserID[v] # Nil
                                              /\ players[playersByUserID[v]].isConnected}}

(* The types; map entries are players.                                     *)
TypeOK ==
  /\ players \in Seq([userID : UserIDs, steamID : Humans \cup {NoSteamID}, isBot : BOOLEAN,
                      name : People \cup {"unknown"}, isConnected : BOOLEAN])
  /\ rawPlayers \in [Slots -> [who : People \cup {Nobody}, uid : Slots \cup {0, NoUid}]]
  /\ LET ids == {Nil} \cup DOMAIN players
     IN  /\ controllers \in [Slots -> [who : People \cup {Nobody}, pl : ids,
                                       state : {"none", "new", "connected", "connecting",
                                                "disconnected"}]]
         /\ playersByEntityID \in [Slots -> ids] /\ playersByUserID \in [UserIDs -> ids]
         /\ playersBySteamID32 \in [Humans -> ids]
  /\ seat \in [Slots -> People \cup {Nobody}] /\ joined \in [People -> Nat]
  /\ announced \subseteq People

(* A game event that names the user ID of somebody present is about the    *)
(* player whom their entity belongs to, though user IDs are missing from   *)
(* some userinfo (stringtables.go:126) and slots are taken over; and a     *)
(* rank update, which has a Steam ID only, finds the player who is there   *)
(* now, not one of an earlier stay (net_messages.go:90).                   *)
EventsResolve ==
  \A s \in Present :
    /\ PlayerByUserID(s) = playersByEntityID[s]
    /\ seat[s] \in Humans => playersBySteamID32[seat[s]] = playersByEntityID[s]

(* Everybody present has a Player of their own with their own name and     *)
(* Steam ID, never what a predecessor in the slot has left behind.         *)
OwnIdentity ==
  \A s \in Present :
    /\ PlayerOf(s).name = seat[s] /\ PlayerOf(s).steamID = SteamID(seat[s])
    /\ PlayerOf(s).isBot = (seat[s] \in Bots)
    /\ \A t \in Present \ {s} : playersByEntityID[t] # playersByEntityID[s]

(* Participants().Connected() has the players of those present, and nobody *)
(* else: not who is only connecting, nor who has left (issue #98).         *)
ConnectedExact == ByUserID = {playersByEntityID[s] : s \in Present}

(* Somebody who follows the events knows of everybody present, and of      *)
(* nobody who has left.                                                    *)
PresenceAnnounced ==
  /\ {seat[s] : s \in Present} \subseteq announced
  /\ announced \subseteq {seat[s] : s \in Slots}

(* Not true of the code.  common/player.go:18 says of UserID "Mostly used  *)
(* in game-events to address this player".                                 *)
UserIDAddresses ==
  \A s \in Present : playersByUserID[PlayerOf(s).userID] = playersByEntityID[s]
===============================================================================
