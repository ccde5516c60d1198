---------------------------- MODULE Players_proofs ----------------------------
(***************************************************************************)
(* Proofs about Players, for any slots, people and number of joins.        *)
(***************************************************************************)
EXTENDS Players, SequenceTheorems, TLAPS

USE DEF Nil

(* What the proofs assume of the server: bots do not come back, and do not  *)
(* report that they leave.                                                  *)
BotsStayAway == ~BotsReport /\ \A b \in Bots : Joins[b] <= 1

(* Everybody has one seat and one controller, and a bot that was there will *)
(* not come again.                                                          *)
SeatInv ==
  /\ \A s, t \in Slots :
       s # t /\ seat[s] # Nobody => seat[t] # seat[s] /\ controllers[t].who # seat[s]
  /\ \A s, t \in Slots :
       s # t /\ controllers[s].who # Nobody => controllers[t].who # controllers[s].who
  /\ \A s \in Slots :
       /\ controllers[s] = NoController \/ controllers[s].who # Nobody
       /\ controllers[s].who # Nobody /\ seat[s] # Nobody => controllers[s].who = seat[s]
       /\ seat[s] \in Bots => joined[seat[s]] >= 1
       /\ controllers[s].who \in Bots => joined[controllers[s].who] >= 1
       /\ controllers[s].who \in Humans /\ seat[s] = Nobody
            => controllers[s].state = "disconnected"

(* The raw player of a seat is that of the person there; one that was left  *)
(* is that of a bot.                                                        *)
RawInv ==
  \A s \in Slots :
    /\ seat[s] # Nobody => rawPlayers[s] = [who |-> seat[s], uid |-> s]
    /\ seat[s] = Nobody =>
         \/ rawPlayers[s] = NoRaw
         \/ /\ rawPlayers[s].who \in Bots /\ joined[rawPlayers[s].who] >= 1
            /\ \A t \in Slots : seat[t] # rawPlayers[s].who

(* A controller has a player of its own, found by the entity, the user ID   *)
(* and the Steam ID.                                                        *)
IndexInv ==
  /\ \A s \in Slots : playersByUserID[s] = playersByEntityID[s]
  /\ playersByUserID[255] = Nil
  /\ \A s \in Slots : controllers[s].who = Nobody => playersByEntityID[s] = Nil
  /\ \A s \in Slots : controllers[s].who # Nobody =>
       /\ playersByEntityID[s] # Nil /\ controllers[s].pl = playersByEntityID[s]
       /\ controllers[s].who \in Humans
            => playersBySteamID32[controllers[s].who] = playersByEntityID[s]
  /\ \A s, t \in Slots :
       s # t /\ playersByEntityID[s] # Nil => playersByEntityID[t] # playersByEntityID[s]

(* The player of a controller is its person, connected if the person is     *)
(* there and the controller has said so.                                    *)
PersonInv ==
  \A s \in Slots : controllers[s].who # Nobody =>
    /\ PlayerOf(s).userID = s
    /\ PlayerOf(s).steamID = SteamID(controllers[s].who)
    /\ PlayerOf(s).isBot = (controllers[s].who \in Bots)
    /\ PlayerOf(s).name = controllers[s].who
    /\ PlayerOf(s).isConnected = (s \in Present)

(* The people told of are those who are there.                              *)
ToldInv ==
  /\ \A s \in Present : seat[s] \in announced
  /\ \A who \in announced : \E s \in Slots : seat[s] = who

IInv == TypeOK /\ SeatInv /\ RawInv /\ IndexInv /\ PersonInv /\ ToldInv

-------------------------------------------------------------------------------
(* What the operators of the model do in a state of the invariant.          *)

PlayerType == [userID : UserIDs, steamID : Humans \cup {NoSteamID}, isBot : BOOLEAN,
               name : People \cup {"unknown"}, isConnected : BOOLEAN]

(* The types one by one.                                                    *)
LEMMA Types ==
  ASSUME TypeOK
  PROVE  /\ players \in Seq(PlayerType) /\ Len(players) \in Nat
         /\ \A i \in 1 .. Len(players) : players[i] \in PlayerType
         /\ playersByEntityID \in [Slots -> Nat] /\ playersByUserID \in [UserIDs -> Nat]
         /\ playersBySteamID32 \in [Humans -> Nat]
         /\ \A s \in Slots : playersByEntityID[s] <= Len(players)
<1>1. players \in Seq(PlayerType)
  BY DEF TypeOK, PlayerType
<1>2. Len(players) \in Nat /\ DOMAIN players = 1 .. Len(players)
  BY <1>1
<1>3. \A i \in 1 .. Len(players) : players[i] \in PlayerType
  BY <1>1, ElementOfSeq
<1> DEFINE ids == {Nil} \cup DOMAIN players
<1>4. /\ playersByEntityID \in [Slots -> ids] /\ playersByUserID \in [UserIDs -> ids]
      /\ playersBySteamID32 \in [Humans -> ids]
  BY DEF TypeOK
<1>5. \A i \in ids : i \in Nat /\ i <= Len(players)
  BY <1>2
<1> HIDE DEF ids
<1> QED
  BY <1>1, <1>2, <1>3, <1>4, <1>5

(* Slots are user IDs that fit a byte.                                      *)
LEMMA SlotType ==
  /\ \A s \in Slots : s \in Nat /\ s # NoUid /\ s # 255 /\ s \in UserIDs /\ LowByte(s) = s
  /\ 255 \in UserIDs
  BY PlayersAssumption DEF NoUid, UserIDs, LowByte

(* The Steam ID of a person is their own, that of a bot is nobody's.        *)
LEMMA SteamIDs ==
  /\ \A who \in People : SteamID(who) \in Humans \cup {NoSteamID}
  /\ \A who \in Humans : SteamID(who) = who /\ who # NoSteamID /\ who \notin Bots
  /\ \A who \in Bots : SteamID(who) = NoSteamID
  BY PlayersAssumption DEF SteamID, People

(* The raw player found for somebody's controller is their own.             *)
LEMMA RawIsOwn ==
  ASSUME SeatInv, RawInv, NEW s \in Slots, seat[s] # Nobody
  PROVE  RawOf(s, seat[s]) = {[who |-> seat[s], uid |-> s]}
<1>1. rawPlayers[s] = [who |-> seat[s], uid |-> s]
  BY DEF RawInv
<1>2. ASSUME NEW t \in Slots, rawPlayers[t].who = seat[s] PROVE t = s
  <2>1. CASE seat[t] # Nobody
    <3>0. \A u \in Slots : seat[u] # Nobody => rawPlayers[u] = [who |-> seat[u], uid |-> u]
      BY DEF RawInv
    <3>1. rawPlayers[t].who = seat[t]
      <4>1. rawPlayers[t] = [who |-> seat[t], uid |-> t]
        BY <2>1, <3>0
      <4> QED
        BY <4>1
    <3>2. \A u, v \in Slots : u # v /\ seat[u] # Nobody => seat[v] # seat[u]
      BY DEF SeatInv
    <3> QED
      BY <1>2, <3>1, <3>2
  <2>2. CASE seat[t] = Nobody
    <3>1. rawPlayers[t] # NoRaw
      BY <1>2 DEF NoRaw
    <3> QED
      BY <1>2, <2>2, <3>1 DEF RawInv
  <2> QED
    BY <2>1, <2>2
<1>3. {u \in Slots : rawPlayers[u].who = seat[s]} = {s}
  BY <1>1, <1>2
<1> QED
  BY <1>1, <1>3 DEF RawOf

(* Whom somebody's controller is for, as a player.                          *)
IsPlayerOf(pl, s, who) ==
  /\ pl \in PlayerType
  /\ pl.userID = s /\ pl.steamID = SteamID(who) /\ pl.name = who
  /\ pl.isBot <=> who \in Bots

(* The player that a controller finds or makes is that of its person.       *)
LEMMA PlayerFound ==
  ASSUME TypeOK, SeatInv, RawInv, IndexInv, PersonInv, NEW s \in Slots, seat[s] # Nobody,
         NEW rp \in RawOf(s, seat[s])
  PROVE  /\ rp # NoRaw /\ LowByte(rp.uid) = s
         /\ rp.who = seat[s]
         /\ Known(s, rp) = playersByEntityID[s]
         /\ IsPlayerOf(Player(s, seat[s], rp), s, seat[s])
         /\ Player(s, seat[s], rp).isConnected <=> s \in Present
<1> DEFINE who == seat[s]
           id == playersByEntityID[s]
<1>0. who \in People /\ seat[s] \in People
  BY DEF TypeOK
<1>1. rp = [who |-> who, uid |-> s] /\ rp # NoRaw /\ rp.who = who /\ rp.uid = s
  BY <1>0, RawIsOwn, PlayersAssumption DEF NoRaw
<1>2. LowByte(rp.uid) = s /\ rp.uid # NoUid
  BY <1>1, SlotType
<1>3. Known(s, rp) = id
  BY <1>1, <1>2 DEF Known, IndexInv
<1> DEFINE bot == who \in Bots
           pl == IF id = Nil THEN NewPlayer(rp) ELSE players[id]
<1>4. Player(s, who, rp) = [pl EXCEPT !.userID = s, !.isBot = bot,
                                      !.name = IF bot THEN who ELSE @]
  BY <1>1, <1>2, <1>3 DEF Player
<1>5. /\ pl \in PlayerType /\ pl.steamID = SteamID(who) /\ pl.name = who
      /\ pl.isConnected <=> s \in Present
  <2>1. CASE id = Nil
    <3>1. pl = [userID |-> 255, steamID |-> SteamID(who), isBot |-> bot, name |-> who,
                isConnected |-> FALSE]
      BY <1>1, <2>1 DEF NewPlayer
    <3>2. SteamID(who) \in Humans \cup {NoSteamID} /\ 255 \in UserIDs
          /\ who \in People \cup {"unknown"} /\ bot \in BOOLEAN
      BY <1>0, SlotType, SteamIDs
    <3>3. s \notin Present
      <4>1. controllers[s].who = Nobody
        BY <2>1 DEF IndexInv
      <4>2. controllers[s] = NoController
        BY <4>1 DEF SeatInv
      <4> QED
        BY <4>2 DEF Present, NoController
    <3> HIDE DEF bot, pl
    <3> QED
      BY <3>1, <3>2, <3>3 DEF PlayerType
  <2>2. CASE id # Nil
    <3>1. controllers[s].who = who /\ who # Nobody
      BY <2>2 DEF IndexInv, SeatInv
    <3>2. pl = players[id] /\ pl = PlayerOf(s) /\ id \in 1 .. Len(players)
      BY <2>2, Types DEF PlayerOf
    <3>3. pl \in PlayerType
      BY <3>2, Types
    <3>4. pl.steamID = SteamID(who) /\ pl.name = who
      BY <3>1, <3>2 DEF PersonInv
    <3>5. pl.isConnected <=> s \in Present
      BY <3>1, <3>2 DEF PersonInv
    <3> QED
      BY <3>3, <3>4, <3>5
  <2> QED
    BY <2>1, <2>2
<1>6. bot \in BOOLEAN /\ s \in UserIDs /\ who \in People \cup {"unknown"}
  BY <1>0, SlotType
<1>7. (bot <=> who \in Bots) /\ IsPlayerOf(Player(s, who, rp), s, who)
      /\ (Player(s, who, rp).isConnected <=> s \in Present)
  <2>1. bot <=> who \in Bots
    OBVIOUS
  <2> HIDE DEF bot, pl
  <2> DEFINE q == Player(s, who, rp)
  <2>2. q = [pl EXCEPT !.userID = s, !.isBot = bot, !.name = IF bot THEN who ELSE @]
    BY <1>4
  <2> HIDE DEF q
  <2>3. q \in PlayerType /\ q.userID = s /\ q.isBot = bot /\ q.name = who
        /\ q.steamID = SteamID(who) /\ q.isConnected = pl.isConnected
    BY <1>5, <1>6, <2>2 DEF PlayerType
  <2>4. IsPlayerOf(q, s, who)
    BY <2>1, <2>3 DEF IsPlayerOf
  <2> QED
    BY <1>5, <2>1, <2>3, <2>4 DEF q
<1> QED
  BY <1>1, <1>2, <1>3, <1>7

(* What a step does to the players of the controllers other than s.         *)
OthersKept(s) ==
  \A t \in Slots \ {s} :
    /\ seat'[t] = seat[t] /\ controllers'[t] = controllers[t]
    /\ playersByEntityID'[t] = playersByEntityID[t]
    /\ playersByEntityID[t] # Nil => players'[playersByEntityID[t]] = players[playersByEntityID[t]]

SteamIDsKept(s) ==
  \A t \in Slots \ {s} :
    controllers[t].who \in Humans
      => playersBySteamID32'[controllers[t].who] = playersBySteamID32[controllers[t].who]

(* The maps of the next state agree about slot s, and no other controller   *)
(* has its player.                                                          *)
OwnPlayer(s) ==
  /\ playersByEntityID'[s] # Nil
  /\ \A t \in Slots \ {s} : playersByEntityID[t] # playersByEntityID'[s]

UserIDsFollow ==
  /\ \A t \in Slots : playersByUserID'[t] = playersByEntityID'[t]
  /\ playersByUserID'[255] = Nil

(* getOrCreatePlayerFromControllerEntity gives slot s the player pl and     *)
(* leaves those of other slots alone.                                       *)
LEMMA PlayerGiven ==
  ASSUME TypeOK, SeatInv, RawInv, IndexInv, PersonInv, NEW s \in Slots, seat[s] # Nobody,
         NEW rp \in RawOf(s, seat[s]), NEW pl, IsPlayerOf(pl, s, seat[s]),
         GetOrCreatePlayer(s, rp, pl)
  PROVE  /\ players' \in Seq(PlayerType) /\ Len(players') >= Len(players)
         /\ playersByEntityID' = [playersByEntityID EXCEPT ![s] = Id(s, rp)]
         /\ playersByUserID' = [playersByUserID EXCEPT ![s] = Id(s, rp)]
         /\ Id(s, rp) \in 1 .. Len(players')
         /\ players'[Id(s, rp)] = pl
         /\ OwnPlayer(s) /\ UserIDsFollow
         /\ \A t \in Slots \ {s} :
              /\ playersByEntityID'[t] = playersByEntityID[t]
              /\ playersByEntityID[t] # Nil
                   => players'[playersByEntityID[t]] = players[playersByEntityID[t]]
         /\ playersBySteamID32' \in [Humans -> Nat]
         /\ \A h \in Humans : playersBySteamID32'[h] \in {playersBySteamID32[h], Id(s, rp)}
         /\ seat[s] \in Humans => playersBySteamID32'[seat[s]] = Id(s, rp)
         /\ \A h \in Humans \ {seat[s]} : playersBySteamID32'[h] = playersBySteamID32[h]
<1> DEFINE who == seat[s]
           id == Id(s, rp)
<1>0. who \in People
  BY DEF TypeOK
<1>1. /\ rp # NoRaw /\ LowByte(rp.uid) = s /\ rp.who = who
      /\ Known(s, rp) = playersByEntityID[s]
  BY PlayerFound
<1>2. id = IF playersByEntityID[s] # Nil THEN playersByEntityID[s] ELSE Len(players) + 1
  BY <1>1 DEF Id
<1>3. /\ players \in Seq(PlayerType) /\ Len(players) \in Nat /\ pl \in PlayerType
      /\ playersByEntityID \in [Slots -> Nat] /\ playersByUserID \in [UserIDs -> Nat]
      /\ playersBySteamID32 \in [Humans -> Nat]
      /\ \A t \in Slots : playersByEntityID[t] <= Len(players)
  BY Types DEF IsPlayerOf
<1>4. id \in Nat /\ id # 0 /\ \A t \in Slots \ {s} : playersByEntityID[t] # id
  <2>1. CASE playersByEntityID[s] # Nil
    BY <1>2, <1>3, <2>1 DEF IndexInv
  <2>2. CASE playersByEntityID[s] = Nil
    BY <1>2, <1>3, <2>2
  <2> QED
    BY <2>1, <2>2
<1>5. /\ players' = IF id > Len(players) THEN Append(players, pl) ELSE [players EXCEPT ![id] = pl]
      /\ playersByEntityID' = [playersByEntityID EXCEPT ![s] = id]
      /\ playersByUserID' = [playersByUserID EXCEPT ![s] = id]
      /\ IF Known(s, rp) = Nil THEN IndexBySteamID(NewPlayer(rp), id)
                               ELSE UNCHANGED playersBySteamID32
  BY <1>1 DEF GetOrCreatePlayer, Indexed
<1> HIDE DEF id
<1>6. /\ players' \in Seq(PlayerType) /\ Len(players') >= Len(players)
      /\ id \in 1 .. Len(players') /\ players'[id] = pl
      /\ \A i \in 1 .. Len(players) : i # id => players'[i] = players[i]
  <2>1. CASE id > Len(players)
    <3>1. id = Len(players) + 1
      BY <1>2, <1>3, <2>1
    <3>2. players' = Append(players, pl)
      BY <1>5, <2>1
    <3> QED
      BY <1>3, <3>1, <3>2, AppendProperties
  <2>2. CASE id <= Len(players)
    <3>1. players' = [players EXCEPT ![id] = pl] /\ id \in 1 .. Len(players)
      BY <1>3, <1>4, <1>5, <2>2
    <3>2. players' \in Seq(PlayerType) /\ Len(players') = Len(players)
      BY <1>3, <3>1, ExceptSeq
    <3> QED
      BY <1>3, <3>1, <3>2
  <2> QED
    BY <1>3, <1>4, <2>1, <2>2
<1>7. /\ playersByEntityID'[s] = id /\ playersByUserID'[s] = id
      /\ \A t \in Slots \ {s} : playersByEntityID'[t] = playersByEntityID[t]
      /\ \A u \in UserIDs \ {s} : playersByUserID'[u] = playersByUserID[u]
  BY <1>3, <1>5, SlotType
<1>8. OwnPlayer(s) /\ UserIDsFollow
  BY <1>4, <1>7, SlotType DEF OwnPlayer, UserIDsFollow, IndexInv
<1>9. \A t \in Slots \ {s} : playersByEntityID[t] # Nil
        => players'[playersByEntityID[t]] = players[playersByEntityID[t]]
  BY <1>3, <1>4, <1>6
<1>10. /\ playersBySteamID32' \in [Humans -> Nat]
       /\ who \in Humans => playersBySteamID32'[who] = id
       /\ \A h \in Humans \ {who} : playersBySteamID32'[h] = playersBySteamID32[h]
  <2>1. CASE Known(s, rp) # Nil
    <3>1. playersBySteamID32' = playersBySteamID32 /\ playersByEntityID[s] # Nil
          /\ id = playersByEntityID[s]
      BY <1>1, <1>2, <1>5, <2>1
    <3>2. controllers[s].who = who
      BY <3>1 DEF IndexInv, SeatInv
    <3> QED
      BY <1>3, <3>1, <3>2 DEF IndexInv
  <2>2. CASE Known(s, rp) = Nil
    <3> DEFINE n == NewPlayer(rp)
    <3>1. n.steamID = SteamID(who) /\ (n.isBot <=> who \in Bots)
      BY <1>1 DEF NewPlayer
    <3>2. playersBySteamID32' = IF ~n.isBot /\ n.steamID # NoSteamID
                                THEN [playersBySteamID32 EXCEPT ![n.steamID] = id]
                                ELSE playersBySteamID32
      BY <1>5, <2>2 DEF IndexBySteamID
    <3> HIDE DEF n
    <3>3. CASE who \in Humans
      <4>1. n.steamID = who /\ who # NoSteamID /\ ~n.isBot
        BY <3>1, <3>3, SteamIDs
      <4> QED
        BY <1>3, <1>4, <3>2, <3>3, <4>1
    <3>4. CASE who \in Bots
      BY <1>3, <3>1, <3>2, <3>4, SteamIDs
    <3> QED
      BY <1>0, <3>3, <3>4 DEF People
  <2> QED
    BY <2>1, <2>2
<1>11. \A h \in Humans : playersBySteamID32'[h] \in {playersBySteamID32[h], id}
  BY <1>10
<1> QED
  BY <1>5, <1>6, <1>7, <1>8, <1>9, <1>10, <1>11 DEF id

(* A slot's new player and maps keep the invariants of the others.          *)
LEMMA SlotChanged ==
  ASSUME TypeOK, SeatInv, IndexInv, PersonInv, NEW s \in Slots,
         OthersKept(s), SteamIDsKept(s), UserIDsFollow,
         controllers'[s].who = Nobody => playersByEntityID'[s] = Nil,
         controllers'[s].who # Nobody =>
           /\ OwnPlayer(s) /\ controllers'[s].pl = playersByEntityID'[s]
           /\ IsPlayerOf(PlayerOf(s)', s, controllers'[s].who)
           /\ PlayerOf(s).isConnected' <=> (seat'[s] # Nobody /\ controllers'[s].state = "connected")
           /\ controllers'[s].who \in Humans
                => playersBySteamID32'[controllers'[s].who] = playersByEntityID'[s]
  PROVE  IndexInv' /\ PersonInv'
<1>1. IndexInv'
  <2>1. \A t \in Slots : controllers'[t].who = Nobody => playersByEntityID'[t] = Nil
    BY DEF OthersKept, IndexInv
  <2>2. \A t \in Slots : controllers'[t].who # Nobody =>
          /\ playersByEntityID'[t] # Nil /\ controllers'[t].pl = playersByEntityID'[t]
          /\ controllers'[t].who \in Humans
               => playersBySteamID32'[controllers'[t].who] = playersByEntityID'[t]
    BY DEF OthersKept, SteamIDsKept, OwnPlayer, IndexInv
  <2>3. \A t, u \in Slots : t # u /\ playersByEntityID'[t] # Nil
          => playersByEntityID'[u] # playersByEntityID'[t]
    BY DEF OthersKept, OwnPlayer, IndexInv
  <2> QED
    BY <2>1, <2>2, <2>3 DEF UserIDsFollow, IndexInv
<1>2. ASSUME NEW t \in Slots \ {s}, controllers'[t].who # Nobody
      PROVE  /\ IsPlayerOf(PlayerOf(t)', t, controllers'[t].who)
             /\ PlayerOf(t).isConnected' <=> (seat'[t] # Nobody /\ controllers'[t].state = "connected")
  <2>1. controllers'[t] = controllers[t] /\ seat'[t] = seat[t]
    BY DEF OthersKept
  <2>2. controllers[t].who # Nobody /\ playersByEntityID[t] # Nil
    BY <1>2, <2>1 DEF IndexInv
  <2>3. PlayerOf(t)' = PlayerOf(t)
    BY <2>2 DEF OthersKept, PlayerOf
  <2>4. PlayerOf(t) \in PlayerType
    <3>1. playersByEntityID[t] \in 1 .. Len(players)
      BY <2>2, Types
    <3> QED
      BY <3>1, Types DEF PlayerOf
  <2>5. IsPlayerOf(PlayerOf(t), t, controllers[t].who)
    BY <2>2, <2>4 DEF PersonInv, IsPlayerOf
  <2>6. PlayerOf(t).isConnected <=> (seat[t] # Nobody /\ controllers[t].state = "connected")
    BY <2>2 DEF PersonInv, Present
  <2> QED
    BY <2>1, <2>3, <2>5, <2>6
<1>3. ASSUME NEW t \in Slots, controllers'[t].who # Nobody
      PROVE  /\ PlayerOf(t)'.userID = t
             /\ PlayerOf(t)'.steamID = SteamID(controllers'[t].who)
             /\ PlayerOf(t)'.isBot = (controllers'[t].who \in Bots)
             /\ PlayerOf(t)'.name = controllers'[t].who
             /\ PlayerOf(t)'.isConnected = (seat'[t] # Nobody /\ controllers'[t].state = "connected")
  <2>1. IsPlayerOf(PlayerOf(t)', t, controllers'[t].who)
    BY <1>2, <1>3
  <2>2. PlayerOf(t)'.isConnected <=> (seat'[t] # Nobody /\ controllers'[t].state = "connected")
    BY <1>2, <1>3
  <2>3. PlayerOf(t)'.isBot \in BOOLEAN /\ PlayerOf(t)'.isConnected \in BOOLEAN
    BY <2>1 DEF IsPlayerOf, PlayerType
  <2>4. PlayerOf(t)'.isConnected = (seat'[t] # Nobody /\ controllers'[t].state = "connected")
    BY <2>2, <2>3
  <2>5. PlayerOf(t)'.isBot = (controllers'[t].who \in Bots)
    BY <2>1, <2>3 DEF IsPlayerOf
  <2> QED
    BY <2>1, <2>4, <2>5 DEF IsPlayerOf
<1>4. PersonInv'
  BY <1>3 DEF PersonInv, Present
<1> QED
  BY <1>1, <1>4

-------------------------------------------------------------------------------
(* Each action.                                                             *)

(* TypeOK, with numbers for the domain of players.                          *)
LEMMA TypeParts ==
  TypeOK <=>
    /\ players \in Seq(PlayerType)
    /\ rawPlayers \in [Slots -> [who : People \cup {Nobody}, uid : Slots \cup {0, NoUid}]]
    /\ controllers \in [Slots -> [who : People \cup {Nobody}, pl : 0 .. Len(players),
                                  state : {"none", "new", "connected", "connecting",
                                           "disconnected"}]]
    /\ playersByEntityID \in [Slots -> 0 .. Len(players)]
    /\ playersByUserID \in [UserIDs -> 0 .. Len(players)]
    /\ playersBySteamID32 \in [Humans -> 0 .. Len(players)]
    /\ seat \in [Slots -> People \cup {Nobody}] /\ joined \in [People -> Nat]
    /\ announced \subseteq People
<1>1. players \in Seq(PlayerType) => {Nil} \cup DOMAIN players = 0 .. Len(players)
  OBVIOUS
<1> QED
  BY <1>1 DEF TypeOK, PlayerType

(* The same for the state after a step.                                     *)
LEMMA TypeFrom ==
  ASSUME players' \in Seq(PlayerType),
         rawPlayers' \in [Slots -> [who : People \cup {Nobody}, uid : Slots \cup {0, NoUid}]],
         controllers' \in [Slots -> [who : People \cup {Nobody}, pl : 0 .. Len(players'),
                                     state : {"none", "new", "connected", "connecting",
                                              "disconnected"}]],
         playersByEntityID' \in [Slots -> 0 .. Len(players')],
         playersByUserID' \in [UserIDs -> 0 .. Len(players')],
         playersBySteamID32' \in [Humans -> 0 .. Len(players')],
         seat' \in [Slots -> People \cup {Nobody}], joined' \in [People -> Nat],
         announced' \subseteq People
  PROVE  TypeOK'
<1>1. {Nil} \cup DOMAIN players' = 0 .. Len(players')
  OBVIOUS
<1> QED
  BY <1>1 DEF TypeOK, PlayerType

(* The types of what a controller's handlers change.                        *)
ActedTypes ==
  /\ players' \in Seq(PlayerType)
  /\ controllers' \in [Slots -> [who : People \cup {Nobody}, pl : 0 .. Len(players'),
                                 state : {"none", "new", "connected", "connecting",
                                          "disconnected"}]]
  /\ playersByEntityID' \in [Slots -> 0 .. Len(players')]
  /\ playersByUserID' \in [UserIDs -> 0 .. Len(players')]
  /\ playersBySteamID32' \in [Humans -> 0 .. Len(players')]

(* And if the handler changes nothing else.                                 *)
LEMMA ActedTypeOK ==
  ASSUME TypeOK, ActedTypes, UNCHANGED <<seat, joined, rawPlayers, announced>>
  PROVE  TypeOK'
<1>1. /\ rawPlayers \in [Slots -> [who : People \cup {Nobody}, uid : Slots \cup {0, NoUid}]]
      /\ seat \in [Slots -> People \cup {Nobody}] /\ joined \in [People -> Nat]
      /\ announced \subseteq People
  BY TypeParts
<1> QED
  BY <1>1, TypeFrom DEF ActedTypes

(* What somebody's controller does to the player it finds or makes.         *)
LEMMA ControllerActs ==
  ASSUME TypeOK, SeatInv, RawInv, IndexInv, PersonInv, NEW s \in Slots, seat[s] # Nobody,
         NEW rp \in RawOf(s, seat[s]), NEW pl, IsPlayerOf(pl, s, seat[s]),
         GetOrCreatePlayer(s, rp, pl),
         NEW st \in {"none", "new", "connected", "connecting", "disconnected"},
         controllers' = [controllers EXCEPT ![s] = [who |-> seat[s], state |-> st,
                                                    pl |-> Id(s, rp)]],
         \A t \in Slots \ {s} : seat'[t] = seat[t],
         pl.isConnected <=> (seat'[s] # Nobody /\ st = "connected")
  PROVE  /\ IndexInv' /\ PersonInv'
         /\ controllers'[s] = [who |-> seat[s], state |-> st, pl |-> Id(s, rp)]
         /\ \A t \in Slots \ {s} : controllers'[t] = controllers[t]
         /\ ActedTypes
<1> DEFINE who == seat[s]
           id == Id(s, rp)
           States == {"none", "new", "connected", "connecting", "disconnected"}
           new == [who |-> who, state |-> st, pl |-> id]
<1>0. who \in People /\ who # Nobody
  BY TypeParts
<1>1. /\ players' \in Seq(PlayerType) /\ Len(players') >= Len(players)
      /\ playersByEntityID' = [playersByEntityID EXCEPT ![s] = id]
      /\ playersByUserID' = [playersByUserID EXCEPT ![s] = id]
      /\ id \in 1 .. Len(players')
      /\ players'[id] = pl
      /\ OwnPlayer(s) /\ UserIDsFollow
      /\ \A t \in Slots \ {s} :
           /\ playersByEntityID'[t] = playersByEntityID[t]
           /\ playersByEntityID[t] # Nil
                => players'[playersByEntityID[t]] = players[playersByEntityID[t]]
      /\ playersBySteamID32' \in [Humans -> Nat]
      /\ \A h \in Humans : playersBySteamID32'[h] \in {playersBySteamID32[h], id}
      /\ seat[s] \in Humans => playersBySteamID32'[seat[s]] = id
      /\ \A h \in Humans \ {seat[s]} : playersBySteamID32'[h] = playersBySteamID32[h]
  BY PlayerGiven
<1> HIDE DEF id
<1>2. /\ controllers \in [Slots -> [who : People \cup {Nobody}, pl : 0 .. Len(players), state : States]]
      /\ playersByEntityID \in [Slots -> 0 .. Len(players)]
      /\ playersByUserID \in [UserIDs -> 0 .. Len(players)]
      /\ playersBySteamID32 \in [Humans -> 0 .. Len(players)]
      /\ Len(players) \in Nat /\ Len(players') \in Nat
  BY <1>1, TypeParts
<1>3. 0 .. Len(players) \subseteq 0 .. Len(players') /\ id \in 0 .. Len(players')
  BY <1>1, <1>2
<1>4. /\ controllers'[s] = new /\ \A t \in Slots \ {s} : controllers'[t] = controllers[t]
      /\ playersByEntityID'[s] = id
  BY <1>1, <1>2 DEF id
<1>5. controllers' \in [Slots -> [who : People \cup {Nobody}, pl : 0 .. Len(players'), state : States]]
  <2> DEFINE C == [who : People \cup {Nobody}, pl : 0 .. Len(players), state : States]
             D == [who : People \cup {Nobody}, pl : 0 .. Len(players'), state : States]
  <2>1. new \in D
    BY <1>0, <1>3
  <2>2. C \subseteq D
    BY <1>3
  <2>3. controllers' = [controllers EXCEPT ![s] = new] /\ controllers \in [Slots -> C]
    BY <1>2 DEF id
  <2> HIDE DEF C, D, new
  <2>4. controllers' \in [Slots -> D]
    BY <2>1, <2>2, <2>3
  <2> QED
    BY <2>4 DEF D
<1>6. /\ playersByEntityID' \in [Slots -> 0 .. Len(players')]
      /\ playersByUserID' \in [UserIDs -> 0 .. Len(players')]
  BY <1>1, <1>2, <1>3
<1>7. playersBySteamID32' \in [Humans -> 0 .. Len(players')]
  BY <1>1, <1>2, <1>3
<1>8. OthersKept(s)
  BY <1>1, <1>4 DEF OthersKept
<1>9. SteamIDsKept(s)
  <2>1. \A t \in Slots \ {s} : controllers[t].who # seat[s]
    BY DEF SeatInv
  <2> QED
    BY <1>1, <2>1 DEF SteamIDsKept
<1>10. PlayerOf(s)' = pl
  BY <1>1, <1>4 DEF PlayerOf
<1>11. controllers'[s].who = who /\ controllers'[s].pl = playersByEntityID'[s]
       /\ controllers'[s].state = st
  BY <1>4
<1>12. PlayerOf(s).isConnected' <=> (seat'[s] # Nobody /\ controllers'[s].state = "connected")
  BY <1>10, <1>11
<1>13. controllers'[s].who \in Humans
         => playersBySteamID32'[controllers'[s].who] = playersByEntityID'[s]
  BY <1>1, <1>4, <1>11
<1>14. IsPlayerOf(PlayerOf(s)', s, controllers'[s].who)
  BY <1>10, <1>11
<1>15. IndexInv' /\ PersonInv'
  BY <1>0, <1>1, <1>8, <1>9, <1>11, <1>12, <1>13, <1>14, SlotChanged
<1> QED
  BY <1>1, <1>4, <1>5, <1>6, <1>7, <1>15 DEF id, ActedTypes

(* The controller of somebody is theirs.                                    *)
LEMMA ControllerIs ==
  ASSUME TypeOK, SeatInv, RawInv, IndexInv, PersonInv, NEW s \in Slots, seat[s] # Nobody,
         controllers[s] # NoController, NEW rp \in RawOf(s, seat[s])
  PROVE  /\ controllers[s].who = seat[s] /\ playersByEntityID[s] # Nil
         /\ Id(s, rp) = playersByEntityID[s]
         /\ \A st : [controllers EXCEPT ![s].state = st]
                    = [controllers EXCEPT ![s] = [who |-> seat[s], state |-> st,
                                                  pl |-> Id(s, rp)]]
         /\ controllers = [controllers EXCEPT ![s] = [who |-> seat[s],
                                  state |-> controllers[s].state, pl |-> Id(s, rp)]]
<1> DEFINE States == {"none", "new", "connected", "connecting", "disconnected"}
<1>1. controllers[s].who # Nobody /\ controllers[s].who = seat[s]
  BY DEF SeatInv
<1>2. playersByEntityID[s] # Nil /\ controllers[s].pl = playersByEntityID[s]
  BY <1>1 DEF IndexInv
<1>3. Id(s, rp) = playersByEntityID[s]
  BY <1>2, PlayerFound DEF Id
<1>4. controllers \in [Slots -> [who : People \cup {Nobody}, pl : 0 .. Len(players), state : States]]
  BY TypeParts
<1>5. controllers[s] \in [who : People \cup {Nobody}, pl : 0 .. Len(players), state : States]
  BY <1>4
<1>6. ASSUME NEW st
      PROVE  [controllers[s] EXCEPT !.state = st]
             = [who |-> seat[s], state |-> st, pl |-> Id(s, rp)]
  BY <1>1, <1>2, <1>3, <1>5
<1>7. controllers[s] = [who |-> seat[s], state |-> controllers[s].state, pl |-> Id(s, rp)]
  BY <1>1, <1>2, <1>3, <1>5
<1>8. ASSUME NEW st
      PROVE  [controllers EXCEPT ![s].state = st]
             = [controllers EXCEPT ![s] = [who |-> seat[s], state |-> st, pl |-> Id(s, rp)]]
  BY <1>4, <1>6
<1> QED
  BY <1>1, <1>2, <1>3, <1>4, <1>7, <1>8

(* A step that changes the controller of somebody's seat only leaves        *)
(* everybody where they are.                                                *)
LEMMA SeatsKept ==
  ASSUME TypeOK, SeatInv, RawInv, NEW s \in Slots, seat[s] # Nobody,
         UNCHANGED <<seat, joined, rawPlayers>>,
         controllers'[s].who = seat[s],
         \A t \in Slots \ {s} : controllers'[t] = controllers[t]
  PROVE  SeatInv' /\ RawInv'
<1>1. RawInv'
  BY DEF RawInv
<1>2. \A t, u \in Slots :
        t # u /\ seat[t] # Nobody => seat[u] # seat[t] /\ controllers'[u].who # seat[t]
  BY DEF SeatInv
<1>3. \A t, u \in Slots :
        t # u /\ controllers'[t].who # Nobody => controllers'[u].who # controllers'[t].who
  BY DEF SeatInv
<1>4. ASSUME NEW t \in Slots
      PROVE  /\ controllers'[t] = NoController \/ controllers'[t].who # Nobody
             /\ controllers'[t].who # Nobody /\ seat[t] # Nobody => controllers'[t].who = seat[t]
             /\ seat[t] \in Bots => joined[seat[t]] >= 1
             /\ controllers'[t].who \in Bots => joined[controllers'[t].who] >= 1
             /\ controllers'[t].who \in Humans /\ seat[t] = Nobody
                  => controllers'[t].state = "disconnected"
  BY DEF SeatInv
<1>5. SeatInv'
  BY <1>2, <1>3, <1>4 DEF SeatInv
<1> QED
  BY <1>1, <1>5

(* CreateController keeps the invariant.                                    *)
LEMMA CreateStep ==
  ASSUME IInv, NEW s \in Slots, CreateController(s)
  PROVE  IInv'
<1>0. /\ TypeOK /\ SeatInv /\ RawInv /\ IndexInv /\ PersonInv /\ ToldInv
      /\ seat[s] # Nobody /\ controllers[s] = NoController
      /\ UNCHANGED <<seat, joined, rawPlayers, announced>>
  BY DEF IInv, CreateController
<1>1. PICK rp \in RawOf(s, seat[s]) :
        /\ GetOrCreatePlayer(s, rp, Player(s, seat[s], rp))
        /\ controllers' = [controllers EXCEPT ![s] = [who |-> seat[s], state |-> "new",
                                                     pl |-> Id(s, rp)]]
  BY DEF CreateController
<1> DEFINE pl == Player(s, seat[s], rp)
<1>2. IsPlayerOf(pl, s, seat[s]) /\ (pl.isConnected <=> s \in Present) /\ s \notin Present
  <2>1. s \notin Present
    BY <1>0 DEF Present, NoController
  <2> QED
    BY <1>0, <2>1, PlayerFound
<1>3. GetOrCreatePlayer(s, rp, pl)
  BY <1>1
<1> HIDE DEF pl
<1>4. /\ pl.isConnected <=> (seat'[s] # Nobody /\ "new" = "connected")
      /\ \A t \in Slots \ {s} : seat'[t] = seat[t]
      /\ "new" \in {"none", "new", "connected", "connecting", "disconnected"}
  BY <1>0, <1>2
<1>5. /\ IndexInv' /\ PersonInv'
      /\ controllers'[s] = [who |-> seat[s], state |-> "new", pl |-> Id(s, rp)]
      /\ \A t \in Slots \ {s} : controllers'[t] = controllers[t]
      /\ ActedTypes
  BY <1>0, <1>1, <1>2, <1>3, <1>4, ControllerActs
<1>6. controllers'[s].who = seat[s] /\ controllers'[s].state # "connected"
  BY <1>5
<1>7. SeatInv' /\ RawInv' /\ TypeOK'
  BY <1>0, <1>5, <1>6, SeatsKept, ActedTypeOK
<1>8. ToldInv'
  <2>1. Present' \subseteq Present
    BY <1>0, <1>5, <1>6 DEF Present
  <2> QED
    BY <1>0, <2>1 DEF ToldInv
<1> QED
  BY <1>5, <1>7, <1>8 DEF IInv

(* PawnUpdate keeps the invariant.                                          *)
LEMMA PawnUpdateStep ==
  ASSUME IInv, NEW s \in Slots, PawnUpdate(s)
  PROVE  IInv'
<1>0. /\ TypeOK /\ SeatInv /\ RawInv /\ IndexInv /\ PersonInv /\ ToldInv
      /\ seat[s] # Nobody /\ controllers[s] # NoController
      /\ UNCHANGED <<seat, joined, rawPlayers, announced, controllers>>
  BY DEF IInv, PawnUpdate
<1>1. PICK rp \in RawOf(s, seat[s]) : GetOrCreatePlayer(s, rp, Player(s, seat[s], rp))
  BY DEF PawnUpdate
<1> DEFINE pl == Player(s, seat[s], rp)
           st == controllers[s].state
<1>2. IsPlayerOf(pl, s, seat[s]) /\ (pl.isConnected <=> s \in Present)
  BY <1>0, PlayerFound
<1>3. GetOrCreatePlayer(s, rp, pl)
  BY <1>1
<1> HIDE DEF pl
<1>4. /\ pl.isConnected <=> (seat'[s] # Nobody /\ st = "connected")
      /\ \A t \in Slots \ {s} : seat'[t] = seat[t]
      /\ st \in {"none", "new", "connected", "connecting", "disconnected"}
  BY <1>0, <1>2, TypeParts DEF Present
<1>5. controllers' = [controllers EXCEPT ![s] = [who |-> seat[s], state |-> st,
                                                 pl |-> Id(s, rp)]]
  BY <1>0, ControllerIs
<1> HIDE DEF st
<1>6. IndexInv' /\ PersonInv' /\ ActedTypes
  BY <1>0, <1>1, <1>2, <1>3, <1>4, <1>5, ControllerActs
<1>7. SeatInv' /\ RawInv' /\ TypeOK'
  <2>1. controllers'[s].who = seat[s] /\ \A t \in Slots \ {s} : controllers'[t] = controllers[t]
    BY <1>0, ControllerIs
  <2> QED
    BY <1>0, <1>6, <2>1, SeatsKept, ActedTypeOK
<1>8. ToldInv'
  BY <1>0 DEF ToldInv, Present
<1> QED
  BY <1>6, <1>7, <1>8 DEF IInv

(* A player's connection says nothing of who the player is.                 *)
LEMMA ConnectionSet ==
  ASSUME NEW pl, NEW s, NEW who, IsPlayerOf(pl, s, who), NEW b \in BOOLEAN
  PROVE  /\ IsPlayerOf([pl EXCEPT !.isConnected = b], s, who)
         /\ [pl EXCEPT !.isConnected = b].isConnected = b
<1>1. pl \in PlayerType
  BY DEF IsPlayerOf
<1> DEFINE q == [pl EXCEPT !.isConnected = b]
<1>2. /\ q \in PlayerType /\ q.userID = pl.userID /\ q.steamID = pl.steamID
      /\ q.name = pl.name /\ q.isBot = pl.isBot /\ q.isConnected = b
  BY <1>1 DEF PlayerType
<1> HIDE DEF q
<1>3. IsPlayerOf(q, s, who)
  BY <1>2 DEF IsPlayerOf
<1> QED
  BY <1>2, <1>3 DEF q

(* Connected keeps the invariant: who is told of is there.                  *)
LEMMA ConnectedStep ==
  ASSUME IInv, NEW s \in Slots, NEW st \in {"connected", "connecting"}, Connected(s, st)
  PROVE  IInv'
<1>0. /\ TypeOK /\ SeatInv /\ RawInv /\ IndexInv /\ PersonInv /\ ToldInv
      /\ seat[s] # Nobody /\ controllers[s] # NoController
      /\ controllers' = [controllers EXCEPT ![s].state = st]
      /\ UNCHANGED <<seat, joined, rawPlayers>>
  BY DEF IInv, Connected
<1> DEFINE b == st = "connected"
<1>1. PICK rp \in RawOf(s, seat[s]) :
        LET pl == Player(s, seat[s], rp)
        IN  /\ GetOrCreatePlayer(s, rp, [pl EXCEPT !.isConnected = b])
            /\ announced' = IF b /\ ~WasConnected(pl, st)
                            THEN announced \cup {pl.name} ELSE announced
  BY DEF Connected
<1> DEFINE pl == Player(s, seat[s], rp)
           pm == [pl EXCEPT !.isConnected = b]
<1>2. IsPlayerOf(pl, s, seat[s]) /\ (pl.isConnected <=> s \in Present)
  BY <1>0, PlayerFound
<1>3. /\ GetOrCreatePlayer(s, rp, pm) /\ b \in BOOLEAN
      /\ announced' = IF b /\ ~pl.isConnected THEN announced \cup {pl.name} ELSE announced
  BY <1>1 DEF WasConnected
<1> HIDE DEF pl
<1>4. IsPlayerOf(pm, s, seat[s]) /\ pm.isConnected = b
  BY <1>2, <1>3, ConnectionSet
<1> HIDE DEF pm
<1>5. /\ pm.isConnected <=> (seat'[s] # Nobody /\ st = "connected")
      /\ \A t \in Slots \ {s} : seat'[t] = seat[t]
      /\ st \in {"none", "new", "connected", "connecting", "disconnected"}
  BY <1>0, <1>4
<1>6. controllers' = [controllers EXCEPT ![s] = [who |-> seat[s], state |-> st,
                                                 pl |-> Id(s, rp)]]
  <2>1. \A q : [controllers EXCEPT ![s].state = q]
               = [controllers EXCEPT ![s] = [who |-> seat[s], state |-> q, pl |-> Id(s, rp)]]
    BY <1>0, ControllerIs
  <2>2. [controllers EXCEPT ![s].state = st]
        = [controllers EXCEPT ![s] = [who |-> seat[s], state |-> st, pl |-> Id(s, rp)]]
    BY <2>1
  <2> QED
    BY <1>0, <2>2
<1> HIDE DEF b
<1>7. /\ IndexInv' /\ PersonInv' /\ ActedTypes
      /\ controllers'[s] = [who |-> seat[s], state |-> st, pl |-> Id(s, rp)]
      /\ \A t \in Slots \ {s} : controllers'[t] = controllers[t]
  <2>1. IsPlayerOf(pm, s, seat[s]) /\ GetOrCreatePlayer(s, rp, pm)
    BY <1>3, <1>4
  <2>2. TypeOK /\ SeatInv /\ RawInv /\ IndexInv /\ PersonInv /\ seat[s] # Nobody
    BY <1>0
  <2> QED
    BY <2>1, <2>2, <1>5, <1>6, ControllerActs
<1>8. controllers'[s].who = seat[s] /\ controllers'[s].state = st
  BY <1>7
<1>9. SeatInv' /\ RawInv'
  BY <1>0, <1>7, <1>8, SeatsKept
<1>10. pl.name = seat[s] /\ seat[s] \in People
  BY <1>0, <1>2, TypeParts DEF IsPlayerOf
<1>11. TypeOK'
  <2>1. /\ rawPlayers \in [Slots -> [who : People \cup {Nobody}, uid : Slots \cup {0, NoUid}]]
        /\ seat \in [Slots -> People \cup {Nobody}] /\ joined \in [People -> Nat]
        /\ announced' \subseteq People
    BY <1>0, <1>3, <1>10, TypeParts
  <2> QED
    BY <1>0, <1>7, <2>1, TypeFrom DEF ActedTypes
<1>12. ToldInv'
  <2>1. ASSUME NEW t \in Present' PROVE seat[t] \in announced'
    <3>1. CASE t = s
      <4>1. b
        BY <1>8, <2>1, <3>1 DEF Present, b
      <4> QED
        BY <1>0, <1>2, <1>3, <1>10, <3>1, <4>1 DEF ToldInv
    <3>2. CASE t # s
      <4>1. t \in Present
        BY <1>0, <1>7, <2>1, <3>2 DEF Present
      <4> QED
        BY <1>0, <1>3, <4>1 DEF ToldInv
    <3> QED
      BY <3>1, <3>2
  <2>2. \A who \in announced' : \E t \in Slots : seat[t] = who
    BY <1>0, <1>3, <1>10 DEF ToldInv
  <2> QED
    BY <1>0, <2>1, <2>2 DEF ToldInv
<1> QED
  BY <1>7, <1>9, <1>11, <1>12 DEF IInv

(* Somebody leaves, and it is told.                                         *)
LEMMA SomebodyLeaves ==
  ASSUME TypeOK, SeatInv, ToldInv, NEW s \in Slots, seat[s] # Nobody, UNCHANGED joined,
         seat' = [seat EXCEPT ![s] = Nobody], announced' = announced \ {seat[s]},
         controllers'[s].who = seat[s],
         seat[s] \in Humans => controllers'[s].state = "disconnected",
         \A t \in Slots \ {s} : controllers'[t] = controllers[t]
  PROVE  SeatInv' /\ ToldInv' /\ seat' \in [Slots -> People \cup {Nobody}]
<1>0. /\ seat \in [Slots -> People \cup {Nobody}] /\ seat' \in [Slots -> People \cup {Nobody}]
      /\ seat'[s] = Nobody /\ \A t \in Slots \ {s} : seat'[t] = seat[t]
      /\ Nobody \notin People
  BY TypeParts, PlayersAssumption
<1>1. \A t, u \in Slots :
        t # u /\ seat'[t] # Nobody => seat'[u] # seat'[t] /\ controllers'[u].who # seat'[t]
  BY <1>0 DEF SeatInv
<1>2. \A t, u \in Slots :
        t # u /\ controllers'[t].who # Nobody => controllers'[u].who # controllers'[t].who
  BY <1>0 DEF SeatInv
<1>3. ASSUME NEW t \in Slots
      PROVE  /\ controllers'[t] = NoController \/ controllers'[t].who # Nobody
             /\ controllers'[t].who # Nobody /\ seat'[t] # Nobody => controllers'[t].who = seat'[t]
             /\ seat'[t] \in Bots => joined[seat'[t]] >= 1
             /\ controllers'[t].who \in Bots => joined[controllers'[t].who] >= 1
             /\ controllers'[t].who \in Humans /\ seat'[t] = Nobody
                  => controllers'[t].state = "disconnected"
  <2>1. CASE t = s
    BY <1>0, <2>1 DEF SeatInv, People
  <2>2. CASE t # s
    BY <1>0, <2>2 DEF SeatInv
  <2> QED
    BY <2>1, <2>2
<1>4. SeatInv'
  BY <1>1, <1>2, <1>3 DEF SeatInv
<1>5. ASSUME NEW t \in Present' PROVE seat'[t] \in announced'
  <2>1. t \in Slots /\ seat'[t] # Nobody /\ controllers'[t].state = "connected"
    BY <1>5 DEF Present
  <2>2. t # s /\ seat'[t] = seat[t] /\ t \in Present
    BY <1>0, <2>1 DEF Present
  <2>3. seat[t] # seat[s]
    BY <2>1, <2>2 DEF SeatInv
  <2> QED
    BY <2>2, <2>3 DEF ToldInv
<1>6. ASSUME NEW who \in announced' PROVE \E t \in Slots : seat'[t] = who
  <2>1. PICK t \in Slots : seat[t] = who
    BY <1>6 DEF ToldInv
  <2>2. t # s
    BY <1>6, <2>1
  <2> QED
    BY <1>0, <2>1, <2>2
<1>7. ToldInv'
  BY <1>5, <1>6 DEF ToldInv
<1> QED
  BY <1>0, <1>4, <1>7

(* Disconnected keeps the invariant: only the raw player of the seat goes.  *)
LEMMA DisconnectedStep ==
  ASSUME ~BotsReport, IInv, NEW s \in Slots, Disconnected(s)
  PROVE  IInv'
<1>0. /\ TypeOK /\ SeatInv /\ RawInv /\ IndexInv /\ PersonInv /\ ToldInv
      /\ seat[s] # Nobody /\ controllers[s] # NoController /\ seat[s] \in Humans
      /\ controllers' = [controllers EXCEPT ![s].state = "disconnected"]
      /\ seat' = [seat EXCEPT ![s] = Nobody]
      /\ UNCHANGED joined
  BY DEF IInv, Disconnected
<1>1. PICK rp \in RawOf(s, seat[s]) :
       LET pl == Player(s, seat[s], rp)
       IN  /\ GetOrCreatePlayer(s, rp, [pl EXCEPT !.isConnected = FALSE])
           /\ rawPlayers' = [t \in Slots |-> IF rawPlayers[t] # NoRaw
                                               /\ SteamID(rawPlayers[t].who) = pl.steamID
                                            THEN NoRaw ELSE rawPlayers[t]]
           /\ announced' = announced \ {pl.name}
  BY DEF Disconnected
<1> DEFINE pl == Player(s, seat[s], rp)
           pm == [pl EXCEPT !.isConnected = FALSE]
<1>2. IsPlayerOf(pl, s, seat[s])
  BY <1>0, PlayerFound
<1>3. /\ GetOrCreatePlayer(s, rp, pm)
      /\ rawPlayers' = [t \in Slots |-> IF rawPlayers[t] # NoRaw
                                           /\ SteamID(rawPlayers[t].who) = pl.steamID
                                        THEN NoRaw ELSE rawPlayers[t]]
      /\ announced' = announced \ {pl.name}
  BY <1>1
<1> HIDE DEF pl
<1>4. IsPlayerOf(pm, s, seat[s]) /\ pm.isConnected = FALSE
  BY <1>2, ConnectionSet
<1> HIDE DEF pm
<1>5. /\ pm.isConnected <=> (seat'[s] # Nobody /\ "disconnected" = "connected")
      /\ \A t \in Slots \ {s} : seat'[t] = seat[t]
      /\ "disconnected" \in {"none", "new", "connected", "connecting", "disconnected"}
      /\ seat'[s] = Nobody
  BY <1>0, <1>4, TypeParts
<1>6. controllers' = [controllers EXCEPT ![s] = [who |-> seat[s], state |-> "disconnected",
                                                 pl |-> Id(s, rp)]]
  <2>1. \A q : [controllers EXCEPT ![s].state = q]
               = [controllers EXCEPT ![s] = [who |-> seat[s], state |-> q, pl |-> Id(s, rp)]]
    BY <1>0, ControllerIs
  <2>2. [controllers EXCEPT ![s].state = "disconnected"]
        = [controllers EXCEPT ![s] = [who |-> seat[s], state |-> "disconnected",
                                      pl |-> Id(s, rp)]]
    BY <2>1
  <2> QED
    BY <1>0, <2>2
<1>7. /\ IndexInv' /\ PersonInv' /\ ActedTypes
      /\ controllers'[s] = [who |-> seat[s], state |-> "disconnected", pl |-> Id(s, rp)]
      /\ \A t \in Slots \ {s} : controllers'[t] = controllers[t]
  <2>1. IsPlayerOf(pm, s, seat[s]) /\ GetOrCreatePlayer(s, rp, pm)
    BY <1>3, <1>4
  <2>2. TypeOK /\ SeatInv /\ RawInv /\ IndexInv /\ PersonInv /\ seat[s] # Nobody
    BY <1>0
  <2> QED
    BY <2>1, <2>2, <1>5, <1>6, ControllerActs
<1>8. controllers'[s].who = seat[s] /\ controllers'[s].state = "disconnected"
  BY <1>7
<1>9. announced' = announced \ {seat[s]} /\ pl.steamID = seat[s]
  BY <1>0, <1>2, <1>3, SteamIDs DEF IsPlayerOf
<1>10. SeatInv' /\ ToldInv' /\ seat' \in [Slots -> People \cup {Nobody}]
  BY <1>0, <1>7, <1>8, <1>9, SomebodyLeaves
<1>11. ASSUME NEW t \in Slots
       PROVE  rawPlayers'[t] = IF t = s THEN NoRaw ELSE rawPlayers[t]
  <2>1. rawPlayers'[t] = IF rawPlayers[t] # NoRaw /\ SteamID(rawPlayers[t].who) = seat[s]
                         THEN NoRaw ELSE rawPlayers[t]
    BY <1>3, <1>9
  <2>2. CASE t = s
    <3>1. rawPlayers[s] = [who |-> seat[s], uid |-> s]
      BY <1>0 DEF RawInv
    <3>2. rawPlayers[s].who = seat[s] /\ rawPlayers[s] # NoRaw
      BY <1>0, <3>1 DEF NoRaw
    <3> QED
      BY <1>0, <2>1, <2>2, <3>2, SteamIDs
  <2>3. CASE t # s /\ seat[t] # Nobody
    <3>1. rawPlayers[t] = [who |-> seat[t], uid |-> t]
      BY <1>0, <2>3 DEF RawInv
    <3>2. rawPlayers[t].who = seat[t] /\ seat[t] # seat[s] /\ seat[t] \in People
      BY <1>0, <2>3, <3>1, TypeParts DEF SeatInv
    <3>3. SteamID(seat[t]) # seat[s]
      BY <1>0, <3>2, SteamIDs DEF People
    <3> QED
      BY <2>1, <2>3, <3>2, <3>3
  <2>4. CASE t # s /\ seat[t] = Nobody
    <3>1. rawPlayers[t] = NoRaw \/ rawPlayers[t].who \in Bots
      BY <1>0, <2>4 DEF RawInv
    <3> QED
      BY <1>0, <2>1, <2>4, <3>1, SteamIDs
  <2> QED
    BY <2>2, <2>3, <2>4
<1>12. RawInv'
  <2>1. ASSUME NEW t \in Slots
        PROVE  /\ seat'[t] # Nobody => rawPlayers'[t] = [who |-> seat'[t], uid |-> t]
               /\ seat'[t] = Nobody =>
                    \/ rawPlayers'[t] = NoRaw
                    \/ /\ rawPlayers'[t].who \in Bots /\ joined[rawPlayers'[t].who] >= 1
                       /\ \A u \in Slots : seat'[u] # rawPlayers'[t].who
    <3>1. CASE t = s
      BY <1>5, <1>11, <3>1
    <3>2. CASE t # s
      <4>1. rawPlayers'[t] = rawPlayers[t] /\ seat'[t] = seat[t]
        BY <1>5, <1>11, <3>2
      <4>2. \A u \in Slots : seat'[u] = seat[u] \/ seat'[u] = Nobody
        BY <1>5
      <4>3. Nobody \notin Bots
        BY PlayersAssumption DEF People
      <4> QED
        BY <1>0, <4>1, <4>2, <4>3 DEF RawInv
    <3> QED
      BY <3>1, <3>2
  <2> QED
    BY <1>0, <2>1 DEF RawInv
<1>13. TypeOK'
  <2>1. /\ rawPlayers \in [Slots -> [who : People \cup {Nobody}, uid : Slots \cup {0, NoUid}]]
        /\ joined' \in [People -> Nat] /\ announced' \subseteq People
    BY <1>0, <1>3, TypeParts
  <2>2. NoRaw \in [who : People \cup {Nobody}, uid : Slots \cup {0, NoUid}]
    BY DEF NoRaw
  <2>3. rawPlayers' \in [Slots -> [who : People \cup {Nobody}, uid : Slots \cup {0, NoUid}]]
    BY <1>3, <2>1, <2>2
  <2> QED
    BY <1>7, <1>10, <2>1, <2>3, TypeFrom DEF ActedTypes
<1> QED
  BY <1>7, <1>10, <1>12, <1>13 DEF IInv

(* The player of a controller, changed alone.                               *)
LEMMA OnePlayerSet ==
  ASSUME TypeOK, IndexInv, NEW s \in Slots, playersByEntityID[s] # Nil,
         NEW q \in PlayerType, players' = [players EXCEPT ![playersByEntityID[s]] = q]
  PROVE  /\ players' \in Seq(PlayerType) /\ Len(players') = Len(players)
         /\ players'[playersByEntityID[s]] = q
         /\ \A t \in Slots \ {s} : playersByEntityID[t] # Nil
              => players'[playersByEntityID[t]] = players[playersByEntityID[t]]
<1> DEFINE id == playersByEntityID[s]
<1>1. /\ players \in Seq(PlayerType) /\ Len(players) \in Nat
      /\ \A t \in Slots : playersByEntityID[t] \in 0 .. Len(players)
  BY TypeParts
<1>2. \A t \in Slots \ {s} : playersByEntityID[t] # id
  BY DEF IndexInv
<1>3. id \in 1 .. Len(players) /\ players' = [players EXCEPT ![id] = q]
  BY <1>1
<1> HIDE DEF id
<1>4. players' \in Seq(PlayerType) /\ Len(players') = Len(players)
  BY <1>1, <1>3, ExceptSeq
<1>5. \A i \in 1 .. Len(players) : players'[i] = IF i = id THEN q ELSE players[i]
  BY <1>1, <1>3
<1>6. players'[id] = q
  BY <1>3, <1>5
<1>7. \A t \in Slots \ {s} : playersByEntityID[t] # Nil
        => players'[playersByEntityID[t]] = players[playersByEntityID[t]]
  BY <1>1, <1>2, <1>5
<1> QED
  BY <1>4, <1>6, <1>7 DEF id

(* The player of a controller is that of its person.                        *)
LEMMA PlayerIs ==
  ASSUME TypeOK, IndexInv, PersonInv, NEW s \in Slots, controllers[s].who # Nobody
  PROVE  /\ playersByEntityID[s] # Nil /\ playersByEntityID[s] \in 1 .. Len(players)
         /\ controllers[s].pl = playersByEntityID[s]
         /\ IsPlayerOf(players[playersByEntityID[s]], s, controllers[s].who)
         /\ players[playersByEntityID[s]].isConnected <=> s \in Present
<1>1. playersByEntityID[s] # Nil /\ controllers[s].pl = playersByEntityID[s]
  BY DEF IndexInv
<1>2. playersByEntityID[s] \in 1 .. Len(players)
  BY <1>1, TypeParts
<1>3. players[playersByEntityID[s]] \in PlayerType
  BY <1>2, Types
<1> QED
  BY <1>1, <1>2, <1>3 DEF PersonInv, IsPlayerOf, PlayerOf

(* DeleteController keeps the invariant: its player is found no more.       *)
LEMMA DeleteStep ==
  ASSUME IInv, NEW s \in Slots, DeleteController(s)
  PROVE  IInv'
<1>0. /\ TypeOK /\ SeatInv /\ RawInv /\ IndexInv /\ PersonInv /\ ToldInv
      /\ seat[s] = Nobody /\ controllers[s] # NoController
      /\ playersByEntityID' = [playersByEntityID EXCEPT ![s] = Nil]
      /\ controllers' = [controllers EXCEPT ![s] = NoController]
      /\ UNCHANGED <<seat, joined, rawPlayers, announced, playersBySteamID32>>
  BY DEF IInv, DeleteController
<1> DEFINE id == playersByEntityID[s]
           q == [players[id] EXCEPT !.isConnected = FALSE]
<1>1. controllers[s].who # Nobody /\ controllers[s].pl = id /\ id # Nil
      /\ IsPlayerOf(players[id], s, controllers[s].who)
  BY <1>0, PlayerIs DEF SeatInv
<1>2. players' = [players EXCEPT ![id].isConnected = FALSE]
      /\ playersByUserID' = [playersByUserID EXCEPT ![players[id].userID] = Nil]
  BY <1>1 DEF DeleteController, Forgotten
<1>3. players' = [players EXCEPT ![id] = q] /\ q \in PlayerType
  BY <1>1, <1>2, ConnectionSet DEF IsPlayerOf
<1>4. playersByUserID' = [playersByUserID EXCEPT ![s] = Nil]
  BY <1>1, <1>2 DEF IsPlayerOf
<1> HIDE DEF q
<1>5. /\ players' \in Seq(PlayerType) /\ Len(players') = Len(players)
      /\ \A t \in Slots \ {s} : playersByEntityID[t] # Nil
           => players'[playersByEntityID[t]] = players[playersByEntityID[t]]
  BY <1>0, <1>1, <1>3, OnePlayerSet
<1>6. /\ controllers'[s] = NoController /\ playersByEntityID'[s] = Nil
      /\ \A t \in Slots \ {s} : controllers'[t] = controllers[t]
                                /\ playersByEntityID'[t] = playersByEntityID[t]
  BY <1>0, TypeParts
<1>7. playersByUserID'[s] = Nil /\ \A u \in UserIDs \ {s} : playersByUserID'[u] = playersByUserID[u]
  BY <1>0, <1>4, TypeParts, SlotType
<1>8. OthersKept(s) /\ SteamIDsKept(s)
  BY <1>0, <1>5, <1>6 DEF OthersKept, SteamIDsKept
<1>9. UserIDsFollow
  BY <1>0, <1>6, <1>7, SlotType DEF UserIDsFollow, IndexInv
<1>10. controllers'[s].who = Nobody
  BY <1>6 DEF NoController
<1>11. IndexInv' /\ PersonInv'
  BY <1>0, <1>6, <1>8, <1>9, <1>10, SlotChanged
<1>12. SeatInv'
  <2>1. \A t, u \in Slots :
          t # u /\ seat[t] # Nobody => seat[u] # seat[t] /\ controllers'[u].who # seat[t]
    BY <1>0, <1>6, <1>10 DEF SeatInv
  <2>2. \A t, u \in Slots :
          t # u /\ controllers'[t].who # Nobody => controllers'[u].who # controllers'[t].who
    BY <1>0, <1>6, <1>10 DEF SeatInv
  <2>3. Nobody \notin Bots /\ Nobody \notin Humans
    BY PlayersAssumption DEF People
  <2>4. ASSUME NEW t \in Slots
        PROVE  /\ controllers'[t] = NoController \/ controllers'[t].who # Nobody
               /\ controllers'[t].who # Nobody /\ seat[t] # Nobody => controllers'[t].who = seat[t]
               /\ seat[t] \in Bots => joined[seat[t]] >= 1
               /\ controllers'[t].who \in Bots => joined[controllers'[t].who] >= 1
               /\ controllers'[t].who \in Humans /\ seat[t] = Nobody
                    => controllers'[t].state = "disconnected"
    BY <1>0, <1>6, <1>10, <2>3 DEF SeatInv
  <2> QED
    BY <1>0, <2>1, <2>2, <2>4 DEF SeatInv
<1>13. RawInv'
  BY <1>0 DEF RawInv
<1>14. ToldInv'
  <2>1. Present' \subseteq Present
    BY <1>0, <1>6 DEF Present
  <2> QED
    BY <1>0, <2>1 DEF ToldInv
<1>15. TypeOK'
  <2> DEFINE C == [who : People \cup {Nobody}, pl : 0 .. Len(players),
                   state : {"none", "new", "connected", "connecting", "disconnected"}]
  <2>1. /\ rawPlayers' \in [Slots -> [who : People \cup {Nobody}, uid : Slots \cup {0, NoUid}]]
        /\ seat' \in [Slots -> People \cup {Nobody}] /\ joined' \in [People -> Nat]
        /\ announced' \subseteq People
        /\ playersBySteamID32' \in [Humans -> 0 .. Len(players)]
    BY <1>0, TypeParts
  <2>2. 0 \in 0 .. Len(players) /\ NoController \in C
    BY <1>0, TypeParts DEF NoController
  <2>3. controllers' \in [Slots -> C]
    <3>1. controllers \in [Slots -> C]
      BY <1>0, TypeParts
    <3> HIDE DEF C
    <3> QED
      BY <1>0, <2>2, <3>1
  <2>4. /\ playersByEntityID' \in [Slots -> 0 .. Len(players)]
        /\ playersByUserID' \in [UserIDs -> 0 .. Len(players)]
    BY <1>0, <1>4, <2>2, TypeParts
  <2> QED
    BY <1>5, <2>1, <2>3, <2>4, TypeFrom
<1> QED
  BY <1>11, <1>12, <1>13, <1>14, <1>15 DEF IInv

(* BotLeaves keeps the invariant: the event finds the bot, by its user ID.  *)
LEMMA BotLeavesStep ==
  ASSUME IInv, NEW s \in Slots, BotLeaves(s)
  PROVE  IInv'
<1>0. /\ TypeOK /\ SeatInv /\ RawInv /\ IndexInv /\ PersonInv /\ ToldInv
      /\ seat[s] \in Bots /\ seat[s] \in People /\ seat[s] # Nobody
      /\ controllers[s] # NoController
      /\ seat' = [seat EXCEPT ![s] = Nobody]
      /\ UNCHANGED <<joined, rawPlayers, controllers, index>>
  BY PlayersAssumption DEF IInv, BotLeaves, People
<1> DEFINE id == playersByEntityID[s]
           q == [players[id] EXCEPT !.isConnected = FALSE]
<1>1. controllers[s].who # Nobody /\ controllers[s].who = seat[s] /\ id # Nil
      /\ IsPlayerOf(players[id], s, seat[s]) /\ id \in 1 .. Len(players)
  BY <1>0, PlayerIs DEF SeatInv
<1>2. PlayerByUserID(s) = id
  <2>1. playersByUserID[s] = id /\ playersByUserID[s] # Nil
    BY <1>0, <1>1 DEF IndexInv
  <2> QED
    BY <2>1 DEF PlayerByUserID
<1>3. players[id].isBot /\ players[id].name = seat[s]
  BY <1>0, <1>1 DEF IsPlayerOf
<1>4. /\ players' = [players EXCEPT ![id].isConnected = FALSE]
      /\ announced' = announced \ {seat[s]}
  BY <1>1, <1>2, <1>3 DEF BotLeaves
<1>5. players' = [players EXCEPT ![id] = q] /\ q \in PlayerType
      /\ IsPlayerOf(q, s, seat[s]) /\ q.isConnected = FALSE
  <2>1. players' = [players EXCEPT ![id] = q]
    BY <1>4
  <2>2. IsPlayerOf(q, s, seat[s]) /\ q.isConnected = FALSE
    BY <1>1, ConnectionSet
  <2> HIDE DEF q
  <2>3. q \in PlayerType
    BY <2>2 DEF IsPlayerOf
  <2> QED
    BY <2>1, <2>2, <2>3
<1> HIDE DEF q
<1>6. /\ players' \in Seq(PlayerType) /\ Len(players') = Len(players) /\ players'[id] = q
      /\ \A t \in Slots \ {s} : playersByEntityID[t] # Nil
           => players'[playersByEntityID[t]] = players[playersByEntityID[t]]
  BY <1>0, <1>1, <1>5, OnePlayerSet
<1>7. /\ controllers' = controllers /\ playersByEntityID' = playersByEntityID
      /\ playersByUserID' = playersByUserID /\ playersBySteamID32' = playersBySteamID32
  BY <1>0 DEF index
<1>8. seat'[s] = Nobody /\ \A t \in Slots \ {s} : seat'[t] = seat[t]
  BY <1>0, TypeParts
<1>9. IndexInv' /\ PersonInv'
  <2>1. OthersKept(s) /\ SteamIDsKept(s)
    BY <1>6, <1>7, <1>8 DEF OthersKept, SteamIDsKept
  <2>2. UserIDsFollow /\ OwnPlayer(s)
    BY <1>0, <1>1, <1>7 DEF UserIDsFollow, OwnPlayer, IndexInv
  <2>3. PlayerOf(s)' = q
    BY <1>6, <1>7 DEF PlayerOf
  <2>4. /\ controllers'[s].who = seat[s] /\ controllers'[s].pl = playersByEntityID'[s]
        /\ IsPlayerOf(PlayerOf(s)', s, controllers'[s].who)
        /\ PlayerOf(s).isConnected' <=> (seat'[s] # Nobody /\ controllers'[s].state = "connected")
        /\ seat[s] \notin Humans
    BY <1>0, <1>1, <1>5, <1>7, <1>8, <2>3, SteamIDs DEF IndexInv
  <2> QED
    BY <1>0, <2>1, <2>2, <2>4, SlotChanged
<1>10. SeatInv' /\ ToldInv' /\ seat' \in [Slots -> People \cup {Nobody}]
  BY <1>0, <1>1, <1>4, <1>7, SomebodyLeaves, SteamIDs
<1>11. RawInv'
  <2>1. ASSUME NEW t \in Slots
        PROVE  /\ seat'[t] # Nobody => rawPlayers[t] = [who |-> seat'[t], uid |-> t]
               /\ seat'[t] = Nobody =>
                    \/ rawPlayers[t] = NoRaw
                    \/ /\ rawPlayers[t].who \in Bots /\ joined[rawPlayers[t].who] >= 1
                       /\ \A u \in Slots : seat'[u] # rawPlayers[t].who
    <3>1. CASE t = s
      <4>1. rawPlayers[s] = [who |-> seat[s], uid |-> s]
        BY <1>0 DEF RawInv
      <4>2. rawPlayers[s].who = seat[s] /\ joined[seat[s]] >= 1
        BY <1>0, <4>1 DEF SeatInv
      <4>3. \A u \in Slots : seat'[u] # seat[s]
        BY <1>0, <1>8 DEF SeatInv
      <4> QED
        BY <1>0, <1>8, <3>1, <4>2, <4>3
    <3>2. CASE t # s
      <4>1. \A u \in Slots : seat'[u] = seat[u] \/ seat'[u] = Nobody
        BY <1>8
      <4>2. Nobody \notin Bots
        BY PlayersAssumption DEF People
      <4> QED
        BY <1>0, <1>8, <3>2, <4>1, <4>2 DEF RawInv
    <3> QED
      BY <3>1, <3>2
  <2> QED
    BY <1>0, <2>1 DEF RawInv
<1>12. TypeOK'
  <2>1. /\ rawPlayers' \in [Slots -> [who : People \cup {Nobody}, uid : Slots \cup {0, NoUid}]]
        /\ joined' \in [People -> Nat] /\ announced' \subseteq People
        /\ controllers' \in [Slots -> [who : People \cup {Nobody}, pl : 0 .. Len(players),
                                       state : {"none", "new", "connected", "connecting",
                                                "disconnected"}]]
        /\ playersByEntityID' \in [Slots -> 0 .. Len(players)]
        /\ playersByUserID' \in [UserIDs -> 0 .. Len(players)]
        /\ playersBySteamID32' \in [Humans -> 0 .. Len(players)]
    BY <1>0, <1>4, <1>7, TypeParts
  <2> QED
    BY <1>6, <1>10, <2>1, TypeFrom
<1> QED
  BY <1>9, <1>10, <1>11, <1>12 DEF IInv

(* The userinfo of a seat reaches the player of its controller, if there is *)
(* one, and tells it nothing new.                                           *)
LEMMA UserInfoActs ==
  ASSUME TypeOK, SeatInv, IndexInv, PersonInv, NEW s \in Slots, NEW who \in People,
         UpdatePlayerFromRawIfExists(s, who),
         UNCHANGED <<controllers, playersByEntityID, playersByUserID>>,
         \A t \in Slots \ {s} : seat'[t] = seat[t] /\ controllers[t].who # who,
         controllers[s].who \in {Nobody, who},
         s \in Present <=> (seat'[s] # Nobody /\ controllers[s].state = "connected")
  PROVE  /\ IndexInv' /\ PersonInv'
         /\ players' \in Seq(PlayerType) /\ Len(players') = Len(players)
         /\ playersBySteamID32' \in [Humans -> 0 .. Len(players)]
<1> DEFINE id == playersByEntityID[s]
           bot == who \in Bots
           q == [players[id] EXCEPT !.name = who, !.steamID = SteamID(who), !.isBot = bot]
<1>0. /\ players \in Seq(PlayerType) /\ Len(players) \in Nat
      /\ playersBySteamID32 \in [Humans -> 0 .. Len(players)]
      /\ playersByEntityID \in [Slots -> 0 .. Len(players)]
  BY TypeParts
<1>1. UserIDsFollow
  BY DEF UserIDsFollow, IndexInv
<1>2. CASE id = Nil
  <2>1. UNCHANGED <<players, playersBySteamID32>>
    BY <1>2 DEF UpdatePlayerFromRawIfExists
  <2>2. OthersKept(s) /\ SteamIDsKept(s)
    BY <2>1 DEF OthersKept, SteamIDsKept
  <2>3. controllers[s].who = Nobody
    BY <1>2 DEF IndexInv
  <2>4. IndexInv' /\ PersonInv'
    BY <1>1, <1>2, <2>2, <2>3, SlotChanged
  <2> QED
    BY <1>0, <2>1, <2>4
<1>3. CASE id # Nil
  <2>1. controllers[s].who # Nobody /\ controllers[s].who = who /\ id \in 1 .. Len(players)
        /\ controllers[s].pl = id
    BY <1>0, <1>3 DEF IndexInv
  <2>2. IsPlayerOf(players[id], s, who) /\ (players[id].isConnected <=> s \in Present)
    BY <2>1, PlayerIs
  <2>3. players' = [players EXCEPT ![id] = q] /\ IndexBySteamID(q, id)
    BY <1>3 DEF UpdatePlayerFromRawIfExists
  <2>4. SteamID(who) \in Humans \cup {NoSteamID} /\ bot \in BOOLEAN
        /\ who \in People \cup {"unknown"}
    BY SteamIDs
  <2>5. /\ playersBySteamID32' = IF ~q.isBot /\ q.steamID # NoSteamID
                                 THEN [playersBySteamID32 EXCEPT ![q.steamID] = id]
                                 ELSE playersBySteamID32
    BY <2>3 DEF IndexBySteamID
  <2>6. bot <=> who \in Bots
    OBVIOUS
  <2>7. /\ IsPlayerOf(q, s, who) /\ q.isConnected = players[id].isConnected
        /\ q.steamID = SteamID(who) /\ q.isBot = bot
    <3> DEFINE p == players[id]
    <3>1. p \in PlayerType /\ p.userID = s /\ q = [p EXCEPT !.name = who, !.steamID = SteamID(who), !.isBot = bot]
      BY <2>2 DEF IsPlayerOf
    <3> HIDE DEF p, q, bot
    <3>2. /\ q \in PlayerType /\ q.userID = s /\ q.steamID = SteamID(who) /\ q.name = who
          /\ q.isBot = bot /\ q.isConnected = p.isConnected
      BY <2>4, <3>1 DEF PlayerType
    <3> QED
      BY <2>6, <3>2 DEF IsPlayerOf, p
  <2> HIDE DEF q, bot
  <2>8. q \in PlayerType
    BY <2>7 DEF IsPlayerOf
  <2>9. /\ players' \in Seq(PlayerType) /\ Len(players') = Len(players) /\ players'[id] = q
        /\ \A t \in Slots \ {s} : playersByEntityID[t] # Nil
             => players'[playersByEntityID[t]] = players[playersByEntityID[t]]
    BY <1>3, <2>3, <2>8, OnePlayerSet
  <2>10. /\ playersBySteamID32' \in [Humans -> 0 .. Len(players)]
         /\ \A h \in Humans \ {who} : playersBySteamID32'[h] = playersBySteamID32[h]
         /\ who \in Humans => playersBySteamID32'[who] = id
    <3>1. CASE who \in Humans
      <4>1. q.steamID = who /\ who # NoSteamID /\ ~q.isBot
        BY <2>6, <2>7, <3>1, SteamIDs
      <4>2. playersBySteamID32' = [playersBySteamID32 EXCEPT ![who] = id]
        BY <2>5, <4>1
      <4> QED
        BY <1>0, <2>1, <3>1, <4>2
    <3>2. CASE who \in Bots
      <4>1. q.isBot
        BY <2>6, <2>7, <3>2
      <4> QED
        BY <1>0, <2>5, <3>2, <4>1, SteamIDs
    <3> QED
      BY <3>1, <3>2 DEF People
  <2>11. OthersKept(s)
    BY <2>9 DEF OthersKept
  <2>12. SteamIDsKept(s)
    BY <2>10 DEF SteamIDsKept
  <2>13. OwnPlayer(s)
    BY <1>3 DEF OwnPlayer, IndexInv
  <2>14. PlayerOf(s)' = q
    BY <2>9 DEF PlayerOf
  <2>15. /\ controllers'[s].who = who /\ controllers'[s].pl = playersByEntityID'[s]
         /\ IsPlayerOf(PlayerOf(s)', s, controllers'[s].who)
         /\ PlayerOf(s).isConnected' <=> (seat'[s] # Nobody /\ controllers'[s].state = "connected")
         /\ controllers'[s].who \in Humans
              => playersBySteamID32'[controllers'[s].who] = playersByEntityID'[s]
    BY <2>1, <2>2, <2>7, <2>10, <2>14
  <2>16. IndexInv' /\ PersonInv'
    BY <1>1, <2>1, <2>11, <2>12, <2>13, <2>15, SlotChanged
  <2> QED
    BY <2>9, <2>10, <2>16
<1> QED
  BY <1>2, <1>3

(* UserInfo keeps the invariant: a missing user ID leaves the one known.    *)
LEMMA UserInfoStep ==
  ASSUME IInv, NEW s \in Slots, NEW uid \in {s, NoUid}, UserInfo(s, uid)
  PROVE  IInv'
<1>0. /\ TypeOK /\ SeatInv /\ RawInv /\ IndexInv /\ PersonInv /\ ToldInv
      /\ seat[s] # Nobody /\ seat[s] \in People
      /\ UNCHANGED <<seat, joined>>
      /\ SetRawPlayer(s, seat[s], uid)
  BY TypeParts DEF IInv, UserInfo
<1>1. rawPlayers[s] = [who |-> seat[s], uid |-> s]
  BY <1>0 DEF RawInv
<1>2. rawPlayers[s] # NoRaw /\ rawPlayers[s].uid = s
  BY <1>0, <1>1 DEF NoRaw
<1>3. KeptUid(s, uid) = s
  BY <1>2 DEF KeptUid
<1>4. /\ rawPlayers' = [rawPlayers EXCEPT ![s] = [who |-> seat[s], uid |-> s]]
      /\ UpdatePlayerFromRawIfExists(s, seat[s])
      /\ UNCHANGED <<controllers, announced, playersByEntityID, playersByUserID>>
  BY <1>0, <1>3 DEF SetRawPlayer
<1>5. rawPlayers' = rawPlayers
  BY <1>0, <1>1, <1>4, TypeParts
<1>6. /\ \A t \in Slots \ {s} : seat'[t] = seat[t] /\ controllers[t].who # seat[s]
      /\ controllers[s].who \in {Nobody, seat[s]}
      /\ s \in Present <=> (seat'[s] # Nobody /\ controllers[s].state = "connected")
  BY <1>0 DEF SeatInv, Present
<1>7. /\ IndexInv' /\ PersonInv'
      /\ players' \in Seq(PlayerType) /\ Len(players') = Len(players)
      /\ playersBySteamID32' \in [Humans -> 0 .. Len(players)]
  BY <1>0, <1>4, <1>6, UserInfoActs
<1>8. SeatInv' /\ RawInv' /\ ToldInv'
  <2>1. SeatInv'
    BY <1>0, <1>4 DEF SeatInv
  <2>2. RawInv'
    BY <1>0, <1>5 DEF RawInv
  <2>3. ToldInv'
    BY <1>0, <1>4 DEF ToldInv, Present
  <2> QED
    BY <2>1, <2>2, <2>3
<1>9. TypeOK'
  <2>1. /\ rawPlayers' \in [Slots -> [who : People \cup {Nobody}, uid : Slots \cup {0, NoUid}]]
        /\ seat' \in [Slots -> People \cup {Nobody}] /\ joined' \in [People -> Nat]
        /\ announced' \subseteq People
        /\ controllers' \in [Slots -> [who : People \cup {Nobody}, pl : 0 .. Len(players),
                                       state : {"none", "new", "connected", "connecting",
                                                "disconnected"}]]
        /\ playersByEntityID' \in [Slots -> 0 .. Len(players)]
        /\ playersByUserID' \in [UserIDs -> 0 .. Len(players)]
    BY <1>0, <1>4, <1>5, TypeParts
  <2> QED
    BY <1>7, <2>1, TypeFrom
<1> QED
  BY <1>7, <1>8, <1>9 DEF IInv

(* Join keeps the invariant: it is a person of a new slot, or one who comes *)
(* back to the controller that they left.                                   *)
LEMMA JoinStep ==
  ASSUME \A b \in Bots : Joins[b] <= 1, IInv, NEW s \in Slots, NEW who \in People, Join(s, who)
  PROVE  IInv'
<1>0. /\ TypeOK /\ SeatInv /\ RawInv /\ IndexInv /\ PersonInv /\ ToldInv
      /\ seat[s] = Nobody /\ controllers[s].who \in {Nobody, who}
      /\ \A t \in Slots : seat[t] # who
      /\ \A t \in Slots \ {s} : controllers[t].who # who
      /\ joined[who] < Joins[who]
      /\ seat' = [seat EXCEPT ![s] = who]
      /\ joined' = [joined EXCEPT ![who] = @ + 1]
      /\ SetRawPlayer(s, who, s)
  BY DEF IInv, Join
<1>1. /\ rawPlayers' = [rawPlayers EXCEPT ![s] = [who |-> who, uid |-> s]]
      /\ UpdatePlayerFromRawIfExists(s, who)
      /\ UNCHANGED <<controllers, announced, playersByEntityID, playersByUserID>>
  BY <1>0, SlotType DEF SetRawPlayer, KeptUid
<1>2. /\ joined \in [People -> Nat] /\ joined' \in [People -> Nat]
      /\ \A w \in People : joined'[w] >= joined[w]
      /\ joined'[who] >= 1
  BY <1>0, TypeParts
<1>3. who \in Bots => joined[who] < 1
  BY <1>0, <1>2, PlayersAssumption DEF People
<1>4. /\ seat'[s] = who /\ who # Nobody
      /\ \A t \in Slots \ {s} : seat'[t] = seat[t]
  BY <1>0, TypeParts, PlayersAssumption
<1>5. controllers[s].who # who \/ who \in Humans
  BY <1>0, <1>2, <1>3 DEF SeatInv, People
<1>6. controllers[s].state # "connected"
  <2>1. CASE controllers[s].who = Nobody
    <3>1. controllers[s] = NoController
      BY <1>0, <2>1 DEF SeatInv
    <3> QED
      BY <3>1 DEF NoController
  <2>2. CASE controllers[s].who = who
    <3>1. controllers[s].state = "disconnected"
      BY <1>0, <1>5, <2>2 DEF SeatInv
    <3> QED
      BY <3>1
  <2> QED
    BY <1>0, <2>1, <2>2
<1>7. s \notin Present /\ s \notin Present'
  BY <1>0, <1>1, <1>6 DEF Present
<1>8. /\ IndexInv' /\ PersonInv'
      /\ players' \in Seq(PlayerType) /\ Len(players') = Len(players)
      /\ playersBySteamID32' \in [Humans -> 0 .. Len(players)]
  BY <1>0, <1>1, <1>4, <1>6, <1>7, UserInfoActs
<1>9. SeatInv'
  <2>1. \A t, u \in Slots :
          t # u /\ seat'[t] # Nobody => seat'[u] # seat'[t] /\ controllers[u].who # seat'[t]
    BY <1>0, <1>4 DEF SeatInv
  <2>2. ASSUME NEW t \in Slots
        PROVE  /\ controllers[t].who # Nobody /\ seat'[t] # Nobody => controllers[t].who = seat'[t]
               /\ seat'[t] \in Bots => joined'[seat'[t]] >= 1
               /\ controllers[t].who \in Bots => joined'[controllers[t].who] >= 1
               /\ controllers[t].who \in Humans /\ seat'[t] = Nobody
                    => controllers[t].state = "disconnected"
    <3>1. /\ controllers[t].who # Nobody /\ seat'[t] # Nobody => controllers[t].who = seat'[t]
          /\ controllers[t].who \in Humans /\ seat'[t] = Nobody
               => controllers[t].state = "disconnected"
      BY <1>0, <1>4 DEF SeatInv
    <3>2. seat'[t] \in Bots => joined'[seat'[t]] >= 1
      <4>1. CASE t = s
        BY <1>2, <1>4, <4>1
      <4>2. ASSUME t # s, seat'[t] \in Bots PROVE joined'[seat'[t]] >= 1
        <5>1. seat'[t] = seat[t] /\ seat[t] \in People
          BY <1>4, <4>2 DEF People
        <5>2. joined[seat[t]] >= 1 /\ joined'[seat[t]] >= joined[seat[t]]
              /\ joined[seat[t]] \in Nat /\ joined'[seat[t]] \in Nat
          BY <1>0, <1>2, <4>2, <5>1 DEF SeatInv
        <5> QED
          BY <5>1, <5>2
      <4> QED
        BY <4>1, <4>2
    <3>3. ASSUME controllers[t].who \in Bots PROVE joined'[controllers[t].who] >= 1
      <4> DEFINE w == controllers[t].who
      <4>1. joined[w] >= 1 /\ w \in People
        BY <1>0, <3>3 DEF SeatInv, People
      <4> HIDE DEF w
      <4>2. joined'[w] >= 1
        BY <1>2, <4>1
      <4> QED
        BY <4>2 DEF w
    <3> QED
      BY <3>1, <3>2, <3>3
  <2> QED
    BY <1>0, <1>1, <2>1, <2>2 DEF SeatInv
<1>10. RawInv'
  <2>1. ASSUME NEW t \in Slots
        PROVE  /\ seat'[t] # Nobody => rawPlayers'[t] = [who |-> seat'[t], uid |-> t]
               /\ seat'[t] = Nobody =>
                    \/ rawPlayers'[t] = NoRaw
                    \/ /\ rawPlayers'[t].who \in Bots /\ joined'[rawPlayers'[t].who] >= 1
                       /\ \A u \in Slots : seat'[u] # rawPlayers'[t].who
    <3>1. CASE t = s
      <4>1. rawPlayers'[s] = [who |-> who, uid |-> s]
        BY <1>0, <1>1, TypeParts
      <4> QED
        BY <1>4, <3>1, <4>1
    <3>2. CASE t # s
      <4>1. rawPlayers'[t] = rawPlayers[t] /\ seat'[t] = seat[t]
        BY <1>0, <1>1, <1>4, <3>2, TypeParts
      <4>2. CASE seat[t] # Nobody
        BY <1>0, <4>1, <4>2 DEF RawInv
      <4>3. CASE seat[t] = Nobody /\ rawPlayers[t] # NoRaw
        <5> DEFINE w == rawPlayers[t].who
        <5>1. /\ w \in Bots /\ joined[w] >= 1 /\ \A u \in Slots : seat[u] # w
              /\ w \in People
          BY <1>0, <4>3 DEF RawInv, People
        <5> HIDE DEF w
        <5>2. w # who /\ joined'[w] >= 1
          BY <1>2, <1>3, <5>1
        <5>3. \A u \in Slots : seat'[u] # w
          BY <1>4, <5>1, <5>2
        <5> QED
          BY <4>1, <4>3, <5>1, <5>2, <5>3 DEF w
      <4> QED
        BY <4>1, <4>2, <4>3
    <3> QED
      BY <3>1, <3>2
  <2> QED
    BY <2>1 DEF RawInv
<1>11. ToldInv'
  <2>1. ASSUME NEW t \in Present' PROVE seat'[t] \in announced'
    <3>1. t # s /\ t \in Slots
      BY <1>7, <2>1 DEF Present
    <3>2. t \in Present /\ seat'[t] = seat[t]
      BY <1>1, <1>4, <2>1, <3>1 DEF Present
    <3> QED
      BY <1>0, <1>1, <3>2 DEF ToldInv
  <2>2. ASSUME NEW w \in announced' PROVE \E t \in Slots : seat'[t] = w
    <3>1. w \in announced /\ w \in People
      BY <1>0, <1>1, <2>2, TypeParts
    <3>2. PICK t \in Slots : seat[t] = w
      BY <1>0, <3>1 DEF ToldInv
    <3>3. t # s
      BY <1>0, <3>1, <3>2, PlayersAssumption
    <3> QED
      BY <1>4, <3>2, <3>3
  <2> QED
    BY <2>1, <2>2 DEF ToldInv
<1>12. TypeOK'
  <2>1. /\ rawPlayers \in [Slots -> [who : People \cup {Nobody}, uid : Slots \cup {0, NoUid}]]
        /\ seat' \in [Slots -> People \cup {Nobody}] /\ announced' \subseteq People
        /\ controllers' \in [Slots -> [who : People \cup {Nobody}, pl : 0 .. Len(players),
                                       state : {"none", "new", "connected", "connecting",
                                                "disconnected"}]]
        /\ playersByEntityID' \in [Slots -> 0 .. Len(players)]
        /\ playersByUserID' \in [UserIDs -> 0 .. Len(players)]
    BY <1>0, <1>1, TypeParts
  <2>2. rawPlayers' \in [Slots -> [who : People \cup {Nobody}, uid : Slots \cup {0, NoUid}]]
    BY <1>1, <2>1
  <2> QED
    BY <1>2, <1>8, <2>1, <2>2, TypeFrom
<1> QED
  BY <1>8, <1>9, <1>10, <1>11, <1>12 DEF IInv

-------------------------------------------------------------------------------
(* Nobody is there at first.                                                *)
LEMMA Starts == Init => IInv
<1> SUFFICES ASSUME Init PROVE IInv
  OBVIOUS
<1> USE DEF Init
<1>0. /\ Nobody \notin People /\ players = << >> /\ announced = {}
      /\ \A s \in Slots : seat[s] = Nobody /\ rawPlayers[s] = NoRaw
                          /\ controllers[s] = NoController /\ playersByEntityID[s] = Nil
      /\ \A u \in UserIDs : playersByUserID[u] = Nil
  BY PlayersAssumption
<1>1. TypeOK
  <2>1. /\ NoRaw \in [who : People \cup {Nobody}, uid : Slots \cup {0, NoUid}]
        /\ NoController \in [who : People \cup {Nobody}, pl : 0 .. 0,
                             state : {"none", "new", "connected", "connecting", "disconnected"}]
    BY DEF NoRaw, NoController
  <2>2. players \in Seq(PlayerType) /\ Len(players) = 0 /\ 0 \in 0 .. 0
    BY <1>0
  <2>3. /\ rawPlayers \in [Slots -> [who : People \cup {Nobody}, uid : Slots \cup {0, NoUid}]]
        /\ controllers \in [Slots -> [who : People \cup {Nobody}, pl : 0 .. 0,
                            state : {"none", "new", "connected", "connecting", "disconnected"}]]
        /\ playersByEntityID \in [Slots -> 0 .. 0] /\ playersByUserID \in [UserIDs -> 0 .. 0]
        /\ playersBySteamID32 \in [Humans -> 0 .. 0]
        /\ seat \in [Slots -> People \cup {Nobody}] /\ joined \in [People -> Nat]
        /\ announced \subseteq People
    BY <2>1, <2>2
  <2> QED
    BY <2>2, <2>3, TypeParts
<1>2. \A s \in Slots : controllers[s].who = Nobody
  BY <1>0 DEF NoController
<1>3. Nobody \notin Bots /\ Nobody \notin Humans
  BY <1>0 DEF People
<1>4. SeatInv
  BY <1>0, <1>2, <1>3 DEF SeatInv
<1>5. RawInv
  BY <1>0 DEF RawInv
<1>6. IndexInv
  BY <1>0, <1>2, SlotType DEF IndexInv
<1>7. PersonInv
  BY <1>2 DEF PersonInv
<1>8. ToldInv
  BY <1>0 DEF ToldInv, Present
<1> QED
  BY <1>1, <1>4, <1>5, <1>6, <1>7, <1>8 DEF IInv

(* Every step keeps the invariant.                                          *)
LEMMA Steps == ASSUME BotsStayAway PROVE IInv /\ [Next]_vars => IInv'
<1> SUFFICES ASSUME IInv, [Next]_vars PROVE IInv'
  OBVIOUS
<1>1. CASE UNCHANGED vars
  BY <1>1 DEF vars, index, IInv, TypeOK, SeatInv, RawInv, IndexInv, PersonInv, ToldInv,
              PlayerOf, Present
<1>2. CASE Next
  <2>1. PICK s \in Slots :
          \/ \E who \in People : Join(s, who)
          \/ \E uid \in {s, NoUid} : UserInfo(s, uid)
          \/ CreateController(s) \/ PawnUpdate(s) \/ DeleteController(s)
          \/ (\E st \in {"connected", "connecting"} : Connected(s, st)) \/ Disconnected(s)
          \/ BotLeaves(s)
    BY <1>2 DEF Next
  <2>2. CASE \E who \in People : Join(s, who)
    BY <2>2, JoinStep DEF BotsStayAway
  <2>3. CASE \E uid \in {s, NoUid} : UserInfo(s, uid)
    BY <2>3, UserInfoStep
  <2>4. CASE CreateController(s)
    BY <2>4, CreateStep
  <2>5. CASE PawnUpdate(s)
    BY <2>5, PawnUpdateStep
  <2>6. CASE DeleteController(s)
    BY <2>6, DeleteStep
  <2>7. CASE \E st \in {"connected", "connecting"} : Connected(s, st)
    BY <2>7, ConnectedStep
  <2>8. CASE Disconnected(s)
    BY <2>8, DisconnectedStep DEF BotsStayAway
  <2>9. CASE BotLeaves(s)
    BY <2>9, BotLeavesStep
  <2> QED
    BY <2>1, <2>2, <2>3, <2>4, <2>5, <2>6, <2>7, <2>8, <2>9
<1> QED
  BY <1>1, <1>2

(* The inductive invariant: seats, raw players, maps, players and events    *)
(* agree.                                                                   *)
THEOREM InductiveInvariant == ASSUME BotsStayAway PROVE Spec => []IInv
<1>1. Init => IInv
  BY Starts
<1>2. IInv /\ [Next]_vars => IInv'
  BY Steps
<1> QED
  BY <1>1, <1>2, PTL DEF Spec

(* Every variable has its type: what the maps have are players.             *)
THEOREM TypeCorrect == ASSUME BotsStayAway PROVE Spec => []TypeOK
<1>1. IInv => TypeOK
  BY DEF IInv
<1> QED
  BY <1>1, InductiveInvariant, PTL

(* Game events and rank updates find the player of whoever is there, though *)
(* user IDs may be missing and slots are taken over.                        *)
THEOREM EventsFindPlayers == ASSUME BotsStayAway PROVE Spec => []EventsResolve
<1>1. IInv => EventsResolve
  <2> SUFFICES ASSUME IInv, NEW s \in Present
               PROVE  /\ PlayerByUserID(s) = playersByEntityID[s]
                      /\ seat[s] \in Humans => playersBySteamID32[seat[s]] = playersByEntityID[s]
    BY DEF EventsResolve
  <2>1. s \in Slots /\ seat[s] # Nobody /\ controllers[s].state = "connected"
        /\ SeatInv /\ IndexInv
    BY DEF Present, IInv
  <2>2. controllers[s].who # Nobody /\ controllers[s].who = seat[s]
    BY <2>1 DEF SeatInv, NoController
  <2>3. playersByUserID[s] = playersByEntityID[s] /\ playersByEntityID[s] # Nil
    BY <2>1, <2>2 DEF IndexInv
  <2>4. PlayerByUserID(s) = playersByEntityID[s]
    BY <2>3 DEF PlayerByUserID
  <2> QED
    BY <2>1, <2>2, <2>4 DEF IndexInv
<1> QED
  BY <1>1, InductiveInvariant, PTL

(* Whoever is there has a Player of their own, with their name and ID.      *)
THEOREM PlayersAreTheirOwn == ASSUME BotsStayAway PROVE Spec => []OwnIdentity
<1>1. IInv => OwnIdentity
  <2> SUFFICES ASSUME IInv, NEW s \in Present
               PROVE  /\ PlayerOf(s).name = seat[s] /\ PlayerOf(s).steamID = SteamID(seat[s])
                      /\ PlayerOf(s).isBot = (seat[s] \in Bots)
                      /\ \A t \in Present \ {s} : playersByEntityID[t] # playersByEntityID[s]
    BY DEF OwnIdentity
  <2>1. s \in Slots /\ seat[s] # Nobody /\ controllers[s].state = "connected"
        /\ SeatInv /\ IndexInv /\ PersonInv
    BY DEF Present, IInv
  <2>2. controllers[s].who # Nobody /\ controllers[s].who = seat[s]
    BY <2>1 DEF SeatInv, NoController
  <2>3. playersByEntityID[s] # Nil
    BY <2>1, <2>2 DEF IndexInv
  <2>4. \A t \in Present \ {s} : playersByEntityID[t] # playersByEntityID[s]
    BY <2>1, <2>3 DEF IndexInv, Present
  <2> QED
    BY <2>1, <2>2, <2>4 DEF PersonInv
<1> QED
  BY <1>1, InductiveInvariant, PTL

(* Participants().Connected() has the players of those who are there.       *)
THEOREM ConnectedIsExact == ASSUME BotsStayAway PROVE Spec => []ConnectedExact
<1>1. IInv => ConnectedExact
  <2> SUFFICES ASSUME IInv PROVE ByUserID = {playersByEntityID[s] : s \in Present}
    BY DEF ConnectedExact
  <2>1. TypeOK /\ SeatInv /\ IndexInv /\ PersonInv
    BY DEF IInv
  <2>2. ASSUME NEW u \in UserIDs, playersByUserID[u] # Nil, players[playersByUserID[u]].isConnected
        PROVE  u \in Present /\ playersByUserID[u] = playersByEntityID[u]
    <3>1. u \in Slots
      BY <2>1, <2>2 DEF UserIDs, IndexInv
    <3>2. playersByUserID[u] = playersByEntityID[u] /\ controllers[u].who # Nobody
      BY <2>1, <2>2, <3>1 DEF IndexInv
    <3> QED
      BY <2>1, <2>2, <3>1, <3>2, PlayerIs
  <2>3. ASSUME NEW s \in Present
        PROVE  /\ s \in UserIDs /\ playersByUserID[s] = playersByEntityID[s]
               /\ playersByUserID[s] # Nil /\ players[playersByUserID[s]].isConnected
    <3>1. s \in Slots /\ controllers[s].who # Nobody
      <4>1. s \in Slots /\ controllers[s].state = "connected"
        BY DEF Present
      <4> QED
        BY <2>1, <4>1 DEF SeatInv, NoController
    <3>2. playersByEntityID[s] # Nil /\ players[playersByEntityID[s]].isConnected
      BY <2>1, <3>1, PlayerIs
    <3> QED
      BY <2>1, <3>1, <3>2, SlotType DEF IndexInv
  <2>4. ByUserID \subseteq {playersByEntityID[s] : s \in Present}
    BY <2>2 DEF ByUserID
  <2>5. {playersByEntityID[s] : s \in Present} \subseteq ByUserID
    BY <2>3 DEF ByUserID
  <2> QED
    BY <2>4, <2>5
<1> QED
  BY <1>1, InductiveInvariant, PTL

(* The events tell of everybody who is there and of nobody who has left.    *)
THEOREM PresenceIsAnnounced == ASSUME BotsStayAway PROVE Spec => []PresenceAnnounced
<1>1. IInv => PresenceAnnounced
  BY DEF IInv, ToldInv, PresenceAnnounced, Present
<1> QED
  BY <1>1, InductiveInvariant, PTL
==============================================================================
