--------------------------------- MODULE Rounds ---------------------------------
(***************************************************************************)
(* The progress of the match: what the updates of the entity               *)
(* CCSGameRulesProxy (datatables.go, bindGameRules) tell the users of the  *)
(* parser, in the order processRoundProgressEvents gives it at the end of  *)
(* the frame (game_events.go).                                             *)
(*                                                                         *)
(* The server changes the entity between frames; the updates of a frame    *)
(* come one property at a time in any order, each at most once.  With      *)
(* mimic (the default) rounds are made out from the properties, else from  *)
(* the game events of Source 1.                                            *)
(***************************************************************************)
EXTENDS Naturals, Sequences

CONSTANTS
  Reasons,        (* why rounds end; 0 is still in progress                 *)
  Phases,         (* of the game                                            *)
  MaxPlayed,      (* bound: the rounds of a match                           *)
  Mimics          (* whether ~disableMimicSource1GameEvents                 *)

ASSUME RoundsAssumption ==
  /\ Reasons \subseteq Nat \ {0} /\ Reasons # {} /\ Phases \subseteq Nat /\ 0 \in Phases
  /\ MaxPlayed \in Nat /\ Mimics \subseteq BOOLEAN

VARIABLES
  mimic,
  server,         (* the entity as the server has it in this frame          *)
  entity,         (* as the updates so far have it, or NoEntity             *)
  before,         (* and as it was at the end of the last frame             *)
  due,            (* the game events of this frame still to come            *)
  inFrame,
  fresh,          (* history: the entity was created in this frame          *)
  gameState,      (* gameState, and the variables of the entity's handlers  *)
  log             (* the events dispatched in this frame, each with         *)
                  (* IsMatchStarted as handlers of it see it                *)

vars == <<mimic, server, entity, before, due, inFrame, fresh, gameState, log>>

Props == [freeze : BOOLEAN, started : BOOLEAN, reason : Reasons \cup {0},
          phase : Phases, played : 0 .. MaxPlayed]
NoEntity == [freeze |-> FALSE, started |-> FALSE, reason |-> 0, phase |-> 0, played |-> 0]
Keys == DOMAIN NoEntity
None == << >>     (* a pending event is a sequence of none or of one        *)

Event(t, old, new) == [t |-> t, old |-> old, new |-> new]

(* The handlers turn a game state and what was dispatched into others.     *)
Dispatch(st, e) ==
  [st EXCEPT !.log = Append(@, [e |-> e, matchStarted |-> st.gs.isMatchStarted])]
Set(st, f, v) == [st EXCEPT !.gs = [@ EXCEPT ![f] = v]]

Init ==
  /\ mimic \in Mimics /\ server = NoEntity /\ entity = NoEntity /\ before = NoEntity
  /\ due = {} /\ inFrame = FALSE /\ fresh = FALSE
  /\ gameState = [exists |-> FALSE, firstUpdateOccurred |-> FALSE, isFreezetime |-> FALSE,
                  isMatchStarted |-> FALSE, gamePhase |-> 0, totalRoundsPlayed |-> 0,
                  lastRoundStartEvent |-> None, lastFreezeTimeChangedEvent |-> None,
                  lastRoundEndEvent |-> None, lastMatchStartedChangedEvent |-> None]
  /\ log = << >>

---------------------------------------------------------------------------
(* The handlers of the entity's properties (bindGameRules)                 *)

(* dispatchRoundStart; clear is clearGrenadeProjectiles and its events.    *)
EndsRound_Always(gs) == TRUE
EndsRound(gs) == gs.totalRoundsPlayed > 0

DispatchRoundStart(st) ==
  LET cleared == Dispatch(st, Event("clear", 0, 0))
      official == IF EndsRound(st.gs)
                  THEN Dispatch(cleared, Event("RoundEndOfficial", 0, 0)) ELSE cleared
  IN  IF mimic THEN Set(official, "lastRoundStartEvent", <<Event("RoundStart", 0, 0)>>)
               ELSE cleared

FreezePeriod_Stale(st, new) ==
  LET event == Event("freeze", st.gs.isFreezetime, new)
  IN  IF mimic THEN Set(st, "lastFreezeTimeChangedEvent", <<event>>)
               ELSE Dispatch(st, event)

FreezePeriod(st, new) ==
  LET event == Event("freeze", st.gs.isFreezetime, new)
      told == IF mimic THEN Set(st, "lastFreezeTimeChangedEvent", <<event>>)
                       ELSE Dispatch(st, event)
  IN  Set(told, "isFreezetime", new)

(* The first round starts with the match: its reason, 0, is not updated.   *)
HasMatchStarted(st, new, reason) ==
  LET event == Event("started", st.gs.isMatchStarted, new)
      pending == Set(st, "lastMatchStartedChangedEvent", <<event>>)
  IN  IF ~mimic THEN Dispatch(Set(st, "isMatchStarted", new), event)
      ELSE IF new /\ reason = 0 THEN DispatchRoundStart(pending) ELSE pending

(* The first update has the value the entity is created with.              *)
FirstUpdate_Told(gs) == FALSE
FirstUpdate(gs) == ~gs.firstUpdateOccurred

RoundWinReason(st, reason) ==
  IF FirstUpdate(st.gs) THEN Set(st, "firstUpdateOccurred", TRUE)
  ELSE IF reason = 0 THEN DispatchRoundStart(st)
  ELSE IF mimic THEN Set(st, "lastRoundEndEvent", <<Event("RoundEnd", 0, reason)>>)
  ELSE st

(* The game phase, as the warmup and the overtime, is told of at once.     *)
GamePhase(st, new) ==
  Dispatch(Set(st, "gamePhase", new), Event("phase", st.gs.gamePhase, new))

Handle(st, k, e) ==
  CASE k = "freeze"  -> FreezePeriod(st, e.freeze)
    [] k = "started" -> HasMatchStarted(st, e.started, e.reason)
    [] k = "reason"  -> RoundWinReason(st, e.reason)
    [] k = "phase"   -> GamePhase(st, e.phase)
    [] k = "played"  -> Set(st, "totalRoundsPlayed", e.played)

Becomes(st) == gameState' = st.gs /\ log' = st.log

---------------------------------------------------------------------------
(* The server (its rules are the game's, not the repository's)             *)

RoundStarted(old, new) ==
  new.reason = 0 /\ (old.reason # 0 \/ (new.started /\ ~old.started))
RoundEnded(old, new) == new.reason # 0 /\ old.reason = 0

(* A match starts with a round and with none played; a reason does not     *)
(* become another one; rounds are counted when they are over.              *)
Possible(old, new) ==
  /\ new.started /\ ~old.started => new.reason = 0 /\ old.played = 0 /\ new.played = 0
  /\ new.reason \in {old.reason, 0} \/ old.reason = 0
  /\ \/ new.played \in {old.played, 0}
     \/ new.played = old.played + 1 /\ new.reason # 0

GameEvents(old, new) ==
  (IF RoundStarted(old, new) THEN {"round_start"} ELSE {})
    \cup (IF RoundEnded(old, new) THEN {"round_end"} ELSE {})
    \cup (IF RoundStarted(old, new) /\ old.reason # 0 /\ old.played > 0
          THEN {"round_officially_ended"} ELSE {})

Tick ==
  /\ ~inFrame /\ inFrame' = TRUE /\ fresh' = FALSE /\ log' = << >>
  /\ before' = entity
  /\ server' \in Props
  /\ gameState.exists => Possible(entity, server')
  /\ due' = IF mimic \/ ~gameState.exists THEN {} ELSE GameEvents(entity, server')
  /\ UNCHANGED <<mimic, entity, gameState>>

---------------------------------------------------------------------------
(* The parser's steps in a frame                                           *)

(* Once the entity is created all its handlers are called, in the order of *)
(* the names m_bFreezePeriod, m_bHasMatchStarted, m_eRoundWinReason,       *)
(* m_gamePhase and m_totalRoundsPlayed (OnPacketEntities).                 *)
HandleAll(st, e) ==
  LET frozen  == Handle(st, "freeze", e)
      started == Handle(frozen, "started", e)
      ended   == Handle(started, "reason", e)
      phased  == Handle(ended, "phase", e)
  IN  Handle(phased, "played", e)

Create ==
  /\ inFrame /\ ~gameState.exists
  /\ entity' = server /\ fresh' = TRUE
  /\ Becomes(HandleAll([gs |-> [gameState EXCEPT !.exists = TRUE], log |-> log], server))
  /\ UNCHANGED <<mimic, server, before, due, inFrame>>

(* One property is updated: it is set, and its handler is called, before   *)
(* the next is read (readFields).                                          *)
Update(k) ==
  /\ inFrame /\ gameState.exists /\ entity[k] # server[k]
  /\ entity' = [entity EXCEPT ![k] = server[k]]
  /\ Becomes(Handle([gs |-> gameState, log |-> log], k, entity'))
  /\ UNCHANGED <<mimic, server, before, due, inFrame, fresh>>

(* roundStart, roundEnd, roundOfficiallyEnded, without mimic.              *)
GameEvent(name) ==
  /\ inFrame /\ name \in due /\ due' = due \ {name}
  /\ LET st == [gs |-> gameState, log |-> log]
         cleared == Dispatch(st, Event("clear", 0, 0))
     IN  Becomes(CASE name = "round_start" -> Dispatch(cleared, Event("RoundStart", 0, 0))
                   [] name = "round_end" ->
                        Dispatch(st, Event("RoundEnd", 0, server.reason))
                   [] name = "round_officially_ended" ->
                        Dispatch(cleared, Event("RoundEndOfficial", 0, 0)))
  /\ UNCHANGED <<mimic, server, entity, before, inFrame, fresh>>

(* processRoundProgressEvents                                              *)
Flush(st, f) ==
  IF st.gs[f] = None THEN st ELSE Set(Dispatch(st, st.gs[f][1]), f, None)

(* dispatchMatchStartedEventIfNecessary                                    *)
FlushMatchStarted(st) ==
  IF st.gs.lastMatchStartedChangedEvent = None THEN st
  ELSE Flush(Set(st, "isMatchStarted", st.gs.lastMatchStartedChangedEvent[1].new),
             "lastMatchStartedChangedEvent")

ProcessRoundProgressEvents_MatchLast(st) ==
  LET started == Flush(st, "lastRoundStartEvent")
      frozen == Flush(started, "lastFreezeTimeChangedEvent")
  IN  FlushMatchStarted(Flush(frozen, "lastRoundEndEvent"))

ProcessRoundProgressEvents_Kept(st) ==
  LET first == IF st.gs.lastRoundStartEvent # None THEN FlushMatchStarted(st) ELSE st
      frozen == Flush(Flush(first, "lastRoundStartEvent"), "lastFreezeTimeChangedEvent")
  IN  Flush(frozen, "lastRoundEndEvent")

ProcessRoundProgressEvents(st) ==
  LET first == IF st.gs.lastRoundStartEvent # None THEN FlushMatchStarted(st) ELSE st
      started == Flush(first, "lastRoundStartEvent")
      frozen == Flush(started, "lastFreezeTimeChangedEvent")
  IN  FlushMatchStarted(Flush(frozen, "lastRoundEndEvent"))

EndFrame ==
  /\ inFrame /\ gameState.exists /\ entity = server /\ due = {}
  /\ inFrame' = FALSE
  /\ LET st == [gs |-> gameState, log |-> log]
     IN  Becomes(IF mimic THEN ProcessRoundProgressEvents(st) ELSE st)
  /\ UNCHANGED <<mimic, server, entity, before, due, fresh>>

Next == Tick \/ Create \/ (\E k \in Keys : Update(k)) \/ EndFrame
          \/ (\E name \in {"round_start", "round_end", "round_officially_ended"} :
                GameEvent(name))

Spec == Init /\ [][Next]_vars

---------------------------------------------------------------------------
(* Properties: of the events of a frame, when it has ended                 *)

(* Where the events of a type are in the log.                              *)
Told(t) == {i \in 1 .. Len(log) : log[i].e.t = t}
Once(t) == \E i \in 1 .. Len(log) : Told(t) = {i}

FrameEnded == ~inFrame /\ gameState.exists

(* The shape of the state: no event is pending between frames, and the     *)
(* game state has what the entity has.                                     *)
TypeOK ==
  /\ mimic \in Mimics /\ server \in Props /\ entity \in Props /\ before \in Props
  /\ inFrame \in BOOLEAN /\ fresh \in BOOLEAN
  /\ due \subseteq {"round_start", "round_end", "round_officially_ended"}
  /\ \A i \in 1 .. Len(log) : log[i].matchStarted \in BOOLEAN
  /\ gameState.totalRoundsPlayed \in 0 .. MaxPlayed /\ gameState.gamePhase \in Phases
  /\ FrameEnded =>
       /\ gameState.isFreezetime = entity.freeze
       /\ gameState.isMatchStarted = entity.started
       /\ gameState.totalRoundsPlayed = entity.played
       /\ \A f \in {"lastRoundStartEvent", "lastFreezeTimeChangedEvent",
                    "lastRoundEndEvent", "lastMatchStartedChangedEvent"} :
            gameState[f] = None

(* The changes told of form a chain: from the value told last to the one   *)
(* the entity has now, once a frame; none if there was no change           *)
(* (RoundFreezetimeChanged, MatchStartedChanged, GamePhaseChanged).        *)
ChangesChain ==
  FrameEnded =>
    \A k \in {"freeze", "started", "phase"} :
      \/ Told(k) = {} /\ before[k] = entity[k]
      \/ /\ Once(k)
         /\ \A i \in Told(k) : log[i].e.old = before[k] /\ log[i].e.new = entity[k]
         /\ before[k] # entity[k] \/ fresh

(* A round that starts, be it with a match, is told of once, and so is one *)
(* that ends, with its reason; nothing else is told to be either.  What    *)
(* the entity is created with is not an end.                               *)
RoundsTold ==
  FrameEnded =>
    /\ mimic \/ ~fresh =>
         IF RoundStarted(before, entity) THEN Once("RoundStart") ELSE Told("RoundStart") = {}
    /\ IF RoundEnded(before, entity) /\ ~fresh THEN Once("RoundEnd") ELSE Told("RoundEnd") = {}
    /\ \A i \in Told("RoundEnd") : log[i].e.new = entity.reason

(* RoundEndOfficial comes once, before the start of a round, after one     *)
(* that ended; and it is not left out if rounds were counted.              *)
OfficialOnce ==
  FrameEnded =>
    /\ Told("RoundEndOfficial") # {} =>
         Once("RoundEndOfficial") /\ before.reason # 0 /\ Told("RoundStart") # {}
    /\ mimic => \A i \in Told("RoundEndOfficial"), j \in Told("RoundStart") : i < j
    /\ RoundStarted(before, entity) /\ before.played > 0 /\ entity.played > 0
         => Told("RoundEndOfficial") # {}

(* Who is told of a round's start sees the match it belongs to started;    *)
(* who is told of its end still sees the match of that round.              *)
MatchOfRound ==
  FrameEnded /\ mimic =>
    /\ \A i \in Told("RoundStart") : log[i].matchStarted = entity.started
    /\ \A i \in Told("RoundEnd") : log[i].matchStarted = before.started
===============================================================================
