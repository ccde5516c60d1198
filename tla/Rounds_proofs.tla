----------------------------- MODULE Rounds_proofs -----------------------------
(***************************************************************************)
(* What the users of the parser are told of the rounds (Rounds), proved    *)
(* for every number of rounds, every reason and every phase.               *)
(*                                                                         *)
(* None of the properties is inductive: each is about a frame that has     *)
(* ended.  IInv says what they come from while the frame is read: how far  *)
(* the entity has got from its last state to the server's (EntityInv),     *)
(* what the handlers keep of it (StateInv), which events wait for the end  *)
(* of the frame (PendingInv) and which have been dispatched (LogInv,       *)
(* OfficialInv, MatchInv).  A handler is a function of states: for each    *)
(* there is a lemma that says which state it makes of one with a game      *)
(* state g and a log l (the lemmas ...Is), and the events are counted with *)
(* Adds.                                                                   *)
(***************************************************************************)
EXTENDS Rounds, SequenceTheorems, TLAPS

(* The fields of the game state, the types of the events and their data. *)
Fields == {"exists", "firstUpdateOccurred", "isFreezetime", "isMatchStarted", "gamePhase",
           "totalRoundsPlayed", "lastRoundStartEvent", "lastFreezeTimeChangedEvent",
           "lastRoundEndEvent", "lastMatchStartedChangedEvent"}
Types == {"clear", "freeze", "started", "phase", "RoundStart", "RoundEnd", "RoundEndOfficial"}
Datum == BOOLEAN \cup Nat
Events == [t : Types, old : Datum, new : Datum]
Entries == [e : Events, matchStarted : BOOLEAN]

(* Where the events of a type are in a log; and that a log tells of e    *)
(* exactly once if c, and of nothing of its type if not.                 *)
At(l, t) == {i \in 1 .. Len(l) : l[i].e.t = t}
Tells(l, c, e) ==
  IF c THEN \E i \in 1 .. Len(l) : At(l, e.t) = {i} /\ l[i].e = e ELSE At(l, e.t) = {}
Maybe(c, e) == IF c THEN <<e>> ELSE None

(* The shape of the state; the log is one of well-formed events.         *)
TypeInv ==
  /\ mimic \in Mimics /\ server \in Props /\ entity \in Props /\ before \in Props
  /\ inFrame \in BOOLEAN /\ fresh \in BOOLEAN
  /\ due \subseteq {"round_start", "round_end", "round_officially_ended"}
  /\ log \in Seq(Entries)
  /\ gameState = [f \in Fields |-> gameState[f]]

(* A frame changes a property if it creates the entity or gives it another *)
(* value.                                                                  *)
Changed(k) == fresh \/ entity[k] # before[k]

(* The entity is between what it was and what the server has: each of its  *)
(* properties is one or the other, and at the end of the frame all are the *)
(* server's.                                                               *)
EntityInv ==
  /\ ~gameState.exists => /\ entity = NoEntity /\ before = NoEntity /\ due = {} /\ ~fresh
                          /\ log = << >>
  /\ gameState.exists /\ fresh => /\ before = NoEntity /\ entity = server /\ due = {}
  /\ gameState.exists /\ ~fresh =>
       /\ Possible(before, server)
       /\ \A k \in Keys : entity[k] \in {before[k], server[k]}
       /\ mimic => due = {}
       /\ due \subseteq GameEvents(before, server)
  /\ ~inFrame => entity = server /\ due = {}

(* The game state follows the entity at every update, but for the match, *)
(* which without game events is started only when the frame ends.        *)
StateInv ==
  /\ gameState.exists \in BOOLEAN
  /\ gameState.firstUpdateOccurred = gameState.exists
  /\ gameState.isFreezetime = entity.freeze
  /\ gameState.isMatchStarted = IF mimic /\ inFrame THEN before.started ELSE entity.started
  /\ gameState.gamePhase = entity.phase
  /\ gameState.totalRoundsPlayed = entity.played

(* Only mimic makes events wait, and only until the frame ends.          *)
Pending == mimic /\ inFrame /\ gameState.exists

(* Which events wait, and what they will tell.                           *)
PendingInv ==
  /\ gameState.lastRoundStartEvent =
       Maybe(Pending /\ RoundStarted(before, entity), Event("RoundStart", 0, 0))
  /\ gameState.lastRoundEndEvent =
       Maybe(Pending /\ ~fresh /\ RoundEnded(before, entity), Event("RoundEnd", 0, entity.reason))
  /\ gameState.lastFreezeTimeChangedEvent =
       Maybe(Pending /\ Changed("freeze"), Event("freeze", before.freeze, entity.freeze))
  /\ gameState.lastMatchStartedChangedEvent =
       Maybe(Pending /\ Changed("started"), Event("started", before.started, entity.started))

(* The game event of the server has come.                                *)
Came(name) == ~fresh /\ name \in GameEvents(before, server) \ due

(* What this frame has told of: the phase at once, the others when they no *)
(* longer wait; of each no more than one event.                            *)
LogInv ==
  gameState.exists =>
    /\ Tells(log, Changed("phase"), Event("phase", before.phase, entity.phase))
    /\ Tells(log, ~Pending /\ Changed("freeze"), Event("freeze", before.freeze, entity.freeze))
    /\ Tells(log, ~Pending /\ Changed("started"), Event("started", before.started, entity.started))
    /\ Tells(log, ~Pending /\ (IF mimic THEN RoundStarted(before, entity) ELSE Came("round_start")),
             Event("RoundStart", 0, 0))
    /\ Tells(log, ~Pending /\ (IF mimic THEN ~fresh /\ RoundEnded(before, entity)
                               ELSE Came("round_end")),
             Event("RoundEnd", 0, server.reason))

(* RoundEndOfficial was told of at most once, and only with the start of a *)
(* round after one that ended; it must have been if rounds were counted    *)
(* before and after.                                                       *)
OfficialInv ==
  gameState.exists =>
    \E c \in BOOLEAN :
      /\ Tells(log, c, Event("RoundEndOfficial", 0, 0))
      /\ IF mimic THEN /\ c => ~fresh /\ entity.reason = 0 /\ before.reason # 0
                       /\ /\ ~fresh /\ entity.reason = 0 /\ before.reason # 0
                          /\ before.played > 0 /\ server.played > 0
                          => c
         ELSE c <=> Came("round_officially_ended")

(* The order of the events, and the match their handlers saw.            *)
MatchInv ==
  gameState.exists /\ mimic =>
    /\ \A i \in At(log, "RoundEndOfficial"), j \in At(log, "RoundStart") : i < j
    /\ \A i \in At(log, "RoundStart") : log[i].matchStarted = entity.started
    /\ \A i \in At(log, "RoundEnd") : log[i].matchStarted = before.started

(* The inductive invariant.                                              *)
IInv ==
  TypeInv /\ EntityInv /\ StateInv /\ PendingInv /\ LogInv /\ OfficialInv /\ MatchInv

---------------------------------------------------------------------------
(* A log with one more event.                                            *)
LEMMA AtAppend ==
  ASSUME NEW l \in Seq(Entries), NEW x \in Entries, NEW t
  PROVE  /\ Append(l, x) \in Seq(Entries) /\ Len(Append(l, x)) = Len(l) + 1
         /\ At(Append(l, x), t) = IF x.e.t = t THEN At(l, t) \cup {Len(l) + 1} ELSE At(l, t)
         /\ \A i \in 1 .. Len(l) : Append(l, x)[i] = l[i]
         /\ Append(l, x)[Len(l) + 1] = x
<1> DEFINE more == Append(l, x)
<1>1. /\ Len(l) \in Nat
      /\ more \in Seq(Entries) /\ Len(more) = Len(l) + 1
      /\ \A i \in 1 .. Len(l) : more[i] = l[i]
      /\ more[Len(l) + 1] = x
  BY AppendProperties, LenProperties
<1> HIDE DEF more
<1>2. 1 .. Len(more) = (1 .. Len(l)) \cup {Len(l) + 1}
  BY <1>1
<1>3. At(more, t) = IF x.e.t = t THEN At(l, t) \cup {Len(l) + 1} ELSE At(l, t)
  BY <1>1, <1>2 DEF At
<1> QED
  BY <1>1, <1>3 DEF more

(* The log l with the event e if c; Adds is all that is needed of it: the *)
(* other types are told of as before, and e is told of if c, provided     *)
(* nothing of its type was.                                               *)
More(l, c, e, m) == IF c THEN Append(l, [e |-> e, matchStarted |-> m]) ELSE l

Adds(more, l, c, ev, m) ==
  /\ more \in Seq(Entries) /\ Len(l) \in Nat
  /\ \A t : t # ev.t => At(more, t) = At(l, t)
  /\ \A i \in 1 .. Len(l) : more[i] = l[i]
  /\ \A e, d : e.t # ev.t /\ Tells(l, d, e) => Tells(more, d, e)
  /\ Tells(l, FALSE, ev) =>
       /\ At(more, ev.t) = IF c THEN {Len(l) + 1} ELSE {}
       /\ c => more[Len(l) + 1] = [e |-> ev, matchStarted |-> m]
       /\ Tells(more, c, ev)

(* More adds its event, and only that.                                   *)
LEMMA OneMore ==
  ASSUME NEW l \in Seq(Entries), NEW c \in BOOLEAN, NEW ev \in Events, NEW m \in BOOLEAN
  PROVE  Adds(More(l, c, ev, m), l, c, ev, m)
<1> DEFINE x == [e |-> ev, matchStarted |-> m]
           more == More(l, c, ev, m)
<1>0. x \in Entries /\ x.e = ev /\ more = IF c THEN Append(l, x) ELSE l
  BY DEF Entries, More
<1> HIDE DEF x, more
<1>1. Len(l) \in Nat
  BY LenProperties
<1>2. CASE ~c
  BY <1>0, <1>1, <1>2 DEF Tells, more, Adds
<1>3. CASE c
  <2>1. /\ more \in Seq(Entries) /\ Len(more) = Len(l) + 1
        /\ \A t : At(more, t) = IF x.e.t = t THEN At(l, t) \cup {Len(l) + 1} ELSE At(l, t)
        /\ \A i \in 1 .. Len(l) : more[i] = l[i]
        /\ more[Len(l) + 1] = x
    BY <1>0, <1>3, AtAppend
  <2>2. ASSUME NEW e, NEW d, e.t # ev.t, Tells(l, d, e)
        PROVE  Tells(more, d, e)
    <3>1. At(more, e.t) = At(l, e.t)
      BY <1>0, <2>1, <2>2
    <3>2. ASSUME d PROVE Tells(more, d, e)
      <4>1. PICK i \in 1 .. Len(l) : At(l, e.t) = {i} /\ l[i].e = e
        BY <2>2, <3>2 DEF Tells
      <4>2. i \in 1 .. Len(more) /\ more[i].e = e
        BY <1>1, <2>1, <4>1
      <4> QED
        BY <3>1, <3>2, <4>1, <4>2 DEF Tells
    <3> QED
      BY <2>2, <3>1, <3>2 DEF Tells
  <2>3. ASSUME Tells(l, FALSE, ev)
        PROVE  At(more, ev.t) = {Len(l) + 1} /\ Tells(more, TRUE, ev)
    <3>1. At(more, ev.t) = {Len(l) + 1}
      BY <1>0, <2>1, <2>3 DEF Tells
    <3>2. Len(l) + 1 \in 1 .. Len(more)
      BY <1>1, <2>1
    <3> QED
      BY <1>0, <2>1, <3>1, <3>2 DEF Tells
  <2> QED
    BY <1>0, <1>1, <1>3, <2>1, <2>2, <2>3 DEF more, x, Adds
<1> QED
  BY <1>2, <1>3

---------------------------------------------------------------------------
(* A state of the handlers is made of a game state g and a log l; With   *)
(* gives a field of g another value.                                     *)
Shape(g) == g = [f \in Fields |-> g[f]]
St(g, l) == [gs |-> g, log |-> l]
Entry(g, e) == [e |-> e, matchStarted |-> g.isMatchStarted]
With(g, f, v) == [h \in Fields |-> IF h = f THEN v ELSE g[h]]

(* Set gives a field of the game state another value.                    *)
LEMMA SetIs ==
  ASSUME NEW g, Shape(g), NEW l, NEW f \in Fields, NEW v
  PROVE  /\ Set(St(g, l), f, v) = St(With(g, f, v), l)
         /\ Shape(With(g, f, v))
<1>1. [g EXCEPT ![f] = v] = With(g, f, v)
  BY DEF Shape, With
<1>2. Set(St(g, l), f, v) = St([g EXCEPT ![f] = v], l)
  BY DEF Set, St
<1> QED
  BY <1>1, <1>2 DEF Shape, With

(* Dispatch appends to the log what the handlers of the user see.        *)
LEMMA DispatchIs ==
  ASSUME NEW g, NEW l, NEW e
  PROVE  Dispatch(St(g, l), e) = St(g, Append(l, Entry(g, e)))
BY SMTT(60) DEF Dispatch, St, Entry

(* Flush dispatches the event that waits, if one does.                   *)
LEMMA FlushIs ==
  ASSUME NEW g, Shape(g), NEW l, NEW f \in Fields, NEW c \in BOOLEAN, NEW e,
         g[f] = Maybe(c, e)
  PROVE  Flush(St(g, l), f) = St(With(g, f, None), IF c THEN Append(l, Entry(g, e)) ELSE l)
<1>1. St(g, l).gs = g
  BY DEF St
<1>2. CASE c
  <2>1. g[f] # None /\ g[f][1] = e
    BY <1>2 DEF Maybe, None
  <2>2. Flush(St(g, l), f) = Set(Dispatch(St(g, l), e), f, None)
    BY <1>1, <2>1 DEF Flush
  <2>3. Dispatch(St(g, l), e) = St(g, Append(l, Entry(g, e)))
    BY DispatchIs
  <2>4. Set(St(g, Append(l, Entry(g, e))), f, None) = St(With(g, f, None), Append(l, Entry(g, e)))
    BY SetIs
  <2> QED
    BY <1>2, <2>2, <2>3, <2>4
<1>3. CASE ~c
  <2>1. g[f] = None
    BY <1>3 DEF Maybe
  <2>2. With(g, f, None) = g
    BY <2>1 DEF With, Shape
  <2> QED
    BY <1>1, <1>3, <2>1, <2>2 DEF Flush
<1> QED
  BY <1>2, <1>3

(* The match is started before its event is dispatched.                  *)
LEMMA FlushMatchStartedIs ==
  ASSUME NEW g, Shape(g), NEW l, NEW c \in BOOLEAN, NEW e,
         g.lastMatchStartedChangedEvent = Maybe(c, e)
  PROVE  FlushMatchStarted(St(g, l)) =
           St(With(With(g, "isMatchStarted", IF c THEN e.new ELSE g.isMatchStarted),
                   "lastMatchStartedChangedEvent", None),
              IF c THEN Append(l, [e |-> e, matchStarted |-> e.new]) ELSE l)
<1> DEFINE m == With(g, "isMatchStarted", IF c THEN e.new ELSE g.isMatchStarted)
<1>1. St(g, l).gs = g
  BY DEF St
<1>2. Shape(m) /\ m.lastMatchStartedChangedEvent = Maybe(c, e)
      /\ m.isMatchStarted = IF c THEN e.new ELSE g.isMatchStarted
  BY DEF Shape, With, Fields
<1>3. "isMatchStarted" \in Fields /\ "lastMatchStartedChangedEvent" \in Fields
  BY DEF Fields
<1>4. CASE c
  <2>1. g.lastMatchStartedChangedEvent # None /\ g.lastMatchStartedChangedEvent[1] = e
    BY <1>4 DEF Maybe, None
  <2>2. FlushMatchStarted(St(g, l)) =
          Flush(Set(St(g, l), "isMatchStarted", e.new), "lastMatchStartedChangedEvent")
    BY <1>1, <2>1 DEF FlushMatchStarted
  <2>3. Set(St(g, l), "isMatchStarted", e.new) = St(m, l)
    BY <1>3, <1>4, SetIs
  <2> HIDE DEF m
  <2>4. Flush(St(m, l), "lastMatchStartedChangedEvent") =
          St(With(m, "lastMatchStartedChangedEvent", None), Append(l, Entry(m, e)))
    <3>1. m["lastMatchStartedChangedEvent"] = Maybe(c, e) /\ c \in BOOLEAN
      BY <1>2
    <3>2. Flush(St(m, l), "lastMatchStartedChangedEvent") =
            St(With(m, "lastMatchStartedChangedEvent", None),
               IF c THEN Append(l, Entry(m, e)) ELSE l)
      BY <1>2, <1>3, <3>1, FlushIs
    <3> QED
      BY <1>4, <3>2
  <2>5. Entry(m, e) = [e |-> e, matchStarted |-> e.new]
    BY <1>2, <1>4 DEF Entry
  <2> QED
    BY <1>4, <2>2, <2>3, <2>4, <2>5 DEF m
<1>5. CASE ~c
  <2>1. g.lastMatchStartedChangedEvent = None
    BY <1>5 DEF Maybe
  <2>2. With(m, "lastMatchStartedChangedEvent", None) = g
    BY <1>5, <2>1 DEF With, Shape, Fields
  <2> QED
    BY <1>1, <1>5, <2>1, <2>2 DEF FlushMatchStarted
<1> QED
  BY <1>4, <1>5

---------------------------------------------------------------------------
(* The events of a frame, and the log after each step of                 *)
(* processRoundProgressEvents: the start of a round comes after that of  *)
(* its match, which else comes last.                                     *)
StartEvent == Event("RoundStart", 0, 0)
EndEvent == Event("RoundEnd", 0, entity.reason)
FreezeEvent == Event("freeze", before.freeze, entity.freeze)
StartedEvent == Event("started", before.started, entity.started)

Starts == RoundStarted(before, entity)
Ends == ~fresh /\ RoundEnded(before, entity)
SeenStarted == IF Starts THEN entity.started ELSE before.started

Log1 == More(log, Starts /\ Changed("started"), StartedEvent, entity.started)
Log2 == More(Log1, Starts, StartEvent, SeenStarted)
Log3 == More(Log2, Changed("freeze"), FreezeEvent, SeenStarted)
Log4 == More(Log3, Ends, EndEvent, SeenStarted)
Log5 == More(Log4, ~Starts /\ Changed("started"), StartedEvent, entity.started)

(* The conditions on which events wait are Booleans.                     *)
LEMMA BooleanFacts ==
  ASSUME TypeInv
  PROVE  /\ \A k : Changed(k) \in BOOLEAN
         /\ Starts \in BOOLEAN /\ Ends \in BOOLEAN
BY DEF TypeInv, Changed, Starts, Ends, RoundStarted, RoundEnded

(* processRoundProgressEvents tells of all that waits, in the order of   *)
(* Log5, and leaves nothing waiting.                                     *)
LEMMA ProcessIs ==
  ASSUME TypeInv, Pending, EntityInv, StateInv, PendingInv
  PROVE  \E g : /\ Shape(g)
                /\ ProcessRoundProgressEvents(St(gameState, log)) = St(g, Log5)
                /\ \A f \in Fields \ {"isMatchStarted", "lastRoundStartEvent",
                        "lastRoundEndEvent", "lastFreezeTimeChangedEvent",
                        "lastMatchStartedChangedEvent"} : g[f] = gameState[f]
                /\ g.isMatchStarted = entity.started
                /\ g.lastRoundStartEvent = None /\ g.lastRoundEndEvent = None
                /\ g.lastFreezeTimeChangedEvent = None
                /\ g.lastMatchStartedChangedEvent = None
<1> DEFINE s == Changed("started")
           r == Starts
           f == Changed("freeze")
           e == Ends
           g0 == gameState
           m1 == IF s THEN entity.started ELSE before.started
           g1 == IF r THEN With(With(g0, "isMatchStarted", m1), "lastMatchStartedChangedEvent", None)
                 ELSE g0
           g2 == With(g1, "lastRoundStartEvent", None)
           g3 == With(g2, "lastFreezeTimeChangedEvent", None)
           g4 == With(g3, "lastRoundEndEvent", None)
           m5 == IF ~r /\ s THEN entity.started ELSE SeenStarted
           g5 == With(With(g4, "isMatchStarted", m5), "lastMatchStartedChangedEvent", None)
           S0 == St(g0, log)
           S1 == IF S0.gs.lastRoundStartEvent # None THEN FlushMatchStarted(S0) ELSE S0
           S2 == Flush(S1, "lastRoundStartEvent")
           S3 == Flush(S2, "lastFreezeTimeChangedEvent")
           S4 == Flush(S3, "lastRoundEndEvent")
           S5 == FlushMatchStarted(S4)
<1>0. /\ s \in BOOLEAN /\ r \in BOOLEAN /\ f \in BOOLEAN /\ e \in BOOLEAN
  BY BooleanFacts
<1>1. /\ Shape(g0)
      /\ g0.lastRoundStartEvent = Maybe(r, StartEvent)
      /\ g0.lastRoundEndEvent = Maybe(e, EndEvent)
      /\ g0.lastFreezeTimeChangedEvent = Maybe(f, FreezeEvent)
      /\ g0.lastMatchStartedChangedEvent = Maybe(s, StartedEvent)
      /\ g0.isMatchStarted = before.started
  <2>1. Shape(g0) /\ g0.isMatchStarted = before.started
    BY DEF TypeInv, Shape, Pending, StateInv
  <2> QED
    BY <2>1 DEF PendingInv, Maybe, Starts, Ends, StartEvent, EndEvent, FreezeEvent, StartedEvent
<1>2. ~s => entity.started = before.started
  BY DEF Changed
<1>3. StartedEvent.new = entity.started
  BY DEF StartedEvent, Event
<1>4. ProcessRoundProgressEvents(S0) = S5
  BY DEF ProcessRoundProgressEvents
<1>5. m1 = entity.started /\ m5 = entity.started
  BY <1>2 DEF SeenStarted
<1>6. /\ S1 = St(g1, Log1) /\ Shape(g1) /\ g1.isMatchStarted = SeenStarted
      /\ g1.lastMatchStartedChangedEvent = Maybe(~r /\ s, StartedEvent)
      /\ \A h \in Fields \ {"isMatchStarted", "lastMatchStartedChangedEvent"} : g1[h] = g0[h]
  <2>1. S0.gs = g0
    BY DEF St
  <2>2. CASE r
    <3>1. S1 = FlushMatchStarted(S0)
      BY <1>1, <2>1, <2>2 DEF Maybe, None
    <3>2. FlushMatchStarted(St(g0, log)) =
            St(With(With(g0, "isMatchStarted", IF s THEN StartedEvent.new ELSE g0.isMatchStarted),
                    "lastMatchStartedChangedEvent", None),
               IF s THEN Append(log, [e |-> StartedEvent, matchStarted |-> StartedEvent.new])
                    ELSE log)
      BY <1>0, <1>1, FlushMatchStartedIs
    <3>3. Log1 = IF s THEN Append(log, [e |-> StartedEvent, matchStarted |-> entity.started]) ELSE log
      BY <2>2 DEF Log1, More
    <3>4. S1 = St(g1, Log1)
      BY <1>1, <1>3, <2>2, <3>1, <3>2, <3>3
    <3>5. /\ Shape(g1) /\ g1.isMatchStarted = m1
          /\ g1.lastMatchStartedChangedEvent = None
          /\ \A h \in Fields \ {"isMatchStarted", "lastMatchStartedChangedEvent"} : g1[h] = g0[h]
      BY <2>2 DEF Shape, With, Fields
    <3> QED
      BY <1>5, <2>2, <3>4, <3>5 DEF SeenStarted, Maybe
  <2>3. CASE ~r
    <3>1. S1 = S0
      BY <1>1, <2>1, <2>3 DEF Maybe
    <3>2. Log1 = log
      BY <2>3 DEF Log1, More
    <3> QED
      BY <1>1, <2>3, <3>1, <3>2 DEF SeenStarted, Maybe
  <2> QED
    BY <1>0, <2>2, <2>3
<1>7. /\ S2 = St(g2, Log2) /\ Shape(g2)
      /\ \A h \in Fields \ {"lastRoundStartEvent"} : g2[h] = g1[h]
  <2> HIDE DEF r, g1, S1
  <2>1. "lastRoundStartEvent" \in Fields
    BY DEF Fields
  <2>2. g1["lastRoundStartEvent"] = Maybe(r, StartEvent)
    BY <1>1, <1>6 DEF Fields
  <2>3. Flush(St(g1, Log1), "lastRoundStartEvent") =
          St(g2, IF r THEN Append(Log1, Entry(g1, StartEvent)) ELSE Log1)
    BY <1>0, <1>6, <2>1, <2>2, FlushIs
  <2>4. Log2 = IF r THEN Append(Log1, Entry(g1, StartEvent)) ELSE Log1
    BY <1>6 DEF Log2, More, Entry, r
  <2> QED
    BY <1>6, <2>3, <2>4 DEF Shape, With
<1>8. /\ S3 = St(g3, Log3) /\ Shape(g3)
      /\ \A h \in Fields \ {"lastFreezeTimeChangedEvent"} : g3[h] = g2[h]
  <2> HIDE DEF f, g1, g2, S2
  <2>1. "lastFreezeTimeChangedEvent" \in Fields
    BY DEF Fields
  <2>2. g2["lastFreezeTimeChangedEvent"] = Maybe(f, FreezeEvent) /\ g2.isMatchStarted = SeenStarted
    BY <1>1, <1>6, <1>7 DEF Fields
  <2>3. Flush(St(g2, Log2), "lastFreezeTimeChangedEvent") =
          St(g3, IF f THEN Append(Log2, Entry(g2, FreezeEvent)) ELSE Log2)
    BY <1>0, <1>7, <2>1, <2>2, FlushIs
  <2>4. Log3 = IF f THEN Append(Log2, Entry(g2, FreezeEvent)) ELSE Log2
    BY <2>2 DEF Log3, More, Entry, f
  <2> QED
    BY <1>7, <2>3, <2>4 DEF Shape, With
<1>9. /\ S4 = St(g4, Log4) /\ Shape(g4)
      /\ \A h \in Fields \ {"lastRoundEndEvent"} : g4[h] = g3[h]
  <2> HIDE DEF e, g1, g2, g3, S3
  <2>1. "lastRoundEndEvent" \in Fields
    BY DEF Fields
  <2>2. g3["lastRoundEndEvent"] = Maybe(e, EndEvent) /\ g3.isMatchStarted = SeenStarted
    BY <1>1, <1>6, <1>7, <1>8 DEF Fields
  <2>3. Flush(St(g3, Log3), "lastRoundEndEvent") =
          St(g4, IF e THEN Append(Log3, Entry(g3, EndEvent)) ELSE Log3)
    BY <1>0, <1>8, <2>1, <2>2, FlushIs
  <2>4. Log4 = IF e THEN Append(Log3, Entry(g3, EndEvent)) ELSE Log3
    BY <2>2 DEF Log4, More, Entry, e
  <2> QED
    BY <1>8, <2>3, <2>4 DEF Shape, With
<1>10. S5 = St(g5, Log5)
  <2> DEFINE c == ~r /\ s
  <2> HIDE DEF g1, g2, g3, g4, S4
  <2>1. g4.lastMatchStartedChangedEvent = Maybe(c, StartedEvent) /\ g4.isMatchStarted = SeenStarted
    BY <1>1, <1>6, <1>7, <1>8, <1>9 DEF Fields
  <2>2. c \in BOOLEAN
    OBVIOUS
  <2>3. Log5 = IF c THEN Append(Log4, [e |-> StartedEvent, matchStarted |-> StartedEvent.new]) ELSE Log4
    BY <1>3 DEF Log5, More
  <2>4. m5 = IF c THEN StartedEvent.new ELSE g4.isMatchStarted
    BY <1>3, <2>1
  <2> HIDE DEF c
  <2>5. FlushMatchStarted(St(g4, Log4)) =
          St(With(With(g4, "isMatchStarted", IF c THEN StartedEvent.new ELSE g4.isMatchStarted),
                  "lastMatchStartedChangedEvent", None),
             IF c THEN Append(Log4, [e |-> StartedEvent, matchStarted |-> StartedEvent.new]) ELSE Log4)
    BY <1>9, <2>1, <2>2, FlushMatchStartedIs
  <2> QED
    BY <1>9, <2>3, <2>4, <2>5
<1>11. /\ g4.lastRoundStartEvent = None /\ g4.lastRoundEndEvent = None
       /\ g4.lastFreezeTimeChangedEvent = None
       /\ \A h \in Fields \ {"isMatchStarted", "lastRoundStartEvent",
                        "lastRoundEndEvent", "lastFreezeTimeChangedEvent",
                        "lastMatchStartedChangedEvent"} : g4[h] = g0[h]
  <2>1. g2.lastRoundStartEvent = None /\ g3.lastFreezeTimeChangedEvent = None
        /\ g4.lastRoundEndEvent = None
    BY DEF With, Fields
  <2> HIDE DEF g0, g1, g2, g3, g4
  <2> QED
    BY <1>6, <1>7, <1>8, <1>9, <2>1 DEF Fields
<1> HIDE DEF g4, m5
<1>12. /\ Shape(g5) /\ g5.isMatchStarted = entity.started
       /\ g5.lastMatchStartedChangedEvent = None
       /\ \A h \in Fields \ {"isMatchStarted", "lastMatchStartedChangedEvent"} : g5[h] = g4[h]
  BY <1>5 DEF Shape, With, Fields
<1> HIDE DEF g5, S5
<1> QED
  BY <1>4, <1>10, <1>11, <1>12 DEF Fields

(* The two other events of a frame.                                      *)
PhaseEvent == Event("phase", before.phase, entity.phase)
OfficialEvent == Event("RoundEndOfficial", 0, 0)

(* The events are well-formed and of the types of their names.           *)
LEMMA EventsTyped ==
  ASSUME TypeInv
  PROVE  /\ PhaseEvent \in Events /\ FreezeEvent \in Events /\ StartedEvent \in Events
         /\ StartEvent \in Events /\ EndEvent \in Events /\ OfficialEvent \in Events
         /\ PhaseEvent.t = "phase" /\ FreezeEvent.t = "freeze" /\ StartedEvent.t = "started"
         /\ StartEvent.t = "RoundStart" /\ EndEvent.t = "RoundEnd"
         /\ OfficialEvent.t = "RoundEndOfficial"
         /\ before.started \in BOOLEAN /\ entity.started \in BOOLEAN /\ SeenStarted \in BOOLEAN
<1>1. /\ before.freeze \in BOOLEAN /\ entity.freeze \in BOOLEAN
      /\ before.started \in BOOLEAN /\ entity.started \in BOOLEAN
      /\ before.phase \in Nat /\ entity.phase \in Nat
      /\ entity.reason \in Nat
  BY RoundsAssumption DEF TypeInv, Props
<1> QED
  BY <1>1 DEF PhaseEvent, FreezeEvent, StartedEvent, StartEvent, EndEvent, OfficialEvent,
              Event, Events, Types, Datum, SeenStarted

(* What a frame has told of after processRoundProgressEvents: each change *)
(* and each round that started or ended once, in the order and with the   *)
(* match that their handlers rely on.                                     *)
LEMMA ToldAtEnd ==
  ASSUME TypeInv, Pending, LogInv, NEW c \in BOOLEAN, Tells(log, c, OfficialEvent)
  PROVE  /\ Log5 \in Seq(Entries)
         /\ Tells(Log5, Changed("phase"), PhaseEvent)
         /\ Tells(Log5, Changed("freeze"), FreezeEvent)
         /\ Tells(Log5, Changed("started"), StartedEvent)
         /\ Tells(Log5, Starts, StartEvent)
         /\ Tells(Log5, Ends, EndEvent)
         /\ Tells(Log5, c, OfficialEvent)
         /\ \A i \in At(Log5, "RoundEndOfficial"), j \in At(Log5, "RoundStart") : i < j
         /\ \A i \in At(Log5, "RoundStart") : Log5[i].matchStarted = entity.started
         /\ \A i \in At(Log5, "RoundEnd") : Log5[i].matchStarted = before.started
<1> DEFINE c1 == Starts /\ Changed("started")
           c5 == ~Starts /\ Changed("started")
<1>2. /\ log \in Seq(Entries)
      /\ Tells(log, Changed("phase"), PhaseEvent) /\ Tells(log, FALSE, FreezeEvent)
      /\ Tells(log, FALSE, StartedEvent) /\ Tells(log, FALSE, StartEvent)
      /\ Tells(log, FALSE, EndEvent)
  <2>1. gameState.exists /\ log \in Seq(Entries)
    BY DEF TypeInv, Pending
  <2>2. /\ Tells(log, ~Pending /\ Changed("freeze"), FreezeEvent)
        /\ Tells(log, ~Pending /\ Changed("started"), StartedEvent)
        /\ At(log, "RoundStart") = {} /\ At(log, "RoundEnd") = {}
        /\ Tells(log, Changed("phase"), PhaseEvent)
    BY <2>1 DEF LogInv, FreezeEvent, StartedEvent, PhaseEvent, Tells, Event
  <2> QED
    BY <2>1, <2>2, EventsTyped DEF Tells
<1>3. /\ c1 \in BOOLEAN /\ c5 \in BOOLEAN /\ Starts \in BOOLEAN /\ Ends \in BOOLEAN
      /\ Changed("freeze") \in BOOLEAN /\ Changed("started") \in BOOLEAN
  BY BooleanFacts
<1>4. /\ Log1 = More(log, c1, StartedEvent, entity.started)
      /\ Log2 = More(Log1, Starts, StartEvent, SeenStarted)
      /\ Log3 = More(Log2, Changed("freeze"), FreezeEvent, SeenStarted)
      /\ Log4 = More(Log3, Ends, EndEvent, SeenStarted)
      /\ Log5 = More(Log4, c5, StartedEvent, entity.started)
  BY DEF Log1, Log2, Log3, Log4, Log5
<1> HIDE DEF c1, c5
<1>6. /\ Log1 \in Seq(Entries) /\ Len(log) \in Nat
      /\ \A t : t # "started" => At(Log1, t) = At(log, t)
      /\ \A e, d : e.t # "started" /\ Tells(log, d, e) => Tells(Log1, d, e)
      /\ Tells(Log1, c1, StartedEvent)
  <2>1. Adds(Log1, log, c1, StartedEvent, entity.started)
    BY <1>2, <1>3, <1>4, OneMore, EventsTyped
  <2> QED
    BY <1>2, <2>1, EventsTyped DEF Adds
<1>7. /\ Log2 \in Seq(Entries) /\ Len(Log1) \in Nat
      /\ \A t : t # "RoundStart" => At(Log2, t) = At(Log1, t)
      /\ \A e, d : e.t # "RoundStart" /\ Tells(Log1, d, e) => Tells(Log2, d, e)
      /\ At(Log2, "RoundStart") = IF Starts THEN {Len(Log1) + 1} ELSE {}
      /\ Starts => Log2[Len(Log1) + 1] = [e |-> StartEvent, matchStarted |-> SeenStarted]
      /\ Tells(Log2, Starts, StartEvent)
  <2>1. Tells(Log1, FALSE, StartEvent)
    BY <1>2, <1>6, EventsTyped
  <2>2. Adds(Log2, Log1, Starts, StartEvent, SeenStarted)
    BY <1>3, <1>4, <1>6, OneMore, EventsTyped
  <2> QED
    BY <2>1, <2>2, EventsTyped DEF Adds
<1>8. /\ Log3 \in Seq(Entries) /\ Len(Log2) \in Nat
      /\ \A t : t # "freeze" => At(Log3, t) = At(Log2, t)
      /\ \A e, d : e.t # "freeze" /\ Tells(Log2, d, e) => Tells(Log3, d, e)
      /\ \A i \in 1 .. Len(Log2) : Log3[i] = Log2[i]
      /\ Tells(Log3, Changed("freeze"), FreezeEvent)
  <2>1. Tells(Log2, FALSE, FreezeEvent)
    BY <1>2, <1>6, <1>7, EventsTyped
  <2>2. Adds(Log3, Log2, Changed("freeze"), FreezeEvent, SeenStarted)
    BY <1>3, <1>4, <1>7, OneMore, EventsTyped
  <2> QED
    BY <2>1, <2>2, EventsTyped DEF Adds
<1>9. /\ Log4 \in Seq(Entries) /\ Len(Log3) \in Nat
      /\ \A t : t # "RoundEnd" => At(Log4, t) = At(Log3, t)
      /\ \A e, d : e.t # "RoundEnd" /\ Tells(Log3, d, e) => Tells(Log4, d, e)
      /\ \A i \in 1 .. Len(Log3) : Log4[i] = Log3[i]
      /\ At(Log4, "RoundEnd") = IF Ends THEN {Len(Log3) + 1} ELSE {}
      /\ Ends => Log4[Len(Log3) + 1] = [e |-> EndEvent, matchStarted |-> SeenStarted]
      /\ Tells(Log4, Ends, EndEvent)
  <2>1. Tells(Log3, FALSE, EndEvent)
    BY <1>2, <1>6, <1>7, <1>8, EventsTyped
  <2>2. Adds(Log4, Log3, Ends, EndEvent, SeenStarted)
    BY <1>3, <1>4, <1>8, OneMore, EventsTyped
  <2> QED
    BY <2>1, <2>2, EventsTyped DEF Adds
<1>10. Tells(Log4, c1, StartedEvent)
  BY <1>6, <1>7, <1>8, <1>9, EventsTyped
<1>11. /\ Log5 \in Seq(Entries) /\ Len(Log4) \in Nat
       /\ \A t : t # "started" => At(Log5, t) = At(Log4, t)
       /\ \A e, d : e.t # "started" /\ Tells(Log4, d, e) => Tells(Log5, d, e)
       /\ \A i \in 1 .. Len(Log4) : Log5[i] = Log4[i]
  <2>1. Adds(Log5, Log4, c5, StartedEvent, entity.started)
    BY <1>3, <1>4, <1>9, OneMore, EventsTyped
  <2> QED
    BY <2>1, EventsTyped DEF Adds
<1>12. Tells(Log5, Changed("started"), StartedEvent)
  <2>1. CASE Starts
    <3>1. Log5 = Log4 /\ c1 = Changed("started")
      BY <1>3, <1>4, <2>1 DEF c1, c5, More
    <3> QED
      BY <1>10, <3>1
  <2>2. CASE ~Starts
    <3>1. c1 = FALSE /\ c5 = Changed("started")
      BY <1>3, <2>2 DEF c1, c5
    <3>2. Tells(Log4, FALSE, StartedEvent)
      BY <1>10, <3>1
    <3> QED
      <4>1. Adds(Log5, Log4, c5, StartedEvent, entity.started)
        BY <1>3, <1>4, <1>9, OneMore, EventsTyped
      <4> QED
        BY <3>1, <3>2, <4>1 DEF Adds
  <2> QED
    BY <2>1, <2>2
<1>13. /\ Tells(Log5, Changed("phase"), PhaseEvent) /\ Tells(Log5, c, OfficialEvent)
  BY <1>2, <1>6, <1>7, <1>8, <1>9, <1>11, EventsTyped
<1>14. /\ Tells(Log5, Starts, StartEvent) /\ Tells(Log5, Ends, EndEvent)
       /\ Tells(Log5, Changed("freeze"), FreezeEvent)
  BY <1>7, <1>8, <1>9, <1>11, EventsTyped
<1>15. /\ At(Log5, "RoundEndOfficial") = At(Log1, "RoundEndOfficial")
       /\ At(Log5, "RoundStart") = At(Log2, "RoundStart")
       /\ At(Log5, "RoundEnd") = At(Log4, "RoundEnd")
  BY <1>7, <1>8, <1>9, <1>11
<1>16. \A i \in At(Log5, "RoundEndOfficial"), j \in At(Log5, "RoundStart") : i < j
  <2>1. \A i \in At(Log1, "RoundEndOfficial") : i \in 1 .. Len(Log1)
    BY DEF At
  <2> QED
    BY <1>7, <1>15, <2>1
<1>17. \A l, t : \A i \in At(l, t) : i \in 1 .. Len(l)
  BY DEF At
<1>18. ASSUME NEW i \in At(Log5, "RoundStart") PROVE Log5[i].matchStarted = entity.started
  <2>1. Starts /\ i = Len(Log1) + 1 /\ Log2[i] = [e |-> StartEvent, matchStarted |-> SeenStarted]
    BY <1>3, <1>7, <1>15, <1>18
  <2>2. /\ i \in At(Log2, "RoundStart") /\ i \in At(Log3, "RoundStart")
        /\ i \in At(Log4, "RoundStart")
    BY <1>8, <1>9, <1>15, <1>18
  <2>3. i \in 1 .. Len(Log2) /\ i \in 1 .. Len(Log3) /\ i \in 1 .. Len(Log4)
    BY <1>17, <2>2
  <2>4. Log5[i] = [e |-> StartEvent, matchStarted |-> SeenStarted]
    BY <1>8, <1>9, <1>11, <2>1, <2>3
  <2> QED
    BY <2>1, <2>4 DEF SeenStarted
<1>19. ASSUME NEW i \in At(Log5, "RoundEnd") PROVE Log5[i].matchStarted = before.started
  <2>1. Ends /\ i = Len(Log3) + 1 /\ Log4[i] = [e |-> EndEvent, matchStarted |-> SeenStarted]
    BY <1>3, <1>9, <1>15, <1>19
  <2>2. i \in 1 .. Len(Log4)
    BY <1>15, <1>17, <1>19
  <2>3. Log5[i] = [e |-> EndEvent, matchStarted |-> SeenStarted]
    BY <1>11, <2>1, <2>2
  <2>4. ~Starts
    BY <2>1 DEF Ends, Starts, RoundEnded, RoundStarted
  <2> QED
    BY <2>3, <2>4 DEF SeenStarted
<1> QED
  BY <1>11, <1>12, <1>13, <1>14, <1>16, <1>18, <1>19

---------------------------------------------------------------------------
(* An empty log tells of nothing.                                        *)
LEMMA NothingTold ==
  ASSUME NEW e
  PROVE  Tells(<< >>, FALSE, e) /\ << >> \in Seq(Entries)
BY DEF Tells, At

(* The invariant holds at the start.                                     *)
LEMMA InitInv == Init => IInv
<1> SUFFICES ASSUME Init PROVE IInv
  OBVIOUS
<1>1. NoEntity \in Props
  BY RoundsAssumption DEF NoEntity, Props
<1>2. TypeInv
  <2>1. gameState = [f \in Fields |-> gameState[f]]
    BY DEF Init, Fields
  <2> QED
    BY <1>1, <2>1, NothingTold DEF Init, TypeInv
<1>3. ~gameState.exists /\ ~inFrame /\ gameState.exists \in BOOLEAN
  BY DEF Init
<1>4. EntityInv
  BY <1>3 DEF Init, EntityInv
<1>5. StateInv
  BY DEF Init, StateInv, NoEntity
<1>6. PendingInv
  BY <1>3 DEF Init, PendingInv, Pending, Maybe
<1> QED
  BY <1>2, <1>3, <1>4, <1>5, <1>6 DEF IInv, LogInv, OfficialInv, MatchInv

(* A frame begins: nothing has changed yet, nothing waits and nothing was *)
(* told of.                                                               *)
LEMMA TickInv ==
  ASSUME IInv, Tick
  PROVE  IInv'
<1>1. TypeInv'
  <2>1. GameEvents(entity, server') \subseteq {"round_start", "round_end", "round_officially_ended"}
    BY DEF GameEvents
  <2> QED
    BY <2>1, NothingTold DEF IInv, TypeInv, Tick
<1>2. EntityInv'
  BY DEF IInv, TypeInv, EntityInv, Tick
<1>3. StateInv'
  BY DEF IInv, StateInv, Tick
<1>4. /\ gameState' = gameState /\ log' = << >> /\ entity' = entity /\ before' = entity
      /\ fresh' = FALSE /\ mimic' = mimic /\ inFrame' = TRUE
  BY DEF Tick
<1>5. /\ ~Changed("phase")' /\ ~Changed("freeze")' /\ ~Changed("started")'
      /\ ~RoundStarted(before, entity)' /\ ~RoundEnded(before, entity)'
  BY <1>4 DEF Changed, RoundStarted, RoundEnded
<1>6. PendingInv'
  <2>1. PendingInv /\ ~Pending
    BY DEF IInv, Tick, Pending
  <2> QED
    BY <1>4, <1>5, <2>1 DEF PendingInv, Maybe
<1>7. gameState.exists /\ ~mimic => \A name : ~Came(name)'
  BY DEF Tick, Came
<1>8. \A e : Tells(log', FALSE, e)
  BY <1>4, NothingTold
<1>9. \A t : At(log', t) = {}
  BY <1>8 DEF Tells, Event, At
<1>10. LogInv'
  <2>1. ASSUME gameState'.exists, mimic
        PROVE  LogInv'
    <3>1. Pending'
      BY <1>4, <2>1 DEF Pending
    <3> QED
      BY <1>4, <1>5, <1>8, <2>1, <3>1 DEF LogInv, Tells
  <2>2. ASSUME gameState'.exists, ~mimic
        PROVE  LogInv'
    BY <1>4, <1>5, <1>7, <1>8, <2>2 DEF LogInv, Tells
  <2> QED
    BY <2>1, <2>2 DEF LogInv
<1>11. OfficialInv'
  <2>1. gameState'.exists /\ ~mimic' => ~Came("round_officially_ended")'
    BY <1>4, <1>7
  <2>2. mimic' => ~(entity'.reason = 0 /\ before'.reason # 0)
    BY <1>4
  <2> QED
    BY <1>8, <2>1, <2>2 DEF OfficialInv
<1>12. MatchInv'
  BY <1>9 DEF MatchInv
<1> QED
  BY <1>1, <1>2, <1>3, <1>6, <1>10, <1>11, <1>12 DEF IInv

(* A frame ends: with mimic all that waits is told of.                   *)
LEMMA EndFrameInv ==
  ASSUME IInv, EndFrame
  PROVE  IInv'
<1>1. /\ inFrame /\ gameState.exists /\ entity = server /\ due = {} /\ inFrame' = FALSE
      /\ mimic' = mimic /\ server' = server /\ entity' = entity /\ before' = before
      /\ due' = due /\ fresh' = fresh
  BY DEF EndFrame
<1>2. /\ TypeInv /\ EntityInv /\ StateInv /\ PendingInv /\ LogInv /\ OfficialInv /\ MatchInv
  BY DEF IInv
<1>3. PICK c \in BOOLEAN :
        /\ Tells(log, c, OfficialEvent)
        /\ IF mimic THEN /\ c => ~fresh /\ entity.reason = 0 /\ before.reason # 0
                         /\ /\ ~fresh /\ entity.reason = 0 /\ before.reason # 0
                            /\ before.played > 0 /\ server.played > 0
                            => c
           ELSE c <=> Came("round_officially_ended")
  BY <1>1, <1>2 DEF OfficialInv, OfficialEvent
<1>4. CASE mimic
  <2>1. Pending
    BY <1>1, <1>4 DEF Pending
  <2>2. PICK g : /\ Shape(g)
                 /\ ProcessRoundProgressEvents(St(gameState, log)) = St(g, Log5)
                 /\ \A f \in Fields \ {"isMatchStarted", "lastRoundStartEvent",
                         "lastRoundEndEvent", "lastFreezeTimeChangedEvent",
                         "lastMatchStartedChangedEvent"} : g[f] = gameState[f]
                 /\ g.isMatchStarted = entity.started
                 /\ g.lastRoundStartEvent = None /\ g.lastRoundEndEvent = None
                 /\ g.lastFreezeTimeChangedEvent = None
                 /\ g.lastMatchStartedChangedEvent = None
    BY <1>2, <2>1, ProcessIs
  <2>3. gameState' = g /\ log' = Log5
    BY <1>4, <2>2 DEF EndFrame, Becomes, St
  <2>4. /\ g.exists = gameState.exists /\ g.firstUpdateOccurred = gameState.firstUpdateOccurred
        /\ g.isFreezetime = gameState.isFreezetime /\ g.gamePhase = gameState.gamePhase
        /\ g.totalRoundsPlayed = gameState.totalRoundsPlayed
    BY <2>2 DEF Fields
  <2>5. ~Pending' /\ mimic' /\ gameState'.exists
    BY <1>1, <1>4, <2>3, <2>4 DEF Pending
  <2>6. /\ Log5 \in Seq(Entries)
        /\ Tells(Log5, Changed("phase"), PhaseEvent)
        /\ Tells(Log5, Changed("freeze"), FreezeEvent)
        /\ Tells(Log5, Changed("started"), StartedEvent)
        /\ Tells(Log5, Starts, StartEvent)
        /\ Tells(Log5, Ends, EndEvent)
        /\ Tells(Log5, c, OfficialEvent)
        /\ \A i \in At(Log5, "RoundEndOfficial"), j \in At(Log5, "RoundStart") : i < j
        /\ \A i \in At(Log5, "RoundStart") : Log5[i].matchStarted = entity.started
        /\ \A i \in At(Log5, "RoundEnd") : Log5[i].matchStarted = before.started
    BY <1>2, <1>3, <2>1, ToldAtEnd
  <2>7. TypeInv'
    BY <1>1, <1>2, <2>2, <2>3, <2>6 DEF TypeInv, Shape
  <2>8. EntityInv'
    BY <1>1, <1>2, <2>3, <2>4 DEF EntityInv
  <2>9. StateInv'
    BY <1>1, <1>2, <2>2, <2>3, <2>4 DEF StateInv
  <2>10. PendingInv'
    BY <2>2, <2>3, <2>5 DEF PendingInv, Maybe
  <2>11. /\ Changed("phase")' = Changed("phase") /\ Changed("freeze")' = Changed("freeze")
         /\ Changed("started")' = Changed("started")
         /\ RoundStarted(before, entity)' = Starts /\ (~fresh /\ RoundEnded(before, entity))' = Ends
    BY <1>1 DEF Changed, Starts, Ends, RoundStarted, RoundEnded
  <2>12. LogInv'
    <3>1. /\ Tells(Log5, Changed("phase")', Event("phase", before.phase, entity.phase)')
          /\ Tells(Log5, (~Pending /\ Changed("freeze"))', Event("freeze", before.freeze, entity.freeze)')
          /\ Tells(Log5, (~Pending /\ Changed("started"))', Event("started", before.started, entity.started)')
      BY <1>1, <2>5, <2>6, <2>11 DEF PhaseEvent, FreezeEvent, StartedEvent, Event, Tells
    <3>2. /\ Tells(Log5, (~Pending /\ RoundStarted(before, entity))', Event("RoundStart", 0, 0))
          /\ Tells(Log5, (~Pending /\ ~fresh /\ RoundEnded(before, entity))', Event("RoundEnd", 0, server.reason)')
      BY <1>1, <2>5, <2>6, <2>11 DEF StartEvent, EndEvent, Event, Tells
    <3> QED
      BY <2>3, <2>5, <3>1, <3>2 DEF LogInv
  <2>13. OfficialInv'
    BY <1>1, <1>3, <1>4, <2>3, <2>6 DEF OfficialInv, OfficialEvent
  <2>14. MatchInv'
    BY <1>1, <2>3, <2>6 DEF MatchInv
  <2> QED
    BY <2>7, <2>8, <2>9, <2>10, <2>12, <2>13, <2>14 DEF IInv
<1>5. CASE ~mimic
  <2>1. gameState' = gameState /\ log' = log
    BY <1>5 DEF EndFrame, Becomes
  <2>2. TypeInv' /\ EntityInv' /\ StateInv'
    BY <1>1, <1>2, <1>5, <2>1 DEF TypeInv, EntityInv, StateInv
  <2>3. ~Pending /\ ~Pending'
    BY <1>1, <1>5 DEF Pending
  <2>4. PendingInv'
    BY <1>2, <2>1, <2>3 DEF PendingInv, Maybe
  <2>5. LogInv'
    BY <1>1, <1>2, <1>5, <2>1, <2>3 DEF LogInv, Changed, Came
  <2>6. OfficialInv'
    BY <1>1, <1>2, <1>5, <2>1 DEF OfficialInv, Came
  <2>7. MatchInv'
    BY <1>1, <1>5 DEF MatchInv
  <2> QED
    BY <2>2, <2>4, <2>5, <2>6, <2>7 DEF IInv
<1> QED
  BY <1>2, <1>4, <1>5 DEF TypeInv

---------------------------------------------------------------------------
(* The log after dispatchRoundStart: the grenades are cleared, and the end *)
(* of the round before is official if rounds were counted.                 *)
ClearEvent == Event("clear", 0, 0)
Cleared(g, l) == More(l, TRUE, ClearEvent, g.isMatchStarted)
RoundLog(g, l) ==
  More(Cleared(g, l), g.totalRoundsPlayed > 0, OfficialEvent, g.isMatchStarted)

(* Dispatch adds an event to the log.                                    *)
LEMMA DispatchMore ==
  ASSUME NEW g, NEW l, NEW e
  PROVE  Dispatch(St(g, l), e) = St(g, More(l, TRUE, e, g.isMatchStarted))
BY DispatchIs DEF More, Entry

(* dispatchRoundStart: with mimic the start of the round waits.          *)
LEMMA DispatchRoundStartIs ==
  ASSUME NEW g, Shape(g), NEW l
  PROVE  DispatchRoundStart(St(g, l)) =
           IF mimic THEN St(With(g, "lastRoundStartEvent", <<StartEvent>>), RoundLog(g, l))
           ELSE St(g, Cleared(g, l))
<1> DEFINE cleared == Dispatch(St(g, l), ClearEvent)
           official == IF EndsRound(St(g, l).gs) THEN Dispatch(cleared, OfficialEvent) ELSE cleared
<1>1. DispatchRoundStart(St(g, l)) =
        IF mimic THEN Set(official, "lastRoundStartEvent", <<StartEvent>>) ELSE cleared
  BY DEF DispatchRoundStart, ClearEvent, OfficialEvent, StartEvent
<1>2. cleared = St(g, Cleared(g, l))
  BY DispatchMore DEF Cleared
<1>3. official = St(g, RoundLog(g, l))
  <2>1. St(g, l).gs = g
    BY DEF St
  <2>2. Dispatch(St(g, Cleared(g, l)), OfficialEvent) =
          St(g, More(Cleared(g, l), TRUE, OfficialEvent, g.isMatchStarted))
    BY DispatchMore
  <2> HIDE DEF cleared
  <2> QED
    BY <1>2, <2>1, <2>2 DEF EndsRound, RoundLog, More
<1>4. "lastRoundStartEvent" \in Fields
  BY DEF Fields
<1> HIDE DEF cleared, official
<1> QED
  BY <1>1, <1>2, <1>3, <1>4, SetIs

(* The handler of m_bFreezePeriod.                                       *)
LEMMA FreezeIs ==
  ASSUME NEW g, Shape(g), NEW l, NEW e
  PROVE  Handle(St(g, l), "freeze", e) =
           LET ev == Event("freeze", g.isFreezetime, e.freeze)
               kept == IF mimic THEN With(g, "lastFreezeTimeChangedEvent", <<ev>>) ELSE g
           IN  St(With(kept, "isFreezetime", e.freeze), More(l, ~mimic, ev, g.isMatchStarted))
<1> DEFINE ev == Event("freeze", g.isFreezetime, e.freeze)
           kept == IF mimic THEN With(g, "lastFreezeTimeChangedEvent", <<ev>>) ELSE g
           more == More(l, ~mimic, ev, g.isMatchStarted)
<1>1. St(g, l).gs = g /\ "lastFreezeTimeChangedEvent" \in Fields /\ "isFreezetime" \in Fields
  BY DEF St, Fields
<1>2. Handle(St(g, l), "freeze", e) = FreezePeriod(St(g, l), e.freeze)
  BY DEF Handle
<1>3. FreezePeriod(St(g, l), e.freeze) =
        Set(IF mimic THEN Set(St(g, l), "lastFreezeTimeChangedEvent", <<ev>>)
                     ELSE Dispatch(St(g, l), ev), "isFreezetime", e.freeze)
  BY <1>1 DEF FreezePeriod
<1> HIDE DEF ev
<1>4. (IF mimic THEN Set(St(g, l), "lastFreezeTimeChangedEvent", <<ev>>)
                ELSE Dispatch(St(g, l), ev)) = St(kept, more)
  BY <1>1, SetIs, DispatchMore DEF More
<1>5. Shape(kept)
  BY <1>1, SetIs
<1> HIDE DEF kept, more
<1>6. Set(St(kept, more), "isFreezetime", e.freeze) = St(With(kept, "isFreezetime", e.freeze), more)
  BY <1>1, <1>5, SetIs
<1> QED
  BY <1>2, <1>3, <1>4, <1>6 DEF kept, more, ev

(* The handler of m_bHasMatchStarted.                                    *)
LEMMA StartedIs ==
  ASSUME NEW g, Shape(g), NEW l, NEW e
  PROVE  Handle(St(g, l), "started", e) =
           LET ev == Event("started", g.isMatchStarted, e.started)
               kept == With(g, "lastMatchStartedChangedEvent", <<ev>>)
           IN  IF ~mimic
               THEN St(With(g, "isMatchStarted", e.started), More(l, TRUE, ev, e.started))
               ELSE IF e.started /\ e.reason = 0
               THEN St(With(kept, "lastRoundStartEvent", <<StartEvent>>), RoundLog(kept, l))
               ELSE St(kept, l)
<1> DEFINE ev == Event("started", g.isMatchStarted, e.started)
           kept == With(g, "lastMatchStartedChangedEvent", <<ev>>)
           now == With(g, "isMatchStarted", e.started)
<1>1. St(g, l).gs = g /\ "lastMatchStartedChangedEvent" \in Fields /\ "isMatchStarted" \in Fields
  BY DEF St, Fields
<1>2. Handle(St(g, l), "started", e) = HasMatchStarted(St(g, l), e.started, e.reason)
  BY DEF Handle
<1>3. HasMatchStarted(St(g, l), e.started, e.reason) =
        IF ~mimic THEN Dispatch(Set(St(g, l), "isMatchStarted", e.started), ev)
        ELSE IF e.started /\ e.reason = 0
        THEN DispatchRoundStart(Set(St(g, l), "lastMatchStartedChangedEvent", <<ev>>))
        ELSE Set(St(g, l), "lastMatchStartedChangedEvent", <<ev>>)
  BY <1>1 DEF HasMatchStarted
<1> HIDE DEF ev
<1>4. /\ Set(St(g, l), "isMatchStarted", e.started) = St(now, l)
      /\ Set(St(g, l), "lastMatchStartedChangedEvent", <<ev>>) = St(kept, l)
      /\ Shape(kept)
  BY <1>1, SetIs
<1>5. now.isMatchStarted = e.started
  BY DEF With, Fields
<1> HIDE DEF kept, now
<1>6. Dispatch(St(now, l), ev) = St(now, More(l, TRUE, ev, e.started))
  BY <1>5, DispatchMore
<1>7. mimic => DispatchRoundStart(St(kept, l)) =
                 St(With(kept, "lastRoundStartEvent", <<StartEvent>>), RoundLog(kept, l))
  BY <1>4, DispatchRoundStartIs
<1>8. Handle(St(g, l), "started", e) =
        IF ~mimic THEN St(now, More(l, TRUE, ev, e.started))
        ELSE IF e.started /\ e.reason = 0
        THEN St(With(kept, "lastRoundStartEvent", <<StartEvent>>), RoundLog(kept, l))
        ELSE St(kept, l)
  BY <1>2, <1>3, <1>4, <1>6, <1>7
<1> QED
  BY <1>8 DEF kept, ev, now

(* The handler of m_eRoundWinReason.                                     *)
LEMMA ReasonIs ==
  ASSUME NEW g, Shape(g), NEW l, NEW e
  PROVE  Handle(St(g, l), "reason", e) =
           IF ~g.firstUpdateOccurred THEN St(With(g, "firstUpdateOccurred", TRUE), l)
           ELSE IF e.reason = 0
           THEN IF mimic THEN St(With(g, "lastRoundStartEvent", <<StartEvent>>), RoundLog(g, l))
                ELSE St(g, Cleared(g, l))
           ELSE IF mimic
           THEN St(With(g, "lastRoundEndEvent", <<Event("RoundEnd", 0, e.reason)>>), l)
           ELSE St(g, l)
<1>1. St(g, l).gs = g /\ "firstUpdateOccurred" \in Fields /\ "lastRoundEndEvent" \in Fields
  BY DEF St, Fields
<1>2. Handle(St(g, l), "reason", e) = RoundWinReason(St(g, l), e.reason)
  BY DEF Handle
<1>3. RoundWinReason(St(g, l), e.reason) =
        IF ~g.firstUpdateOccurred THEN Set(St(g, l), "firstUpdateOccurred", TRUE)
        ELSE IF e.reason = 0 THEN DispatchRoundStart(St(g, l))
        ELSE IF mimic THEN Set(St(g, l), "lastRoundEndEvent", <<Event("RoundEnd", 0, e.reason)>>)
        ELSE St(g, l)
  BY <1>1 DEF RoundWinReason, FirstUpdate
<1> QED
  BY <1>1, <1>2, <1>3, SetIs, DispatchRoundStartIs

(* The handler of m_gamePhase.                                           *)
LEMMA PhaseIs ==
  ASSUME NEW g, Shape(g), NEW l, NEW e
  PROVE  Handle(St(g, l), "phase", e) =
           St(With(g, "gamePhase", e.phase),
              More(l, TRUE, Event("phase", g.gamePhase, e.phase), g.isMatchStarted))
<1> DEFINE now == With(g, "gamePhase", e.phase)
<1>1. St(g, l).gs = g /\ "gamePhase" \in Fields
  BY DEF St, Fields
<1>2. Handle(St(g, l), "phase", e) =
        Dispatch(Set(St(g, l), "gamePhase", e.phase), Event("phase", g.gamePhase, e.phase))
  BY <1>1 DEF Handle, GamePhase
<1>3. Set(St(g, l), "gamePhase", e.phase) = St(now, l)
  BY <1>1, SetIs
<1>4. now.isMatchStarted = g.isMatchStarted
  BY DEF With, Fields
<1> HIDE DEF now
<1> QED
  BY <1>2, <1>3, <1>4, DispatchMore DEF now

(* The handler of m_totalRoundsPlayed.                                   *)
LEMMA PlayedIs ==
  ASSUME NEW g, Shape(g), NEW l, NEW e
  PROVE  Handle(St(g, l), "played", e) = St(With(g, "totalRoundsPlayed", e.played), l)
<1>1. "totalRoundsPlayed" \in Fields
  BY DEF Fields
<1>2. Handle(St(g, l), "played", e) = Set(St(g, l), "totalRoundsPlayed", e.played)
  BY DEF Handle
<1> QED
  BY <1>1, <1>2, SetIs

(* Clearing the grenades tells of nothing else.                          *)
LEMMA ClearedTold ==
  ASSUME NEW l \in Seq(Entries), NEW g, g.isMatchStarted \in BOOLEAN
  PROVE  /\ Cleared(g, l) \in Seq(Entries)
         /\ \A e, d : e.t # "clear" /\ Tells(l, d, e) => Tells(Cleared(g, l), d, e)
<1>1. ClearEvent \in Events /\ ClearEvent.t = "clear"
  BY DEF ClearEvent, Event, Events, Types, Datum
<1>2. Adds(Cleared(g, l), l, TRUE, ClearEvent, g.isMatchStarted)
  BY <1>1, OneMore DEF Cleared
<1> QED
  BY <1>1, <1>2 DEF Adds

(* What a log tells of after dispatchRoundStart.                         *)
RoundTold(more, l, played) ==
  /\ more \in Seq(Entries)
  /\ \A e, d : e.t \notin {"clear", "RoundEndOfficial"} /\ Tells(l, d, e) => Tells(more, d, e)
  /\ Tells(l, FALSE, OfficialEvent) => Tells(more, played > 0, OfficialEvent)
  /\ played = 0 => \A d : Tells(l, d, OfficialEvent) => Tells(more, d, OfficialEvent)

(* dispatchRoundStart tells of the official end of a round if rounds were *)
(* counted, and of nothing else.                                          *)
LEMMA RoundLogTold ==
  ASSUME NEW l \in Seq(Entries), NEW g, g.isMatchStarted \in BOOLEAN,
         g.totalRoundsPlayed \in Nat
  PROVE  RoundTold(RoundLog(g, l), l, g.totalRoundsPlayed)
<1> DEFINE cleared == Cleared(g, l)
           c == g.totalRoundsPlayed > 0
<1>1. OfficialEvent \in Events /\ OfficialEvent.t = "RoundEndOfficial" /\ c \in BOOLEAN
  BY DEF OfficialEvent, Event, Events, Types, Datum
<1>2. /\ cleared \in Seq(Entries)
      /\ \A e, d : e.t # "clear" /\ Tells(l, d, e) => Tells(cleared, d, e)
  BY ClearedTold
<1>3. RoundLog(g, l) = More(cleared, c, OfficialEvent, g.isMatchStarted)
  BY DEF RoundLog
<1>4. g.totalRoundsPlayed = 0 => RoundLog(g, l) = cleared
  BY <1>3 DEF More
<1> HIDE DEF cleared, c
<1>5. Adds(RoundLog(g, l), cleared, c, OfficialEvent, g.isMatchStarted)
  BY <1>1, <1>2, <1>3, OneMore
<1> QED
  BY <1>1, <1>2, <1>4, <1>5 DEF Adds, c, RoundTold

(* What every update of a property is: the property had its old value and *)
(* gets the server's, no other changes, and the frame did not create the  *)
(* entity.                                                                *)
LEMMA UpdateFacts ==
  ASSUME IInv, NEW k \in Keys, Update(k)
  PROVE  /\ gameState.exists /\ inFrame /\ ~fresh
         /\ mimic' = mimic /\ server' = server /\ before' = before /\ due' = due
         /\ inFrame' = inFrame /\ fresh' = fresh
         /\ entity[k] = before[k] /\ server[k] # before[k] /\ entity'[k] = server[k]
         /\ \A j \in Keys : j # k => entity'[j] = entity[j]
         /\ \A j \in Keys : entity'[j] \in {before[j], server[j]}
         /\ entity' \in Props /\ Possible(before, server)
         /\ Shape(gameState) /\ log \in Seq(Entries)
         /\ gameState' = Handle(St(gameState, log), k, entity').gs
         /\ log' = Handle(St(gameState, log), k, entity').log
<1>1. /\ gameState.exists /\ inFrame /\ entity[k] # server[k]
      /\ entity' = [entity EXCEPT ![k] = server[k]]
      /\ Becomes(Handle(St(gameState, log), k, entity'))
      /\ mimic' = mimic /\ server' = server /\ before' = before /\ due' = due
      /\ inFrame' = inFrame /\ fresh' = fresh
  BY DEF Update, St
<1>2. ~fresh /\ Possible(before, server) /\ \A j \in Keys : entity[j] \in {before[j], server[j]}
  BY <1>1 DEF IInv, TypeInv, EntityInv
<1>3. /\ Keys = {"freeze", "started", "reason", "phase", "played"}
      /\ entity \in Props /\ server \in Props
  BY DEF Keys, NoEntity, IInv, TypeInv
<1>4. entity' \in Props /\ entity'[k] = server[k] /\ \A j \in Keys : j # k => entity'[j] = entity[j]
  BY <1>1, <1>3 DEF Props
<1> QED
  BY <1>1, <1>2, <1>4 DEF IInv, TypeInv, Shape, Becomes

(* The parts of a state of the handlers.                                 *)
LEMMA GotIs ==
  ASSUME NEW g, NEW l, NEW st, st = St(g, l)
  PROVE  st.gs = g /\ st.log = l
BY DEF St

(* An update that tells of nothing but the clearing of grenades and       *)
(* official ends keeps what was told of: what mimic lets wait it does not *)
(* tell of.                                                               *)
LEMMA KeepLog ==
  ASSUME IInv, mimic' = mimic, server' = server, before' = before, due' = due,
         inFrame' = inFrame, fresh' = fresh,
         gameState.exists, gameState'.exists, inFrame, ~fresh,
         entity'.phase = entity.phase, entity'.freeze = entity.freeze \/ mimic,
         entity'.started = entity.started \/ mimic,
         \A e, d : e.t \notin {"clear", "RoundEndOfficial"} /\ Tells(log, d, e)
           => Tells(log', d, e)
  PROVE  LogInv' /\ MatchInv'
<1>1. Pending' = Pending /\ Pending = mimic
  BY RoundsAssumption DEF Pending, IInv, TypeInv
<1>2. \A name : Came(name)' = Came(name)
  BY DEF Came
<1>3. /\ Changed("phase")' = Changed("phase")
      /\ ~mimic => Changed("freeze")' = Changed("freeze") /\ Changed("started")' = Changed("started")
  BY DEF Changed
<1>4. LogInv
  BY DEF IInv
<1>5. \A t, old, new : Event(t, old, new).t = t
  BY DEF Event
<1>6. LogInv'
  <2>1. CASE mimic
    <3>1. \A c, e : Tells(log', (~Pending /\ c)', e) <=> Tells(log', FALSE, e)
      BY <1>1, <2>1 DEF Tells
    <3>2. \A t \in {"freeze", "started", "RoundStart", "RoundEnd"} : At(log, t) = {}
      BY <1>1, <1>4, <1>5, <2>1 DEF LogInv, Tells
    <3>3. \A t \in {"freeze", "started", "RoundStart", "RoundEnd"} :
             \A old, new : Tells(log', FALSE, Event(t, old, new))
      <4> TAKE t \in {"freeze", "started", "RoundStart", "RoundEnd"}
      <4> TAKE old, new
      <4>1. Tells(log, FALSE, Event(t, old, new))
        BY <1>5, <3>2 DEF Tells
      <4>2. Event(t, old, new).t \notin {"clear", "RoundEndOfficial"}
        BY <1>5
      <4> QED
        BY <4>1, <4>2
    <3>4. Tells(log', Changed("phase")', Event("phase", before'.phase, entity'.phase))
      BY <1>3, <1>4, <1>5 DEF LogInv
    <3>5. ~(~Pending)'
      BY <1>1, <2>1
    <3> QED
      BY <3>3, <3>4, <3>5 DEF LogInv, Tells
  <2>2. CASE ~mimic
    BY <1>1, <1>2, <1>3, <1>4, <1>5, <2>2 DEF LogInv
  <2> QED
    BY <2>1, <2>2
<1>7. MatchInv'
  <2>1. mimic => At(log', "RoundStart") = {} /\ At(log', "RoundEnd") = {}
    BY SMTT(60), <1>1, <1>5, <1>6 DEF LogInv, Tells
  <2> QED
    BY <2>1 DEF MatchInv
<1> QED
  BY <1>6, <1>7

(* An update that neither ends nor starts a round keeps the official end. *)
LEMMA SameOfficial ==
  ASSUME IInv, mimic' = mimic, server' = server, before' = before, due' = due, fresh' = fresh,
         gameState.exists, entity'.reason = entity.reason,
         \A d : Tells(log, d, OfficialEvent) => Tells(log', d, OfficialEvent)
  PROVE  OfficialInv'
<1>1. PICK c \in BOOLEAN :
        /\ Tells(log, c, OfficialEvent)
        /\ IF mimic THEN /\ c => ~fresh /\ entity.reason = 0 /\ before.reason # 0
                         /\ /\ ~fresh /\ entity.reason = 0 /\ before.reason # 0
                            /\ before.played > 0 /\ server.played > 0
                            => c
           ELSE c <=> Came("round_officially_ended")
  BY DEF IInv, OfficialInv, OfficialEvent
<1>2. Tells(log', c, OfficialEvent)
  BY <1>1
<1>3. Came("round_officially_ended")' = Came("round_officially_ended")
  BY DEF Came
<1> QED
  BY <1>1, <1>2, <1>3 DEF OfficialInv, OfficialEvent

(* The rounds played are only kept.                                      *)
LEMMA PlayedInv ==
  ASSUME IInv, Update("played")
  PROVE  IInv'
<1>1. "played" \in Keys
  BY DEF Keys, NoEntity
<1> USE <1>1
<1>2. gameState' = With(gameState, "totalRoundsPlayed", entity'.played) /\ log' = log
  BY UpdateFacts, PlayedIs, GotIs
<1>3. Shape(gameState') /\ gameState'.totalRoundsPlayed = entity'.played
      /\ \A f \in Fields \ {"totalRoundsPlayed"} : gameState'[f] = gameState[f]
  BY <1>2 DEF With, Shape, Fields
<1>4. /\ entity'.freeze = entity.freeze /\ entity'.started = entity.started
      /\ entity'.reason = entity.reason /\ entity'.phase = entity.phase
  BY UpdateFacts DEF Keys, NoEntity
<1>5. TypeInv'
  BY <1>2, <1>3, UpdateFacts DEF TypeInv, Shape, IInv
<1>6. EntityInv'
  BY <1>3, UpdateFacts DEF EntityInv, IInv, Fields
<1>7. StateInv'
  BY <1>3, <1>4, UpdateFacts DEF StateInv, IInv, Fields
<1>8. PendingInv'
  BY <1>3, <1>4, UpdateFacts DEF PendingInv, IInv, Fields, Pending, RoundStarted, RoundEnded, Changed
<1>9. LogInv' /\ MatchInv'
  BY <1>2, <1>3, <1>4, UpdateFacts, KeepLog DEF Fields
<1>10. OfficialInv'
  BY <1>2, <1>3, <1>4, UpdateFacts DEF OfficialInv, IInv, Fields, Came
<1> QED
  BY <1>5, <1>6, <1>7, <1>8, <1>9, <1>10 DEF IInv

(* A change of the phase is told of at once.                             *)
LEMMA PhaseInv ==
  ASSUME IInv, Update("phase")
  PROVE  IInv'
<1>1. "phase" \in Keys
  BY DEF Keys, NoEntity
<1> USE <1>1
<1>2. /\ gameState' = With(gameState, "gamePhase", entity'.phase)
      /\ log' = More(log, TRUE, Event("phase", gameState.gamePhase, entity'.phase),
                     gameState.isMatchStarted)
  <2> DEFINE g == With(gameState, "gamePhase", entity'.phase)
             l == More(log, TRUE, Event("phase", gameState.gamePhase, entity'.phase),
                       gameState.isMatchStarted)
  <2>1. Handle(St(gameState, log), "phase", entity') = St(g, l)
    BY ZenonT(60), UpdateFacts, PhaseIs
  <2> HIDE DEF g, l
  <2>2. gameState' = g /\ log' = l
    BY <2>1, UpdateFacts, GotIs
  <2> QED
    BY <2>2 DEF g, l
<1>3. Shape(gameState') /\ gameState'.gamePhase = entity'.phase
      /\ \A f \in Fields \ {"gamePhase"} : gameState'[f] = gameState[f]
  BY <1>2 DEF With, Shape, Fields
<1>4. /\ entity'.freeze = entity.freeze /\ entity'.started = entity.started
      /\ entity'.reason = entity.reason /\ entity'.played = entity.played
      /\ before.phase # entity'.phase /\ gameState.gamePhase = before.phase
  BY UpdateFacts DEF Keys, NoEntity, IInv, StateInv
<1>5. log \in Seq(Entries) /\ gameState.exists /\ gameState'.exists /\ inFrame
      /\ gameState.isMatchStarted \in BOOLEAN /\ mimic \in BOOLEAN
  BY <1>3, UpdateFacts, RoundsAssumption DEF Fields, IInv, StateInv, TypeInv, Props
<1>6. PhaseEvent' \in Events /\ PhaseEvent'.t = "phase"
      /\ log' = More(log, TRUE, PhaseEvent', gameState.isMatchStarted)
  <2>1. before.phase \in Nat /\ entity'.phase \in Nat
    BY RoundsAssumption, UpdateFacts DEF IInv, TypeInv, Props
  <2> QED
    BY <1>2, <1>4, <2>1, UpdateFacts DEF PhaseEvent, Event, Events, Types, Datum
<1>7. Adds(log', log, TRUE, PhaseEvent', gameState.isMatchStarted)
  BY <1>5, <1>6, OneMore
<1>8. TypeInv'
  BY ZenonT(60), <1>3, <1>7, UpdateFacts DEF TypeInv, Shape, IInv, Adds
<1>9. EntityInv'
  BY <1>3, UpdateFacts DEF EntityInv, IInv, Fields
<1>10. StateInv'
  BY <1>3, <1>4, UpdateFacts DEF StateInv, IInv, Fields
<1>11. PendingInv'
  BY <1>3, <1>4, UpdateFacts DEF PendingInv, IInv, Fields, Pending, RoundStarted, RoundEnded, Changed
<1>12. Pending' = Pending /\ Pending = mimic
  BY <1>5, UpdateFacts, RoundsAssumption DEF Pending, IInv, TypeInv
<1>13. Tells(log, FALSE, PhaseEvent')
  <2>1. ~Changed("phase")
    BY UpdateFacts DEF Changed
  <2> QED
    BY <1>5, <2>1 DEF IInv, LogInv, Tells, Event, PhaseEvent
<1>14. LogInv'
  <2>1. Changed("phase")' /\ Changed("freeze")' = Changed("freeze")
        /\ Changed("started")' = Changed("started")
    BY <1>4, UpdateFacts DEF Changed
  <2>2. RoundStarted(before, entity)' = RoundStarted(before, entity)
        /\ RoundEnded(before, entity)' = RoundEnded(before, entity)
    BY <1>4, UpdateFacts DEF RoundStarted, RoundEnded
  <2>3. \A name : Came(name)' = Came(name)
    BY UpdateFacts DEF Came
  <2>4. Tells(log', Changed("phase")', PhaseEvent')
    BY <1>7, <1>13, <2>1 DEF Adds, Tells
  <2>5. \A e, d : e.t # "phase" /\ Tells(log, d, e) => Tells(log', d, e)
    BY <1>6, <1>7 DEF Adds
  <2>6. LogInv /\ gameState.exists
    BY <1>5 DEF IInv
  <2>7. \A t, old, new : Event(t, old, new).t = t
    BY DEF Event
  <2> QED
    BY <1>4, <1>12, <2>1, <2>2, <2>3, <2>4, <2>5, <2>6, <2>7, UpdateFacts DEF LogInv, PhaseEvent
<1>15. OfficialInv'
  <2>1. \A d : Tells(log, d, OfficialEvent) => Tells(log', d, OfficialEvent)
    BY <1>6, <1>7 DEF Adds, OfficialEvent, Event
  <2> QED
    BY <1>4, <1>5, <2>1, UpdateFacts, SameOfficial
<1>16. MatchInv'
  <2>1. mimic => At(log', "RoundStart") = {} /\ At(log', "RoundEnd") = {}
    BY <1>5, <1>12, <1>14, UpdateFacts DEF LogInv, Tells, Event
  <2> QED
    BY <2>1, UpdateFacts DEF MatchInv
<1> QED
  BY <1>8, <1>9, <1>10, <1>11, <1>14, <1>15, <1>16 DEF IInv

(* A change of the freeze period waits with mimic, and else is told of.  *)
LEMMA FreezeInv ==
  ASSUME IInv, Update("freeze")
  PROVE  IInv'
<1>1. "freeze" \in Keys
  BY DEF Keys, NoEntity
<1> USE <1>1
<1> DEFINE ev == Event("freeze", gameState.isFreezetime, entity'.freeze)
           kept == IF mimic THEN With(gameState, "lastFreezeTimeChangedEvent", <<ev>>)
                            ELSE gameState
<1>2. /\ gameState' = With(kept, "isFreezetime", entity'.freeze)
      /\ log' = More(log, ~mimic, ev, gameState.isMatchStarted)
  BY UpdateFacts, FreezeIs, GotIs
<1>3. Shape(gameState') /\ gameState'.isFreezetime = entity'.freeze
      /\ gameState'.lastFreezeTimeChangedEvent =
           (IF mimic THEN <<ev>> ELSE gameState.lastFreezeTimeChangedEvent)
      /\ \A f \in Fields \ {"isFreezetime", "lastFreezeTimeChangedEvent"} :
           gameState'[f] = gameState[f]
  BY <1>2, UpdateFacts DEF With, Shape, Fields
<1>4. /\ entity'.phase = entity.phase /\ entity'.started = entity.started
      /\ entity'.reason = entity.reason /\ entity'.played = entity.played
      /\ before.freeze # entity'.freeze /\ gameState.isFreezetime = before.freeze
  BY UpdateFacts DEF Keys, NoEntity, IInv, StateInv
<1>5. log \in Seq(Entries) /\ gameState.exists /\ gameState'.exists /\ inFrame
      /\ gameState.isMatchStarted \in BOOLEAN /\ mimic \in BOOLEAN
  BY <1>3, UpdateFacts, RoundsAssumption DEF Fields, IInv, StateInv, TypeInv, Props
<1>6. FreezeEvent' \in Events /\ FreezeEvent'.t = "freeze" /\ ev = FreezeEvent'
  <2>1. before.freeze \in BOOLEAN /\ entity'.freeze \in BOOLEAN
    BY UpdateFacts DEF IInv, TypeInv, Props
  <2> QED
    BY <1>4, <2>1, UpdateFacts DEF FreezeEvent, Event, Events, Types, Datum
<1> HIDE DEF ev, kept
<1>7. Adds(log', log, ~mimic, FreezeEvent', gameState.isMatchStarted)
  BY <1>2, <1>5, <1>6, OneMore
<1>8. TypeInv'
  BY ZenonT(60), <1>3, <1>7, UpdateFacts DEF TypeInv, Shape, IInv, Adds
<1>9. EntityInv'
  BY <1>3, UpdateFacts DEF EntityInv, IInv, Fields
<1>10. StateInv'
  BY <1>3, <1>4, UpdateFacts DEF StateInv, IInv, Fields
<1>12. Pending' = Pending /\ Pending = mimic /\ Changed("freeze")' /\ ~Changed("freeze")
  BY ZenonT(60), <1>4, <1>5, UpdateFacts, RoundsAssumption DEF Pending, IInv, TypeInv, Changed
<1>11. PendingInv'
  <2>1. /\ gameState'.lastRoundStartEvent = gameState.lastRoundStartEvent
        /\ gameState'.lastRoundEndEvent = gameState.lastRoundEndEvent
        /\ gameState'.lastMatchStartedChangedEvent = gameState.lastMatchStartedChangedEvent
    BY <1>3 DEF Fields
  <2>2. gameState'.lastFreezeTimeChangedEvent = Maybe(Pending' /\ Changed("freeze")', FreezeEvent')
    BY <1>3, <1>6, <1>12 DEF IInv, PendingInv, Maybe
  <2> QED
    BY <1>4, <1>12, <2>1, <2>2, UpdateFacts
       DEF PendingInv, IInv, RoundStarted, RoundEnded, Changed, FreezeEvent
<1>13. Tells(log, FALSE, FreezeEvent')
  BY <1>5, <1>12 DEF IInv, LogInv, Tells, Event, FreezeEvent
<1>14. LogInv'
  <2>1. Changed("phase")' = Changed("phase") /\ Changed("started")' = Changed("started")
    BY <1>4, UpdateFacts DEF Changed
  <2>2. RoundStarted(before, entity)' = RoundStarted(before, entity)
        /\ RoundEnded(before, entity)' = RoundEnded(before, entity)
    BY <1>4, UpdateFacts DEF RoundStarted, RoundEnded
  <2>3. \A name : Came(name)' = Came(name)
    BY UpdateFacts DEF Came
  <2>4. Tells(log', ~mimic, FreezeEvent')
    BY <1>7, <1>13 DEF Adds
  <2>5. \A e, d : e.t # "freeze" /\ Tells(log, d, e) => Tells(log', d, e)
    BY <1>6, <1>7 DEF Adds
  <2>6. LogInv /\ gameState.exists
    BY <1>5 DEF IInv
  <2>7. \A t, old, new : Event(t, old, new).t = t
    BY DEF Event
  <2>8. Tells(log', (~Pending /\ Changed("freeze"))', FreezeEvent')
    BY <1>12, <2>4 DEF Tells
  <2> QED
    BY <1>4, <1>12, <2>1, <2>2, <2>3, <2>5, <2>6, <2>7, <2>8, UpdateFacts DEF LogInv, FreezeEvent
<1>15. OfficialInv'
  <2>1. \A d : Tells(log, d, OfficialEvent) => Tells(log', d, OfficialEvent)
    BY <1>6, <1>7 DEF Adds, OfficialEvent, Event
  <2> QED
    BY <1>4, <1>5, <2>1, UpdateFacts, SameOfficial
<1>16. MatchInv'
  <2>1. mimic => At(log', "RoundStart") = {} /\ At(log', "RoundEnd") = {}
    BY <1>5, <1>12, <1>14, UpdateFacts DEF LogInv, Tells, Event
  <2> QED
    BY <2>1, UpdateFacts DEF MatchInv
<1> QED
  BY <1>8, <1>9, <1>10, <1>11, <1>14, <1>15, <1>16 DEF IInv

(* A match that starts with a round in progress starts that round; no    *)
(* rounds were counted, so no end becomes official.                      *)
LEMMA StartedInv ==
  ASSUME IInv, Update("started")
  PROVE  IInv'
<1>1. "started" \in Keys
  BY DEF Keys, NoEntity
<1> USE <1>1
<1> DEFINE ev == Event("started", gameState.isMatchStarted, entity'.started)
           kept == With(gameState, "lastMatchStartedChangedEvent", <<ev>>)
           now == With(gameState, "isMatchStarted", entity'.started)
           begun == With(kept, "lastRoundStartEvent", <<StartEvent>>)
<1>2. Handle(St(gameState, log), "started", entity') =
        IF ~mimic THEN St(now, More(log, TRUE, ev, entity'.started))
        ELSE IF entity'.started /\ entity'.reason = 0 THEN St(begun, RoundLog(kept, log))
        ELSE St(kept, log)
  BY ZenonT(60), UpdateFacts, StartedIs
<1>3. /\ entity'.phase = entity.phase /\ entity'.freeze = entity.freeze
      /\ entity'.reason = entity.reason /\ entity'.played = entity.played
      /\ entity.started = before.started /\ before.started # entity'.started
      /\ gameState.isMatchStarted = before.started
  BY UpdateFacts DEF Keys, NoEntity, IInv, StateInv
<1>4. /\ log \in Seq(Entries) /\ gameState.exists /\ inFrame /\ ~fresh
      /\ gameState.isMatchStarted \in BOOLEAN /\ mimic \in BOOLEAN
      /\ entity'.started \in BOOLEAN /\ before.started \in BOOLEAN
  BY <1>3, UpdateFacts, RoundsAssumption DEF IInv, TypeInv, Props
<1>5. /\ StartedEvent' \in Events /\ StartedEvent'.t = "started" /\ ev = StartedEvent'
      /\ Changed("started")' /\ ~Changed("started") /\ Pending = mimic
  <2>1. ev = StartedEvent'
    BY <1>3, UpdateFacts DEF StartedEvent
  <2>2. StartedEvent' \in Events /\ StartedEvent'.t = "started"
    BY <1>4, UpdateFacts DEF StartedEvent, Event, Events, Types, Datum
  <2> QED
    BY <1>3, <1>4, <2>1, <2>2, UpdateFacts DEF Changed, Pending
<1>6. /\ Shape(now) /\ Shape(kept) /\ Shape(begun)
      /\ \A f \in Fields \ {"isMatchStarted"} : now[f] = gameState[f]
      /\ \A f \in Fields \ {"lastMatchStartedChangedEvent"} : kept[f] = gameState[f]
      /\ \A f \in Fields \ {"lastMatchStartedChangedEvent", "lastRoundStartEvent"} :
           begun[f] = gameState[f]
      /\ now.isMatchStarted = entity'.started
      /\ kept.lastMatchStartedChangedEvent = <<ev>> /\ begun.lastMatchStartedChangedEvent = <<ev>>
      /\ begun.lastRoundStartEvent = <<StartEvent>>
  BY DEF With, Shape, Fields
<1> HIDE DEF ev, now, kept, begun
<1>7. CASE ~mimic
  <2>1. gameState' = now /\ log' = More(log, TRUE, ev, entity'.started)
    <3> DEFINE more == More(log, TRUE, ev, entity'.started)
    <3>1. Handle(St(gameState, log), "started", entity') = St(now, more)
      BY <1>2, <1>7
    <3> HIDE DEF more
    <3>2. gameState' = now /\ log' = more
      BY <3>1, UpdateFacts, GotIs
    <3> QED
      BY <3>2 DEF more
  <2>2. Adds(log', log, TRUE, StartedEvent', entity'.started)
    BY <1>4, <1>5, <2>1, OneMore
  <2>3. TypeInv'
    BY ZenonT(60), <1>6, <2>1, <2>2, UpdateFacts DEF TypeInv, Shape, IInv, Adds
  <2>4. EntityInv'
    BY <1>6, <2>1, UpdateFacts DEF EntityInv, IInv, Fields
  <2>5. StateInv'
    <3>1. /\ now.exists = gameState.exists /\ now.isFreezetime = gameState.isFreezetime
          /\ now.firstUpdateOccurred = gameState.firstUpdateOccurred
          /\ now.gamePhase = gameState.gamePhase
          /\ now.totalRoundsPlayed = gameState.totalRoundsPlayed
      BY <1>6 DEF Fields
    <3> QED
      <4>1. /\ gameState'.exists \in BOOLEAN
            /\ gameState'.firstUpdateOccurred = gameState'.exists
            /\ gameState'.isFreezetime = entity'.freeze
            /\ gameState'.gamePhase = entity'.phase
            /\ gameState'.totalRoundsPlayed = entity'.played
        BY <1>3, <2>1, <3>1 DEF StateInv, IInv
      <4>2. ~mimic' /\ gameState'.isMatchStarted = entity'.started
        BY <1>6, <1>7, <2>1, UpdateFacts
      <4> QED
        BY <4>1, <4>2 DEF StateInv
  <2>6. PendingInv'
    <3>1. /\ now.lastRoundStartEvent = gameState.lastRoundStartEvent
          /\ now.lastRoundEndEvent = gameState.lastRoundEndEvent
          /\ now.lastFreezeTimeChangedEvent = gameState.lastFreezeTimeChangedEvent
          /\ now.lastMatchStartedChangedEvent = gameState.lastMatchStartedChangedEvent
      BY <1>6 DEF Fields
    <3>2. ~Pending /\ ~Pending'
      BY <1>7, UpdateFacts DEF Pending
    <3> QED
      BY <2>1, <3>1, <3>2 DEF PendingInv, IInv, Maybe
  <2>7. \A e, d : e.t # "started" /\ Tells(log, d, e) => Tells(log', d, e)
    BY <1>5, <2>2 DEF Adds
  <2>8. \A t, old, new : Event(t, old, new).t = t
    BY DEF Event
  <2>9. LogInv'
    <3>1. Tells(log, FALSE, StartedEvent')
      BY <1>4, <1>5 DEF IInv, LogInv, Tells, Event, StartedEvent
    <3>0. ~Pending /\ ~Pending'
      BY <1>7, UpdateFacts DEF Pending
    <3>2. Tells(log', (~Pending /\ Changed("started"))', StartedEvent')
      BY <1>5, <3>0, <2>2, <3>1 DEF Adds, Tells
    <3>3. Changed("phase")' = Changed("phase") /\ Changed("freeze")' = Changed("freeze")
      BY <1>3, UpdateFacts DEF Changed
    <3>4. \A name : Came(name)' = Came(name)
      BY UpdateFacts DEF Came
    <3>5. LogInv /\ gameState.exists
      BY <1>4 DEF IInv
    <3> QED
      BY <1>3, <1>7, <2>7, <2>8, <3>0, <3>2, <3>3, <3>4, <3>5, UpdateFacts DEF LogInv, StartedEvent
  <2>10. OfficialInv'
    <3>1. \A d : Tells(log, d, OfficialEvent) => Tells(log', d, OfficialEvent)
      BY <2>7, <2>8 DEF OfficialEvent
    <3> QED
      BY <1>3, <3>1, UpdateFacts, SameOfficial
  <2>11. MatchInv'
    BY <1>7, UpdateFacts DEF MatchInv
  <2> QED
    BY <2>3, <2>4, <2>5, <2>6, <2>9, <2>10, <2>11 DEF IInv
<1>8. CASE mimic /\ ~(entity'.started /\ entity'.reason = 0)
  <2>1. gameState' = kept /\ log' = log
    <3>1. Handle(St(gameState, log), "started", entity') = St(kept, log)
      BY <1>2, <1>8
    <3> QED
      BY <3>1, UpdateFacts, GotIs
  <2>2. TypeInv'
    BY ZenonT(60), <1>6, <2>1, UpdateFacts DEF TypeInv, Shape, IInv
  <2>3. EntityInv'
    BY <1>6, <2>1, UpdateFacts DEF EntityInv, IInv, Fields
  <2>4. StateInv'
    BY ZenonT(60), <1>3, <1>4, <1>6, <1>8, <2>1, UpdateFacts DEF StateInv, IInv, Fields
  <2>5. RoundStarted(before, entity)' = RoundStarted(before, entity)
        /\ RoundEnded(before, entity)' = RoundEnded(before, entity)
    BY <1>3, <1>8, UpdateFacts DEF RoundStarted, RoundEnded
  <2>6. PendingInv'
    <3>1. /\ gameState'.lastRoundStartEvent = gameState.lastRoundStartEvent
          /\ gameState'.lastRoundEndEvent = gameState.lastRoundEndEvent
          /\ gameState'.lastFreezeTimeChangedEvent = gameState.lastFreezeTimeChangedEvent
      BY <1>6, <2>1 DEF Fields
    <3>0. Pending /\ Pending'
      BY ZenonT(60), <1>4, <1>5, <1>6, <1>8, <2>1, UpdateFacts DEF Pending, Fields
    <3>2. gameState'.lastMatchStartedChangedEvent =
            Maybe(Pending' /\ Changed("started")', StartedEvent')
      BY <1>5, <1>6, <2>1, <3>0 DEF Maybe
    <3>3. Changed("freeze")' = Changed("freeze")
      BY <1>3, UpdateFacts DEF Changed
    <3> QED
      BY <1>3, <2>5, <3>0, <3>1, <3>2, <3>3, UpdateFacts DEF PendingInv, IInv, StartedEvent
  <2>7. LogInv' /\ MatchInv'
    BY ZenonT(60), <1>3, <1>4, <1>6, <1>8, <2>1, UpdateFacts, KeepLog DEF Fields
  <2>8. OfficialInv'
    BY <1>3, <2>1, UpdateFacts, SameOfficial
  <2> QED
    BY <2>2, <2>3, <2>4, <2>6, <2>7, <2>8 DEF IInv
<1>9. CASE mimic /\ entity'.started /\ entity'.reason = 0
  <2>1. gameState' = begun /\ log' = RoundLog(kept, log)
    <3>1. Handle(St(gameState, log), "started", entity') = St(begun, RoundLog(kept, log))
      BY <1>2, <1>9
    <3> QED
      BY <3>1, UpdateFacts, GotIs
  <2>2. kept.totalRoundsPlayed = 0 /\ kept.isMatchStarted \in BOOLEAN
    <3>1. server.started /\ ~before.started
      BY <1>3, <1>4, <1>9, UpdateFacts
    <3>2. before.played = 0 /\ server.played = 0
      BY <3>1, UpdateFacts DEF Possible
    <3>3. entity'.played = 0
      BY <3>2, UpdateFacts DEF Keys, NoEntity
    <3> QED
      BY <1>3, <1>4, <1>6, <3>3 DEF IInv, StateInv, Fields
  <2>3. /\ log' \in Seq(Entries)
        /\ \A e, d : e.t \notin {"clear", "RoundEndOfficial"} /\ Tells(log, d, e)
             => Tells(log', d, e)
        /\ \A d : Tells(log, d, OfficialEvent) => Tells(log', d, OfficialEvent)
    <3>1. kept.totalRoundsPlayed \in Nat
      BY <2>2
    <3>2. RoundTold(RoundLog(kept, log), log, kept.totalRoundsPlayed)
      BY <1>4, <2>2, <3>1, RoundLogTold
    <3> QED
      BY <2>1, <2>2, <3>2 DEF RoundTold
  <2>4. TypeInv'
    BY <1>6, <2>1, <2>3, UpdateFacts DEF TypeInv, Shape, IInv
  <2>5. EntityInv'
    BY <1>6, <2>1, UpdateFacts DEF EntityInv, IInv, Fields
  <2>6. StateInv'
    BY ZenonT(60), <1>3, <1>4, <1>6, <1>9, <2>1, UpdateFacts DEF StateInv, IInv, Fields
  <2>7. RoundStarted(before, entity)' /\ RoundEnded(before, entity)' = RoundEnded(before, entity)
    BY <1>3, <1>4, <1>9, UpdateFacts DEF RoundStarted, RoundEnded
  <2>8. PendingInv'
    <3>1. /\ gameState'.lastRoundEndEvent = gameState.lastRoundEndEvent
          /\ gameState'.lastFreezeTimeChangedEvent = gameState.lastFreezeTimeChangedEvent
      BY <1>6, <2>1 DEF Fields
    <3>0. Pending /\ Pending'
      BY <1>4, <1>5, <1>6, <1>9, <2>1, UpdateFacts DEF Pending, Fields
    <3>2. /\ gameState'.lastMatchStartedChangedEvent =
               Maybe(Pending' /\ Changed("started")', StartedEvent')
          /\ gameState'.lastRoundStartEvent =
               Maybe(Pending' /\ RoundStarted(before, entity)', StartEvent)
      BY <1>5, <1>6, <2>1, <2>7, <3>0 DEF Maybe
    <3>3. Changed("freeze")' = Changed("freeze")
      BY <1>3, UpdateFacts DEF Changed
    <3> QED
      BY <1>3, <2>7, <3>0, <3>1, <3>2, <3>3, UpdateFacts
         DEF PendingInv, IInv, StartedEvent, StartEvent
  <2>9. LogInv' /\ MatchInv'
    BY <1>3, <1>4, <1>6, <1>9, <2>1, <2>3, UpdateFacts, KeepLog DEF Fields
  <2>10. OfficialInv'
    BY <1>3, <2>3, UpdateFacts, SameOfficial
  <2> QED
    BY <2>4, <2>5, <2>6, <2>8, <2>9, <2>10 DEF IInv
<1> QED
  BY <1>7, <1>8, <1>9

(* A reason that becomes 0 starts a round and makes the end of the one   *)
(* before official; one that was 0 ends a round.  The rules of the game  *)
(* (Possible) leave no other change, and none that starts the match as   *)
(* well.                                                                 *)
LEMMA ReasonInv ==
  ASSUME IInv, Update("reason")
  PROVE  IInv'
<1>1. "reason" \in Keys
  BY DEF Keys, NoEntity
<1> USE <1>1
<1> DEFINE ev == Event("RoundEnd", 0, entity'.reason)
           begun == With(gameState, "lastRoundStartEvent", <<StartEvent>>)
           over == With(gameState, "lastRoundEndEvent", <<ev>>)
<1>2. /\ log \in Seq(Entries) /\ gameState.exists /\ inFrame /\ ~fresh /\ mimic \in BOOLEAN
      /\ gameState.isMatchStarted \in BOOLEAN /\ gameState.firstUpdateOccurred
      /\ gameState.totalRoundsPlayed = entity.played /\ entity.played \in Nat
  <2>1. /\ log \in Seq(Entries) /\ gameState.exists /\ inFrame /\ ~fresh /\ mimic \in BOOLEAN
    BY UpdateFacts, RoundsAssumption DEF IInv, TypeInv
  <2>2. entity.played \in Nat /\ entity.started \in BOOLEAN /\ before.started \in BOOLEAN
    BY RoundsAssumption DEF IInv, TypeInv, Props
  <2>3. gameState.isMatchStarted \in BOOLEAN
    BY <2>1, <2>2 DEF IInv, StateInv
  <2>4. gameState.firstUpdateOccurred /\ gameState.totalRoundsPlayed = entity.played
    BY <2>1 DEF IInv, StateInv
  <2> QED
    BY <2>1, <2>2, <2>3, <2>4
<1>3. /\ entity'.phase = entity.phase /\ entity'.freeze = entity.freeze
      /\ entity'.started = entity.started /\ entity'.played = entity.played
      /\ entity.reason = before.reason /\ before.reason # entity'.reason
      /\ entity'.reason = server.reason
      /\ before.reason \in Nat /\ entity'.reason \in Nat
  <2>1. entity' \in Props /\ before \in Props
    BY UpdateFacts DEF IInv, TypeInv
  <2>2. before.reason \in Nat /\ entity'.reason \in Nat
    BY <2>1, RoundsAssumption DEF Props
  <2> QED
    BY <2>2, UpdateFacts DEF Keys, NoEntity
<1>4. Handle(St(gameState, log), "reason", entity') =
        IF ~gameState.firstUpdateOccurred
        THEN St(With(gameState, "firstUpdateOccurred", TRUE), log)
        ELSE IF entity'.reason = 0
        THEN IF mimic THEN St(begun, RoundLog(gameState, log))
             ELSE St(gameState, Cleared(gameState, log))
        ELSE IF mimic THEN St(over, log) ELSE St(gameState, log)
  BY ZenonT(60), UpdateFacts, ReasonIs
<1>5. /\ Shape(begun) /\ Shape(over)
      /\ \A f \in Fields \ {"lastRoundStartEvent"} : begun[f] = gameState[f]
      /\ \A f \in Fields \ {"lastRoundEndEvent"} : over[f] = gameState[f]
      /\ begun.lastRoundStartEvent = <<StartEvent>> /\ over.lastRoundEndEvent = <<ev>>
  BY DEF With, Shape, Fields
<1> HIDE DEF begun, over
<1>6. /\ IF entity'.reason = 0
         THEN IF mimic THEN gameState' = begun /\ log' = RoundLog(gameState, log)
              ELSE gameState' = gameState /\ log' = Cleared(gameState, log)
         ELSE log' = log /\ gameState' = IF mimic THEN over ELSE gameState
  <2>1. CASE entity'.reason = 0 /\ mimic
    <3> DEFINE more == RoundLog(gameState, log)
    <3>1. Handle(St(gameState, log), "reason", entity') = St(begun, more)
      BY <1>2, <1>4, <2>1
    <3> HIDE DEF more
    <3>2. gameState' = begun /\ log' = more
      BY <3>1, UpdateFacts, GotIs
    <3> QED
      BY <2>1, <3>2 DEF more
  <2>2. CASE entity'.reason = 0 /\ ~mimic
    <3>1. Handle(St(gameState, log), "reason", entity') = St(gameState, Cleared(gameState, log))
      BY <1>2, <1>4, <2>2
    <3> QED
      BY <2>2, <3>1, UpdateFacts, GotIs
  <2>3. CASE entity'.reason # 0
    <3>1. Handle(St(gameState, log), "reason", entity') =
            St(IF mimic THEN over ELSE gameState, log)
      BY <1>2, <1>4, <2>3
    <3>2. gameState' = (IF mimic THEN over ELSE gameState) /\ log' = log
      BY <3>1, UpdateFacts, GotIs
    <3> QED
      BY <2>3, <3>2
  <2> QED
    BY <2>1, <2>2, <2>3
<1>7. /\ Shape(gameState')
      /\ \A f \in Fields \ {"lastRoundStartEvent", "lastRoundEndEvent"} :
           gameState'[f] = gameState[f]
  BY <1>5, <1>6, UpdateFacts
<1>8. /\ gameState'.exists = gameState.exists
      /\ gameState'.firstUpdateOccurred = gameState.firstUpdateOccurred
      /\ gameState'.isFreezetime = gameState.isFreezetime
      /\ gameState'.isMatchStarted = gameState.isMatchStarted
      /\ gameState'.gamePhase = gameState.gamePhase
      /\ gameState'.totalRoundsPlayed = gameState.totalRoundsPlayed
      /\ gameState'.lastFreezeTimeChangedEvent = gameState.lastFreezeTimeChangedEvent
      /\ gameState'.lastMatchStartedChangedEvent = gameState.lastMatchStartedChangedEvent
  BY <1>7 DEF Fields
<1>9. /\ log' \in Seq(Entries)
      /\ \A e, d : e.t \notin {"clear", "RoundEndOfficial"} /\ Tells(log, d, e)
           => Tells(log', d, e)
      /\ Tells(log, FALSE, OfficialEvent)
           => Tells(log', mimic /\ entity'.reason = 0 /\ entity.played > 0, OfficialEvent)
      /\ ~mimic => \A d : Tells(log, d, OfficialEvent) => Tells(log', d, OfficialEvent)
  <2>1. CASE entity'.reason = 0 /\ mimic
    <3>1. RoundTold(RoundLog(gameState, log), log, entity.played)
      BY <1>2, RoundLogTold
    <3> QED
      BY ZenonT(60), <1>6, <2>1, <3>1 DEF RoundTold, Tells
  <2>2. CASE entity'.reason = 0 /\ ~mimic
    <3>1. OfficialEvent.t # "clear"
      BY DEF OfficialEvent, Event
    <3> QED
      <4>1. log' = Cleared(gameState, log)
        BY <1>6, <2>2
      <4>2. log' \in Seq(Entries) /\ \A e, d : e.t # "clear" /\ Tells(log, d, e) => Tells(log', d, e)
        BY <1>2, <4>1, ClearedTold
      <4>3. \A d : Tells(log, d, OfficialEvent) => Tells(log', d, OfficialEvent)
        BY <3>1, <4>2
      <4>4. Tells(log, FALSE, OfficialEvent) => Tells(log', mimic /\ entity'.reason = 0 /\ entity.played > 0, OfficialEvent)
        BY <2>2, <4>3 DEF Tells
      <4> QED
        BY <2>2, <4>2, <4>3, <4>4
  <2>3. CASE entity'.reason # 0
    BY <1>2, <1>6, <2>3 DEF Tells
  <2> QED
    BY <2>1, <2>2, <2>3
<1>10. TypeInv'
  BY <1>7, <1>9, UpdateFacts DEF TypeInv, Shape, IInv
<1>11. EntityInv'
  BY <1>8, UpdateFacts DEF EntityInv, IInv
<1>12. StateInv'
  BY <1>3, <1>8, UpdateFacts DEF StateInv, IInv
<1>13. ~RoundEnded(before, entity)
  BY <1>3 DEF RoundEnded
<1>14. PendingInv'
  <2>1. Pending' = Pending /\ Pending = mimic
    <3>1. gameState'.exists /\ gameState.exists /\ inFrame /\ inFrame' /\ mimic' = mimic
          /\ mimic \in BOOLEAN
      BY <1>2, <1>8, UpdateFacts
    <3> QED
      BY <3>1 DEF Pending
  <2>2. PendingInv
    BY DEF IInv
  <2>3. /\ gameState'.lastFreezeTimeChangedEvent =
             Maybe((Pending /\ Changed("freeze"))', Event("freeze", before.freeze, entity.freeze)')
        /\ gameState'.lastMatchStartedChangedEvent =
             Maybe((Pending /\ Changed("started"))', Event("started", before.started, entity.started)')
    <3>1. Changed("freeze")' = Changed("freeze") /\ Changed("started")' = Changed("started")
      BY <1>3, UpdateFacts DEF Changed
    <3> QED
      BY <1>3, <1>8, <2>1, <2>2, <3>1, UpdateFacts DEF PendingInv
  <2>4. CASE entity'.reason = 0
    <3>1. RoundStarted(before, entity)' /\ ~RoundEnded(before, entity)'
      BY <1>3, <2>4, UpdateFacts DEF RoundStarted, RoundEnded
    <3>2. gameState'.lastRoundEndEvent = gameState.lastRoundEndEvent
      BY <1>5, <1>6, <2>4 DEF Fields
    <3>3. gameState'.lastRoundStartEvent = IF mimic THEN <<StartEvent>> ELSE gameState.lastRoundStartEvent
      BY <1>5, <1>6, <2>4
    <3> QED
      BY <1>13, <2>1, <2>2, <2>3, <3>1, <3>2, <3>3 DEF PendingInv, Maybe, StartEvent
  <2>5. CASE entity'.reason # 0
    <3>1. before.reason = 0
      BY <1>3, <2>5, UpdateFacts DEF Possible
    <3>2. RoundEnded(before, entity)' /\ ~RoundStarted(before, entity)'
      BY <1>3, <2>5, <3>1, UpdateFacts DEF RoundStarted, RoundEnded
    <3>3. ~RoundStarted(before, entity)
      <4>1. entity.started \in {before.started, server.started}
        BY UpdateFacts DEF IInv, EntityInv, Keys, NoEntity
      <4> QED
        BY <1>3, <2>5, <3>1, <4>1, UpdateFacts DEF RoundStarted, Possible
    <3>4. gameState'.lastRoundStartEvent = gameState.lastRoundStartEvent
      BY <1>5, <1>6, <2>5 DEF Fields
    <3>5. gameState'.lastRoundEndEvent = IF mimic THEN <<ev>> ELSE gameState.lastRoundEndEvent
      BY <1>5, <1>6, <2>5
    <3>6. gameState'.lastRoundStartEvent =
            Maybe((Pending /\ RoundStarted(before, entity))', Event("RoundStart", 0, 0))
      BY <2>1, <2>2, <3>2, <3>3, <3>4 DEF PendingInv, Maybe
    <3>7. gameState'.lastRoundEndEvent =
            Maybe((Pending /\ ~fresh /\ RoundEnded(before, entity))', ev)
      <4>1. ~fresh'
        BY <1>2, UpdateFacts
      <4>2. CASE mimic
        BY <2>1, <3>2, <3>5, <4>1, <4>2 DEF Maybe
      <4>3. CASE ~mimic
        <5>1. gameState.lastRoundEndEvent = None
          BY <2>1, <2>2, <4>3 DEF PendingInv, Maybe
        <5> QED
          BY <2>1, <3>5, <4>3, <5>1 DEF Maybe
      <4> QED
        BY <4>2, <4>3
    <3> QED
      BY <2>3, <3>6, <3>7 DEF PendingInv
  <2> QED
    BY <2>4, <2>5
<1>15. LogInv' /\ MatchInv'
  BY <1>2, <1>3, <1>8, <1>9, UpdateFacts, KeepLog
<1>16. OfficialInv'
  <2>1. CASE mimic
    <3>1. Tells(log, FALSE, OfficialEvent)
      BY <1>2, <1>3, <2>1 DEF IInv, OfficialInv, OfficialEvent, Tells
    <3> DEFINE c == entity'.reason = 0 /\ entity.played > 0
    <3>2. Tells(log', c, OfficialEvent) /\ c \in BOOLEAN
      BY <1>9, <2>1, <3>1 DEF Tells
    <3>3. c => ~fresh' /\ entity'.reason = 0 /\ before'.reason # 0
      BY <1>2, <1>3, UpdateFacts
    <3>4. ~fresh' /\ entity'.reason = 0 /\ before'.reason # 0
          /\ before'.played > 0 /\ server'.played > 0 => c
      <4>1. entity.played \in {before.played, server.played}
        BY UpdateFacts DEF IInv, EntityInv, Keys, NoEntity
      <4> QED
        BY <4>1, UpdateFacts
    <3> HIDE DEF c
    <3> QED
      BY <2>1, <3>2, <3>3, <3>4, UpdateFacts DEF OfficialInv, OfficialEvent
  <2>2. CASE ~mimic
    <3>1. PICK c \in BOOLEAN : Tells(log, c, OfficialEvent) /\ (c <=> Came("round_officially_ended"))
      BY <1>2, <2>2 DEF IInv, OfficialInv, OfficialEvent
    <3>2. Came("round_officially_ended")' = Came("round_officially_ended")
      BY UpdateFacts DEF Came
    <3> QED
      BY <1>9, <2>2, <3>1, <3>2, UpdateFacts DEF OfficialInv, OfficialEvent
  <2> QED
    BY <2>1, <2>2
<1> QED
  BY <1>10, <1>11, <1>12, <1>14, <1>15, <1>16 DEF IInv

(* The types of the properties of the entity.                            *)
LEMMA PropsTyped ==
  ASSUME NEW p \in Props
  PROVE  /\ p.freeze \in BOOLEAN /\ p.started \in BOOLEAN
         /\ p.phase \in Nat /\ p.reason \in Nat /\ p.played \in Nat
<1>1. p.freeze \in BOOLEAN /\ p.started \in BOOLEAN
  BY DEF Props
<1>2. p.phase \in Nat /\ p.played \in Nat
  <2>1. p.phase \in Phases /\ p.played \in 0 .. MaxPlayed
    BY DEF Props
  <2>2. Phases \subseteq Nat /\ MaxPlayed \in Nat
    BY RoundsAssumption
  <2>3. p.phase \in Nat
    BY <2>1, <2>2
  <2>4. p.played \in Nat
    BY <2>1, <2>2
  <2> QED
    BY <2>3, <2>4
<1>3. p.reason \in Reasons \cup {0}
  BY DEF Props
<1>4. CASE p.reason = 0
  BY <1>1, <1>2, <1>4
<1>5. CASE p.reason \in Reasons
  BY <1>1, <1>2, <1>5, RoundsAssumption
<1> QED
  BY <1>3, <1>4, <1>5

(* The entity is created: all handlers run, on the log of a frame that    *)
(* told of nothing.  The reason it is created with is neither a start nor *)
(* an end.                                                                *)
LEMMA CreateInv ==
  ASSUME IInv, Create
  PROVE  IInv'
<1> DEFINE e == server
           r == server.started /\ server.reason = 0
           g0 == With(gameState, "exists", TRUE)
           k0 == IF mimic THEN With(g0, "lastFreezeTimeChangedEvent", <<FreezeEvent'>>) ELSE g0
           g1 == With(k0, "isFreezetime", server.freeze)
           l1 == More(<< >>, ~mimic, FreezeEvent', FALSE)
           k1 == With(g1, "lastMatchStartedChangedEvent", <<StartedEvent'>>)
           g2 == IF ~mimic THEN With(g1, "isMatchStarted", server.started)
                 ELSE IF r THEN With(k1, "lastRoundStartEvent", <<StartEvent>>) ELSE k1
           l2 == IF ~mimic THEN More(l1, TRUE, StartedEvent', server.started)
                 ELSE IF r THEN RoundLog(k1, l1) ELSE l1
           g3 == With(g2, "firstUpdateOccurred", TRUE)
           g4 == With(g3, "gamePhase", server.phase)
           l4 == More(l2, TRUE, PhaseEvent', g3.isMatchStarted)
           g5 == With(g4, "totalRoundsPlayed", server.played)
<1>1. /\ inFrame /\ ~gameState.exists /\ entity' = server /\ fresh' = TRUE
      /\ mimic' = mimic /\ server' = server /\ before' = before /\ due' = due
      /\ inFrame' = inFrame
  BY DEF Create
<1>2. /\ TypeInv /\ EntityInv /\ StateInv /\ PendingInv
      /\ entity = NoEntity /\ before = NoEntity /\ due = {} /\ log = << >>
      /\ Shape(gameState) /\ mimic \in BOOLEAN /\ server \in Props
  BY <1>1, RoundsAssumption DEF IInv, TypeInv, EntityInv, Shape
<1>3. /\ gameState.firstUpdateOccurred = FALSE /\ gameState.isFreezetime = FALSE
      /\ gameState.isMatchStarted = FALSE /\ gameState.gamePhase = 0
      /\ gameState.totalRoundsPlayed = 0
      /\ gameState.lastRoundStartEvent = None /\ gameState.lastRoundEndEvent = None
      /\ gameState.lastFreezeTimeChangedEvent = None
      /\ gameState.lastMatchStartedChangedEvent = None
  <2>1. /\ gameState.isFreezetime = FALSE /\ gameState.isMatchStarted = FALSE
        /\ gameState.gamePhase = 0 /\ gameState.totalRoundsPlayed = 0
    BY <1>2 DEF StateInv, NoEntity
  <2>2. gameState.firstUpdateOccurred = FALSE
    BY <1>1, <1>2 DEF StateInv
  <2>3. ~Pending
    BY <1>1 DEF Pending
  <2> QED
    BY <1>2, <2>1, <2>2, <2>3 DEF PendingInv, Maybe
<1>4. /\ server.freeze \in BOOLEAN /\ server.started \in BOOLEAN /\ server.phase \in Nat
      /\ server.reason \in Nat /\ server.played \in Nat
  <2>1. server \in Props
    BY <1>2
  <2> QED
    BY <2>1, PropsTyped
<1>5. /\ FreezeEvent' = Event("freeze", FALSE, server.freeze)
      /\ StartedEvent' = Event("started", FALSE, server.started)
      /\ PhaseEvent' = Event("phase", 0, server.phase)
  BY <1>1, <1>2 DEF FreezeEvent, StartedEvent, PhaseEvent, NoEntity
<1>6. /\ FreezeEvent' \in Events /\ StartedEvent' \in Events /\ PhaseEvent' \in Events
      /\ FreezeEvent'.t = "freeze" /\ StartedEvent'.t = "started" /\ PhaseEvent'.t = "phase"
      /\ OfficialEvent.t = "RoundEndOfficial"
  BY <1>4, <1>5 DEF Event, Events, Types, Datum, OfficialEvent
<1>7. Shape(g0) /\ Becomes(HandleAll(St(g0, << >>), server))
  <2>1. [gameState EXCEPT !.exists = TRUE] = g0
    BY <1>2 DEF Shape, With, Fields
  <2> QED
    BY <1>2, <2>1 DEF Create, St, Shape, With
<1>8. /\ Shape(k0) /\ Shape(g1) /\ Shape(k1) /\ Shape(g2) /\ Shape(g3) /\ Shape(g4) /\ Shape(g5)
  BY ZenonT(60), <1>7 DEF Shape, With
<1>9. Handle(St(g0, << >>), "freeze", e) = St(g1, l1)
  <2>1. g0.isFreezetime = FALSE /\ g0.isMatchStarted = FALSE
    BY <1>3 DEF With, Fields
  <2> HIDE DEF g0
  <2> QED
    BY <1>5, <1>7, <2>1, FreezeIs
<1>10. Handle(St(g1, l1), "started", e) = St(g2, l2)
  <2>1. g1.isMatchStarted = FALSE
    BY <1>3 DEF With, Fields
  <2> HIDE DEF g1, l1
  <2>2. Handle(St(g1, l1), "started", e) =
          IF ~mimic
          THEN St(With(g1, "isMatchStarted", e.started), More(l1, TRUE, StartedEvent', e.started))
          ELSE IF e.started /\ e.reason = 0
          THEN St(With(k1, "lastRoundStartEvent", <<StartEvent>>), RoundLog(k1, l1))
          ELSE St(k1, l1)
    <3>1. StartedEvent' = Event("started", g1.isMatchStarted, e.started)
      BY <1>5, <2>1
    <3> HIDE DEF k1
    <3>2. With(g1, "lastMatchStartedChangedEvent", <<StartedEvent'>>) = k1
      BY DEF k1
    <3>3. Shape(g1)
      BY <1>8
    <3>4. Handle(St(g1, l1), "started", e) =
            IF ~mimic
            THEN St(With(g1, "isMatchStarted", e.started),
                    More(l1, TRUE, Event("started", g1.isMatchStarted, e.started), e.started))
            ELSE IF e.started /\ e.reason = 0
            THEN St(With(With(g1, "lastMatchStartedChangedEvent",
                              <<Event("started", g1.isMatchStarted, e.started)>>),
                         "lastRoundStartEvent", <<StartEvent>>),
                    RoundLog(With(g1, "lastMatchStartedChangedEvent",
                                  <<Event("started", g1.isMatchStarted, e.started)>>), l1))
            ELSE St(With(g1, "lastMatchStartedChangedEvent",
                         <<Event("started", g1.isMatchStarted, e.started)>>), l1)
      BY <3>3, StartedIs
    <3> QED
      BY <3>1, <3>2, <3>4
  <2> QED
    BY <2>2
<1>11. Handle(St(g2, l2), "reason", e) = St(g3, l2)
  <2>1. g2.firstUpdateOccurred = FALSE
    BY <1>3 DEF With, Fields
  <2> HIDE DEF g2, l2
  <2> QED
    BY <1>8, <2>1, ReasonIs
<1>12. Handle(St(g3, l2), "phase", e) = St(g4, l4)
  <2>1. g3.gamePhase = 0
    BY <1>3 DEF With, Fields
  <2> HIDE DEF g3, l2
  <2> QED
    BY <1>5, <1>8, <2>1, PhaseIs
<1>13. Handle(St(g4, l4), "played", e) = St(g5, l4)
  <2> HIDE DEF g4, l4
  <2> QED
    BY <1>8, PlayedIs
<1>14. gameState' = g5 /\ log' = l4
  <2> HIDE DEF g0, g1, g2, g3, g4, g5, l1, l2, l4
  <2>1. HandleAll(St(g0, << >>), server) = St(g5, l4)
    BY <1>9, <1>10, <1>11, <1>12, <1>13 DEF HandleAll
  <2> QED
    BY <1>7, <2>1, GotIs DEF Becomes
<1>15. /\ gameState'.exists = TRUE /\ gameState'.firstUpdateOccurred = TRUE
       /\ gameState'.isFreezetime = server.freeze
       /\ gameState'.isMatchStarted = (IF mimic THEN FALSE ELSE server.started)
       /\ gameState'.gamePhase = server.phase /\ gameState'.totalRoundsPlayed = server.played
       /\ gameState'.lastRoundEndEvent = None
  BY <1>3, <1>14 DEF With, Fields
<1>16. /\ gameState'.lastRoundStartEvent = Maybe(mimic /\ r, StartEvent)
       /\ gameState'.lastFreezeTimeChangedEvent = Maybe(mimic, FreezeEvent')
       /\ gameState'.lastMatchStartedChangedEvent = Maybe(mimic, StartedEvent')
  BY <1>3, <1>14 DEF With, Fields, Maybe
<1>17. /\ k1.totalRoundsPlayed = 0 /\ k1.isMatchStarted = FALSE /\ g3.isMatchStarted \in BOOLEAN
  BY <1>3, <1>4 DEF With, Fields
<1> HIDE DEF g0, k0, g1, k1, g2, g3, g4, g5
<1>18. /\ l1 \in Seq(Entries) /\ Tells(l1, ~mimic, FreezeEvent')
       /\ \A x : x.t # "freeze" => Tells(l1, FALSE, x)
  <2>1. Adds(l1, << >>, ~mimic, FreezeEvent', FALSE)
    BY <1>2, <1>6, NothingTold, OneMore
  <2> QED
    BY <1>6, <2>1, NothingTold DEF Adds
<1> HIDE DEF l1
<1>19. /\ l2 \in Seq(Entries) /\ Tells(l2, ~mimic, FreezeEvent') /\ Tells(l2, ~mimic, StartedEvent')
       /\ \A x : x.t \notin {"freeze", "started", "clear"} => Tells(l2, FALSE, x)
  <2>1. CASE ~mimic
    <3>1. Adds(l2, l1, TRUE, StartedEvent', server.started)
      BY <1>4, <1>6, <1>18, <2>1, OneMore
    <3>2. Tells(l1, FALSE, StartedEvent')
      BY <1>6, <1>18
    <3>3. Tells(l2, TRUE, StartedEvent')
      BY <3>1, <3>2 DEF Adds
    <3>4. \A x, d : x.t # "started" /\ Tells(l1, d, x) => Tells(l2, d, x)
      BY <1>6, <3>1 DEF Adds
    <3>5. Tells(l2, ~mimic, FreezeEvent')
      BY <1>6, <1>18, <3>4
    <3>6. \A x : x.t \notin {"freeze", "started", "clear"} => Tells(l2, FALSE, x)
      BY <1>18, <3>4
    <3>7. Tells(l2, ~mimic, StartedEvent')
      BY <2>1, <3>3 DEF Tells
    <3> QED
      BY <3>1, <3>5, <3>6, <3>7 DEF Adds
  <2>2. CASE mimic /\ r
    <3>1. RoundTold(RoundLog(k1, l1), l1, k1.totalRoundsPlayed)
      <4>1. k1.totalRoundsPlayed \in Nat
        BY <1>17
      <4>2. k1.isMatchStarted \in BOOLEAN
        BY <1>17, Zenon
      <4> QED
        BY <1>18, <4>1, <4>2, RoundLogTold
    <3>2. RoundTold(l2, l1, 0)
      BY <1>17, <2>2, <3>1
    <3> HIDE DEF l2
    <3>3. \A x : x.t \notin {"clear", "RoundEndOfficial"} /\ Tells(l1, ~mimic, x) => Tells(l2, ~mimic, x)
      BY <3>2 DEF RoundTold
    <3>4. Tells(l2, ~mimic, FreezeEvent')
      BY <1>6, <1>18, <3>3
    <3>5. Tells(l1, FALSE, StartedEvent')
      BY <1>6, <1>18
    <3>6. Tells(l2, ~mimic, StartedEvent')
      BY <1>6, <2>2, <3>3, <3>5 DEF Tells
    <3>7. Tells(l2, FALSE, OfficialEvent)
      BY <1>6, <1>18, <3>2 DEF RoundTold
    <3>8. ASSUME NEW x, x.t \notin {"freeze", "started", "clear"} PROVE Tells(l2, FALSE, x)
      <4>1. Tells(l1, FALSE, x)
        BY <1>18, <3>8
      <4>2. CASE x.t = "RoundEndOfficial"
        BY <1>6, <3>7, <4>2 DEF Tells
      <4>3. CASE x.t # "RoundEndOfficial"
        BY <3>2, <3>8, <4>1, <4>3 DEF RoundTold
      <4> QED
        BY <4>2, <4>3
    <3> QED
      BY <3>2, <3>4, <3>6, <3>8 DEF RoundTold
  <2>3. CASE mimic /\ ~r
    <3>1. Tells(l1, ~mimic, StartedEvent')
      BY <1>6, <1>18, <2>3 DEF Tells
    <3>2. l2 = l1
      BY <2>3
    <3> QED
      BY <1>18, <3>1, <3>2
  <2> QED
    BY <1>2, <2>1, <2>2, <2>3
<1> HIDE DEF l2
<1>20. /\ log' \in Seq(Entries) /\ Tells(log', ~mimic, FreezeEvent')
       /\ Tells(log', ~mimic, StartedEvent') /\ Tells(log', TRUE, PhaseEvent')
       /\ \A t \in {"RoundStart", "RoundEnd", "RoundEndOfficial"} : At(log', t) = {}
  <2>1. Adds(log', l2, TRUE, PhaseEvent', g3.isMatchStarted)
    BY <1>6, <1>14, <1>17, <1>19, OneMore
  <2>2. Tells(l2, FALSE, PhaseEvent')
    BY <1>6, <1>19
  <2>3. \A x, d : x.t # "phase" /\ Tells(l2, d, x) => Tells(log', d, x)
    BY <1>6, <2>1 DEF Adds
  <2>4. Tells(log', ~mimic, FreezeEvent') /\ Tells(log', ~mimic, StartedEvent')
    BY <1>6, <1>19, <2>3
  <2>5. ASSUME NEW t \in {"RoundStart", "RoundEnd", "RoundEndOfficial"}
        PROVE  At(log', t) = {}
    <3> DEFINE x == Event(t, 0, 0)
    <3>1. x.t = t
      BY DEF Event
    <3> HIDE DEF x
    <3>2. Tells(l2, FALSE, x)
      BY <1>19, <3>1
    <3>3. At(l2, t) = {}
      BY <3>1, <3>2 DEF Tells
    <3>4. At(log', t) = At(l2, t)
      BY <1>6, <2>1 DEF Adds
    <3> QED
      BY <3>3, <3>4
  <2>6. Tells(log', TRUE, PhaseEvent')
    BY <2>1, <2>2 DEF Adds
  <2> QED
    BY <2>1, <2>4, <2>5, <2>6 DEF Adds
<1> HIDE DEF l4
<1>21. TypeInv'
  <2>1. gameState' = [f \in Fields |-> gameState'[f]]
    BY <1>8, <1>14 DEF Shape
  <2> QED
    BY <1>1, <1>2, <1>20, <2>1 DEF TypeInv
<1>22. EntityInv'
  BY <1>1, <1>2, <1>15 DEF EntityInv
<1>23. StateInv'
  BY <1>1, <1>2, <1>15 DEF StateInv, NoEntity
<1>24. /\ (Pending = mimic)' /\ Pending' = mimic
       /\ Changed("freeze")' /\ Changed("started")' /\ Changed("phase")'
       /\ RoundStarted(before, entity)' = r
  <2>1. RoundStarted(before, entity)' = r
    BY <1>1, <1>2 DEF RoundStarted, NoEntity
  <2> HIDE DEF r
  <2> QED
    BY <1>1, <1>2, <1>15, <2>1 DEF Pending, Changed
<1> HIDE DEF r
<1>25. PendingInv'
  BY <1>1, <1>15, <1>16, <1>24 DEF PendingInv, Maybe, StartEvent, FreezeEvent, StartedEvent
<1>26. \A name : ~Came(name)'
  BY <1>1 DEF Came
<1>27. LogInv'
  <2>1. \A t, old, new : Event(t, old, new).t = t
    BY DEF Event
  <2>2. /\ Tells(log', (~Pending /\ Changed("freeze"))', FreezeEvent')
        /\ Tells(log', (~Pending /\ Changed("started"))', StartedEvent')
        /\ Tells(log', Changed("phase")', PhaseEvent')
    BY <1>20, <1>24 DEF Tells
  <2>3. /\ ~(~Pending /\ (IF mimic THEN RoundStarted(before, entity) ELSE Came("round_start")))'
        /\ ~(~Pending /\ (IF mimic THEN ~fresh /\ RoundEnded(before, entity)
                          ELSE Came("round_end")))'
    BY <1>1, <1>24, <1>26
  <2>4. /\ Tells(log', FALSE, Event("RoundStart", 0, 0))
        /\ Tells(log', FALSE, Event("RoundEnd", 0, server'.reason))
    BY <1>20, <2>1 DEF Tells
  <2>5. /\ Tells(log', (~Pending /\ (IF mimic THEN RoundStarted(before, entity) ELSE Came("round_start")))',
                 Event("RoundStart", 0, 0))
        /\ Tells(log', (~Pending /\ (IF mimic THEN ~fresh /\ RoundEnded(before, entity)
                          ELSE Came("round_end")))', Event("RoundEnd", 0, server'.reason))
    BY <2>3, <2>4 DEF Tells
  <2> QED
    BY <2>2, <2>5 DEF LogInv, FreezeEvent, StartedEvent, PhaseEvent
<1>28. OfficialInv'
  <2>1. Tells(log', FALSE, OfficialEvent)
    BY <1>6, <1>20 DEF Tells
  <2>2. fresh' /\ ~Came("round_officially_ended")'
    BY <1>1, <1>26
  <2> QED
    BY <2>1, <2>2 DEF OfficialInv, OfficialEvent
<1>29. MatchInv'
  <2>1. \A t \in {"RoundStart", "RoundEnd", "RoundEndOfficial"} : At(log', t) = {}
    BY <1>20
  <2> QED
    BY <2>1 DEF MatchInv
<1> QED
  BY <1>21, <1>22, <1>23, <1>25, <1>27, <1>28, <1>29 DEF IInv

(* Without mimic a game event of the server is told of when it comes, and *)
(* it comes once.                                                         *)
LEMMA GameEventInv ==
  ASSUME IInv, NEW name \in {"round_start", "round_end", "round_officially_ended"},
         GameEvent(name)
  PROVE  IInv'
<1> DEFINE m == gameState.isMatchStarted
           endEvent == Event("RoundEnd", 0, server.reason)
           told == IF name = "round_start" THEN StartEvent
                   ELSE IF name = "round_end" THEN endEvent ELSE OfficialEvent
           from == IF name = "round_end" THEN log ELSE Cleared(gameState, log)
<1>1. /\ inFrame /\ name \in due /\ due' = due \ {name}
      /\ mimic' = mimic /\ server' = server /\ entity' = entity /\ before' = before
      /\ inFrame' = inFrame /\ fresh' = fresh
  BY DEF GameEvent
<1>2. TypeInv /\ EntityInv /\ StateInv /\ PendingInv /\ LogInv /\ OfficialInv
  BY DEF IInv
<1>3. gameState.exists /\ ~fresh /\ ~mimic /\ log \in Seq(Entries)
      /\ name \in GameEvents(before, server)
  BY <1>1, <1>2 DEF TypeInv, EntityInv
<1>4. m \in BOOLEAN /\ server.reason \in Nat
  <2>1. server.reason \in Nat /\ entity.started \in BOOLEAN
    BY <1>2, RoundsAssumption DEF TypeInv, Props
  <2> QED
    BY <1>2, <1>3, <2>1 DEF StateInv
<1>5. gameState' = gameState /\ log' = More(from, TRUE, told, m)
  <2>1. Dispatch(St(gameState, log), ClearEvent) = St(gameState, Cleared(gameState, log))
    BY DispatchMore DEF Cleared
  <2> DEFINE st == St(gameState, log)
             cl == Dispatch(st, ClearEvent)
  <2>2. Becomes(CASE name = "round_start" -> Dispatch(cl, StartEvent)
                  [] name = "round_end" -> Dispatch(st, endEvent)
                  [] name = "round_officially_ended" -> Dispatch(cl, OfficialEvent))
    BY DEF GameEvent, St, StartEvent, OfficialEvent, ClearEvent
  <2>3. Becomes(Dispatch(St(gameState, from), told))
    <3> HIDE DEF cl, st, told, from
    <3>1. CASE name = "round_start"
      BY <2>1, <2>2, <3>1 DEF cl, st, told, from
    <3>2. CASE name = "round_end"
      BY <2>2, <3>2 DEF cl, st, told, from
    <3>3. CASE name = "round_officially_ended"
      BY <2>1, <2>2, <3>3 DEF cl, st, told, from
    <3> QED
      BY <3>1, <3>2, <3>3
  <2> DEFINE more == More(from, TRUE, told, m)
  <2>4. Dispatch(St(gameState, from), told) = St(gameState, more)
    BY DispatchMore
  <2> HIDE DEF more, told, from
  <2>5. gameState' = gameState /\ log' = more
    BY <2>3, <2>4, GotIs DEF Becomes
  <2> QED
    BY <2>5 DEF more
<1>6. /\ told \in Events
      /\ told.t = (IF name = "round_start" THEN "RoundStart"
                   ELSE IF name = "round_end" THEN "RoundEnd" ELSE "RoundEndOfficial")
  BY <1>4 DEF StartEvent, OfficialEvent, Event, Events, Types, Datum
<1>7. /\ from \in Seq(Entries)
      /\ \A e, d : e.t # "clear" /\ Tells(log, d, e) => Tells(from, d, e)
  BY <1>3, <1>4, ClearedTold
<1> HIDE DEF from, m
<1>8. Adds(log', from, TRUE, told, m)
  BY <1>4, <1>5, <1>6, <1>7, OneMore
<1>9. \A e, d : e.t \notin {"clear", told.t} /\ Tells(log, d, e) => Tells(log', d, e)
  BY <1>7, <1>8 DEF Adds
<1>10. TypeInv'
  BY <1>1, <1>2, <1>5, <1>8 DEF TypeInv, Adds
<1>11. EntityInv'
  BY <1>1, <1>2, <1>3, <1>5 DEF EntityInv
<1>12. StateInv'
  BY <1>1, <1>2, <1>5 DEF StateInv
<1>13. ~Pending /\ ~Pending'
  BY <1>1, <1>3 DEF Pending
<1>14. PendingInv'
  BY <1>2, <1>5, <1>13 DEF PendingInv, Maybe
<1>15. /\ \A n : n # name => Came(n)' = Came(n)
       /\ Came(name)' = TRUE /\ Came(name) = FALSE
  BY <1>1, <1>3 DEF Came
<1>16. \A k : Changed(k)' = Changed(k)
  BY <1>1 DEF Changed
<1>17. \A t, old, new : Event(t, old, new).t = t
  BY DEF Event
<1>18. /\ Tells(log, Changed("phase"), Event("phase", before.phase, entity.phase))
       /\ Tells(log, Changed("freeze"), Event("freeze", before.freeze, entity.freeze))
       /\ Tells(log, Changed("started"), Event("started", before.started, entity.started))
       /\ Tells(log, Came("round_start"), StartEvent)
       /\ Tells(log, Came("round_end"), endEvent)
       /\ Tells(log, Came("round_officially_ended"), OfficialEvent)
  <2>1. Tells(log, Came("round_officially_ended"), OfficialEvent)
    BY <1>2, <1>3 DEF OfficialInv, OfficialEvent, Tells
  <2>2. /\ Tells(log, Changed("phase"), Event("phase", before.phase, entity.phase))
        /\ Tells(log, Changed("freeze"), Event("freeze", before.freeze, entity.freeze))
        /\ Tells(log, Changed("started"), Event("started", before.started, entity.started))
    BY <1>2, <1>3, <1>13 DEF LogInv, Tells
  <2>3. Tells(log, Came("round_start"), StartEvent) /\ Tells(log, Came("round_end"), endEvent)
    BY <1>2, <1>3, <1>13 DEF LogInv, Tells, StartEvent
  <2> QED
    BY <2>1, <2>2, <2>3
<1>19. /\ Tells(log', Changed("phase")', Event("phase", before.phase, entity.phase))
       /\ Tells(log', Changed("freeze")', Event("freeze", before.freeze, entity.freeze))
       /\ Tells(log', Changed("started")', Event("started", before.started, entity.started))
  BY <1>6, <1>9, <1>16, <1>17, <1>18
<1>20. /\ StartEvent.t = "RoundStart" /\ endEvent.t = "RoundEnd"
       /\ OfficialEvent.t = "RoundEndOfficial"
  BY <1>17 DEF StartEvent, OfficialEvent
<1>21. /\ Tells(log', Came("round_start")', StartEvent)
       /\ Tells(log', Came("round_end")', endEvent)
       /\ Tells(log', Came("round_officially_ended")', OfficialEvent)
  <2>1. Tells(from, FALSE, told) => Tells(log', TRUE, told)
    BY <1>8 DEF Adds
  <2>2. CASE name = "round_start"
    <3>1. told = StartEvent /\ Tells(log, FALSE, StartEvent)
      BY <1>15, <1>18, <2>2
    <3> HIDE DEF told, endEvent
    <3>2. Tells(log', TRUE, StartEvent)
      BY <1>7, <1>20, <2>1, <3>1
    <3>3. Tells(log', Came("round_start")', StartEvent)
      BY <1>15, <2>2, <3>2
    <3> QED
      BY <1>9, <1>15, <1>18, <1>20, <2>2, <3>1, <3>3
  <2>3. CASE name = "round_end"
    <3>1. told = endEvent /\ Tells(log, FALSE, endEvent)
      BY <1>15, <1>18, <2>3
    <3> HIDE DEF told, endEvent
    <3>2. Tells(log', TRUE, endEvent)
      BY <1>7, <1>20, <2>1, <3>1
    <3>3. Tells(log', Came("round_end")', endEvent)
      BY <1>15, <2>3, <3>2
    <3> QED
      BY <1>9, <1>15, <1>18, <1>20, <2>3, <3>1, <3>3
  <2>4. CASE name = "round_officially_ended"
    <3>1. told = OfficialEvent /\ Tells(log, FALSE, OfficialEvent)
      BY <1>15, <1>18, <2>4
    <3> HIDE DEF told, endEvent
    <3>2. Tells(log', TRUE, OfficialEvent)
      BY <1>7, <1>20, <2>1, <3>1
    <3>3. Tells(log', Came("round_officially_ended")', OfficialEvent)
      BY <1>15, <2>4, <3>2
    <3> QED
      BY <1>9, <1>15, <1>18, <1>20, <2>4, <3>1, <3>3
  <2> QED
    BY <2>2, <2>3, <2>4
<1>22. LogInv'
  BY <1>1, <1>3, <1>13, <1>19, <1>21 DEF LogInv, StartEvent, Tells
<1>23. OfficialInv'
  <2>1. Came("round_officially_ended")' \in BOOLEAN
    BY DEF Came
  <2> QED
    BY <1>1, <1>3, <1>21, <2>1 DEF OfficialInv, OfficialEvent
<1>24. MatchInv'
  BY <1>1, <1>3 DEF MatchInv
<1> QED
  BY <1>10, <1>11, <1>12, <1>14, <1>22, <1>23, <1>24 DEF IInv

(* Every step keeps the invariant.                                       *)
LEMMA StepInv == IInv /\ [Next]_vars => IInv'
<1> SUFFICES ASSUME IInv, [Next]_vars PROVE IInv'
  OBVIOUS
<1>1. CASE Tick
  BY <1>1, TickInv
<1>2. CASE Create
  BY <1>2, CreateInv
<1>3. ASSUME NEW k \in Keys, Update(k) PROVE IInv'
  <2>1. k \in {"freeze", "started", "reason", "phase", "played"}
    BY DEF Keys, NoEntity
  <2> QED
    BY <1>3, <2>1, FreezeInv, StartedInv, ReasonInv, PhaseInv, PlayedInv
<1>4. CASE EndFrame
  BY <1>4, EndFrameInv
<1>5. ASSUME NEW name \in {"round_start", "round_end", "round_officially_ended"}, GameEvent(name)
      PROVE  IInv'
  BY <1>5, GameEventInv
<1>6. CASE UNCHANGED vars
  BY SMTT(60), <1>6 DEF vars, IInv, TypeInv, EntityInv, StateInv, PendingInv, Pending, LogInv, OfficialInv,
              MatchInv, Changed, Came, RoundStarted, RoundEnded, Tells, At
<1> QED
  BY <1>1, <1>2, <1>3, <1>4, <1>5, <1>6 DEF Next

(* The inductive invariant holds in every reachable state.               *)
THEOREM InductiveInvariant == Spec => []IInv
BY InitInv, StepInv, PTL DEF Spec

(* What Tells says, in the terms of the properties.                      *)
LEMMA ToldIs ==
  ASSUME NEW t, NEW old, NEW new, NEW c, Tells(log, c, Event(t, old, new))
  PROVE  IF c THEN Once(t) /\ \A i \in Told(t) : log[i].e.old = old /\ log[i].e.new = new
         ELSE Told(t) = {}
<1>1. Event(t, old, new).t = t /\ Event(t, old, new).old = old /\ Event(t, old, new).new = new
  BY DEF Event
<1>2. Told(t) = At(log, t)
  BY DEF Told, At
<1> QED
  BY <1>1, <1>2 DEF Tells, Once

(* When a frame has ended nothing waits and no game event is missing.    *)
LEMMA AtFrameEnd ==
  ASSUME IInv, FrameEnded
  PROVE  /\ gameState.exists /\ entity = server /\ due = {} /\ ~Pending
         /\ mimic \in BOOLEAN /\ fresh \in BOOLEAN
         /\ fresh => before = NoEntity
         /\ ~fresh => Possible(before, server)
         /\ \A name : Came(name) <=> ~fresh /\ name \in GameEvents(before, server)
<1>1. gameState.exists /\ ~inFrame
  BY DEF FrameEnded
<1>2. mimic \in BOOLEAN /\ fresh \in BOOLEAN
  BY RoundsAssumption DEF IInv, TypeInv
<1>3. /\ entity = server /\ due = {} /\ (fresh => before = NoEntity)
      /\ (~fresh => Possible(before, server))
  BY <1>1 DEF IInv, EntityInv
<1> QED
  BY <1>1, <1>2, <1>3 DEF Pending, Came

(* The game state agrees with the entity after every frame, and no event *)
(* is left waiting for the next (gameState, bindGameRules).              *)
THEOREM TypeCorrect == Spec => []TypeOK
<1>1. IInv => TypeOK
  <2> SUFFICES ASSUME IInv PROVE TypeOK
    OBVIOUS
  <2>1. \A i \in 1 .. Len(log) : log[i].matchStarted \in BOOLEAN
    <3>1. log \in Seq(Entries)
      BY DEF IInv, TypeInv
    <3>2. \A i \in 1 .. Len(log) : log[i] \in Entries
      BY <3>1
    <3> QED
      BY <3>2 DEF Entries
  <2>2. gameState.totalRoundsPlayed \in 0 .. MaxPlayed /\ gameState.gamePhase \in Phases
    BY DEF IInv, TypeInv, StateInv, Props
  <2>3. ASSUME FrameEnded
        PROVE  /\ gameState.isFreezetime = entity.freeze
               /\ gameState.isMatchStarted = entity.started
               /\ gameState.totalRoundsPlayed = entity.played
               /\ \A f \in {"lastRoundStartEvent", "lastFreezeTimeChangedEvent",
                            "lastRoundEndEvent", "lastMatchStartedChangedEvent"} :
                    gameState[f] = None
    <3>1. ~Pending /\ ~inFrame
      BY <2>3, AtFrameEnd DEF FrameEnded
    <3>2. /\ gameState.isFreezetime = entity.freeze
          /\ gameState.isMatchStarted = entity.started
          /\ gameState.totalRoundsPlayed = entity.played
      BY <3>1 DEF IInv, StateInv
    <3>3. /\ gameState.lastRoundStartEvent = None /\ gameState.lastRoundEndEvent = None
          /\ gameState.lastFreezeTimeChangedEvent = None
          /\ gameState.lastMatchStartedChangedEvent = None
      BY <3>1 DEF IInv, PendingInv, Maybe
    <3> QED
      BY <3>2, <3>3
  <2> QED
    BY <2>1, <2>2, <2>3 DEF TypeOK, IInv, TypeInv
<1> QED
  BY InductiveInvariant, <1>1, PTL

(* Every change of the freeze period, of the match and of the phase is    *)
(* told of once, from the value told of before to the one the entity has. *)
THEOREM ChangesToldInAChain == Spec => []ChangesChain
<1>1. IInv => ChangesChain
  <2> SUFFICES ASSUME IInv, FrameEnded,
                      NEW k \in {"freeze", "started", "phase"}
               PROVE  \/ Told(k) = {} /\ before[k] = entity[k]
                      \/ /\ Once(k)
                         /\ \A i \in Told(k) : log[i].e.old = before[k] /\ log[i].e.new = entity[k]
                         /\ before[k] # entity[k] \/ fresh
    BY DEF ChangesChain
  <2>1. Tells(log, Changed(k), Event(k, before[k], entity[k]))
    <3>1. LogInv /\ gameState.exists /\ ~Pending
      BY AtFrameEnd DEF IInv
    <3>2. CASE k = "freeze"
      BY <3>1, <3>2 DEF LogInv, Tells
    <3>3. CASE k = "started"
      BY <3>1, <3>3 DEF LogInv, Tells
    <3>4. CASE k = "phase"
      BY <3>1, <3>4 DEF LogInv
    <3> QED
      BY <3>2, <3>3, <3>4
  <2>2. IF Changed(k)
        THEN Once(k) /\ \A i \in Told(k) : log[i].e.old = before[k] /\ log[i].e.new = entity[k]
        ELSE Told(k) = {}
    BY <2>1, ToldIs
  <2> QED
    BY <2>2 DEF Changed
<1> QED
  BY InductiveInvariant, <1>1, PTL

(* The rounds that started or ended in a frame are those told of.        *)
LEMMA RoundEventsTold ==
  ASSUME IInv, FrameEnded
  PROVE  /\ mimic \/ ~fresh =>
              IF RoundStarted(before, entity) THEN Once("RoundStart") ELSE Told("RoundStart") = {}
         /\ IF RoundEnded(before, entity) /\ ~fresh
            THEN Once("RoundEnd") ELSE Told("RoundEnd") = {}
         /\ \A i \in Told("RoundEnd") : log[i].e.new = entity.reason
<1>1. LogInv /\ gameState.exists /\ ~Pending
  BY AtFrameEnd DEF IInv
<1> DEFINE s == IF mimic THEN RoundStarted(before, entity) ELSE Came("round_start")
           f == IF mimic THEN ~fresh /\ RoundEnded(before, entity) ELSE Came("round_end")
<1>2. Tells(log, s, Event("RoundStart", 0, 0)) /\ Tells(log, f, Event("RoundEnd", 0, server.reason))
  BY <1>1 DEF LogInv, Tells
<1>3. /\ Came("round_start") <=> ~fresh /\ RoundStarted(before, entity)
      /\ Came("round_end") <=> ~fresh /\ RoundEnded(before, entity)
  BY AtFrameEnd DEF GameEvents
<1>4. IF s THEN Once("RoundStart") ELSE Told("RoundStart") = {}
  BY <1>2, ToldIs
<1>5. IF f THEN Once("RoundEnd") /\ \A i \in Told("RoundEnd") : log[i].e.new = server.reason
      ELSE Told("RoundEnd") = {}
  BY <1>2, ToldIs
<1> QED
  BY <1>3, <1>4, <1>5, AtFrameEnd

(* Every round is told to start once, and to end once with its reason    *)
(* (RoundStart, RoundEnd).                                               *)
THEOREM RoundsToldOnce == Spec => []RoundsTold
<1>1. IInv => RoundsTold
  BY RoundEventsTold DEF RoundsTold
<1> QED
  BY InductiveInvariant, <1>1, PTL

(* The end of a round becomes official once, before the next starts      *)
(* (RoundEndOfficial), and is not left out.                              *)
THEOREM OfficialEndsToldOnce == Spec => []OfficialOnce
<1>1. IInv => OfficialOnce
  <2> SUFFICES ASSUME IInv, FrameEnded
               PROVE  /\ Told("RoundEndOfficial") # {} =>
                            /\ Once("RoundEndOfficial")
                            /\ before.reason # 0 /\ Told("RoundStart") # {}
                      /\ mimic => \A i \in Told("RoundEndOfficial"), j \in Told("RoundStart") : i < j
                      /\ RoundStarted(before, entity) /\ before.played > 0 /\ entity.played > 0
                           => Told("RoundEndOfficial") # {}
    BY DEF OfficialOnce
  <2>1. OfficialInv /\ MatchInv /\ gameState.exists /\ entity = server
    BY AtFrameEnd DEF IInv
  <2>2. PICK c \in BOOLEAN :
          /\ Tells(log, c, Event("RoundEndOfficial", 0, 0))
          /\ IF mimic THEN /\ c => ~fresh /\ entity.reason = 0 /\ before.reason # 0
                           /\ /\ ~fresh /\ entity.reason = 0 /\ before.reason # 0
                              /\ before.played > 0 /\ server.played > 0
                              => c
             ELSE c <=> Came("round_officially_ended")
    BY <2>1 DEF OfficialInv
  <2>3. IF c THEN Once("RoundEndOfficial") ELSE Told("RoundEndOfficial") = {}
    BY <2>2, ToldIs
  <2>4. Came("round_officially_ended") <=>
          ~fresh /\ RoundStarted(before, entity) /\ before.reason # 0 /\ before.played > 0
    BY <2>1, AtFrameEnd DEF GameEvents
  <2>5. ~fresh => (RoundStarted(before, entity) => before.reason # 0 \/ before.played = 0)
    BY <2>1, AtFrameEnd DEF RoundStarted, Possible
  <2>6. fresh => before.played = 0
    BY AtFrameEnd DEF NoEntity
  <2>7. \A t : Once(t) => Told(t) # {}
    BY DEF Once
  <2>8. c => before.reason # 0 /\ ~fresh /\ RoundStarted(before, entity)
    BY <2>2, <2>4 DEF RoundStarted
  <2>9. c => Told("RoundStart") # {}
    BY <2>7, <2>8, RoundEventsTold
  <2>10. mimic => \A i \in Told("RoundEndOfficial"), j \in Told("RoundStart") : i < j
    BY <2>1 DEF MatchInv, Told, At
  <2>11. RoundStarted(before, entity) /\ before.played > 0 /\ entity.played > 0 => c
    <3> SUFFICES ASSUME RoundStarted(before, entity), before.played > 0, entity.played > 0
                 PROVE  c
      OBVIOUS
    <3>1. ~fresh /\ before.reason # 0
      BY <2>5, <2>6
    <3>2. entity.reason = 0
      BY DEF RoundStarted
    <3> QED
      BY <2>1, <2>2, <2>4, <3>1, <3>2
  <2> QED
    BY <2>3, <2>7, <2>8, <2>9, <2>10, <2>11
<1> QED
  BY InductiveInvariant, <1>1, PTL

(* A handler of RoundStart sees the match that round belongs to, and one *)
(* of RoundEnd the match of the round that ended (IsMatchStarted).       *)
THEOREM MatchSeenIsTheRounds == Spec => []MatchOfRound
<1>1. IInv => MatchOfRound
  BY AtFrameEnd DEF IInv, MatchInv, MatchOfRound, Told, At
<1> QED
  BY InductiveInvariant, <1>1, PTL

================================================================================
