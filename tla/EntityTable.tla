------------------------------ MODULE EntityTable ------------------------------
(***************************************************************************)
(* The entities of a demo: sendtablescs2.Parser.OnPacketEntities, the      *)
(* table of entities it keeps, the handlers of their properties, and the   *)
(* second table that parser.onEntity keeps in the game state.              *)
(*                                                                         *)
(* A packet is handled in two phases.  Decoding creates, updates and       *)
(* destroys entities and runs their handlers; only when all of the packet  *)
(* is decoded, sending enters what was created in the game state, removes  *)
(* what was deleted, and tells the handlers of new entities the values     *)
(* these were created with.  A panic anywhere cuts the packet.             *)
(***************************************************************************)
EXTENDS Integers, Sequences, FiniteSets

CONSTANTS
  Index,          (* the entity indices                                     *)
  Class,          (* the server classes                                     *)
  Prop,           (* the properties, as numbers in the order of their names *)
  Bound,          (* [Class -> SUBSET Prop]: those the class's created      *)
                  (* handlers bind to a variable                            *)
  Value,          (* the values of properties                               *)
  IgnorePanic,    (* config.IgnorePacketEntitiesPanic                       *)
  MaxObjects,     (* bound: entities created                                *)
  MaxPackets,     (* bound: packets received                                *)
  MaxBaselines    (* bound: instance baselines received                     *)

ASSUME EntityAssumption ==
  /\ Index \subseteq Nat /\ Prop \subseteq Nat
  /\ Bound \in [Class -> SUBSET Prop]
  /\ IgnorePanic \in BOOLEAN

VARIABLES
  table,          (* p.entities: an object or None per index                *)
  game,           (* gameState.entities                                     *)
  heap,           (* the Entity objects created so far                      *)
  baseline,       (* p.classBaselines                                       *)
  fullPackets,    (* p.entityFullPackets, which never passes one            *)
  pc,             (* "idle", "decode" or "send"                             *)
  index,          (* the index of the last command decoded                  *)
  tuples,         (* p.tuplesCache: decoding appends, sending takes         *)
  packets, baselines,  (* how many were received                            *)
  cut, unreported,(* history: a panic cut a packet, and one of which the    *)
                  (* user is told nothing                                   *)
  lost,           (* history: indices whose entry in the game state a cut   *)
                  (* packet left behind                                     *)
  stale           (* history: the bound variables that a cut packet left    *)
                  (* behind, as <<object, property>>                        *)

tables == <<table, game, heap>>
history == <<cut, unreported, lost, stale>>
vars == <<table, game, heap, baseline, fullPackets, pc, index, tuples, packets,
          baselines, history>>

None == 0
NoValue == -1
Objects == 1 .. Len(heap)
Values == [Prop -> Value \cup {NoValue}]
Changes == UNION {[P -> Value] : P \in SUBSET Prop}
Ops == {"created", "updated", "left", "deleted"}

Overlay(state, ch) == [q \in Prop |-> IF q \in DOMAIN ch THEN ch[q] ELSE state[q]]

(* Without handlers when a created handler of the class panicked.          *)
BoundOf(o) == IF heap[o].finished THEN Bound[heap[o].class] ELSE {}

Init ==
  /\ table = [i \in Index |-> None] /\ game = [i \in Index |-> None]
  /\ heap = << >>
  /\ baseline = [c \in Class |-> [q \in Prop |-> NoValue]]
  /\ fullPackets = 0 /\ pc = "idle" /\ index = -1 /\ tuples = << >>
  /\ packets = 0 /\ baselines = 0
  /\ cut = FALSE /\ unreported = FALSE /\ lost = {} /\ stale = {}

---------------------------------------------------------------------------
(* Between packets.                                                        *)

SetInstanceBaseline(c, b) ==
  /\ pc = "idle" /\ baselines < MaxBaselines
  /\ baseline' = [baseline EXCEPT ![c] = b]
  /\ baselines' = baselines + 1
  /\ UNCHANGED <<tables, fullPackets, pc, index, tuples, packets, history>>

(* Mutant of Ignored: without the early return.                            *)
Ignored_Never(delta) == FALSE

(* A packet that is no delta is a full one, and only the first counts.     *)
Ignored(delta) == ~delta /\ fullPackets > 0

BeginPacket(delta) ==
  /\ pc = "idle" /\ packets < MaxPackets
  /\ packets' = packets + 1
  /\ fullPackets' = IF delta \/ Ignored(delta) THEN fullPackets ELSE fullPackets + 1
  /\ IF Ignored(delta)
     THEN UNCHANGED <<pc, index, tuples>>
     ELSE pc' = "decode" /\ index' = -1 /\ tuples' = << >>
  /\ UNCHANGED <<tables, baseline, baselines, history>>

---------------------------------------------------------------------------
(* A panic leaves the packet, whatever was pending, and is recovered here  *)
(* (IgnorePanic: the warning function is tested, and never called) or by   *)
(* the dispatcher, which makes it the parser's error.  behind: the tuples  *)
(* not sent; missed, more: what the operation that panics leaves behind.   *)

BindingsOf(ts) ==
  {<<ts[k].obj, q>> : k \in {j \in DOMAIN ts : ts[j].op = "created"}, q \in Prop}

(* The indices whose entry in the game state a tuple brings up to date.    *)
Renews(t) == IF t.op \in {"created", "deleted"} THEN {heap[t.obj].index} ELSE {}

IndicesOf(ts) == UNION {Renews(ts[k]) : k \in DOMAIN ts}

Cut(behind, missed, more) ==
  /\ pc' = "idle" /\ tuples' = << >>
  /\ cut' = TRUE
  /\ unreported' = (unreported \/ IgnorePanic)
  /\ lost' = missed \cup IndicesOf(behind)
  /\ stale' = stale \cup BindingsOf(behind) \cup more

CutDecoding(missed, more) == Cut(tuples, lost \cup missed, more)

(* An operation of the decoding phase ends with its tuple or in a panic.   *)
Done(o, op) ==
  /\ tuples' = Append(tuples, [obj |-> o, op |-> op])
  /\ UNCHANGED <<pc, cut, unreported, lost>>

Decodes(i) ==
  /\ pc = "decode" /\ i > index
  /\ index' = i
  /\ UNCHANGED <<game, baseline, fullPackets, packets, baselines>>

---------------------------------------------------------------------------
(* Decoding.  The entity is created over whatever was at its index; its    *)
(* baseline and the packet's values are read before the class's created    *)
(* handlers bind anything, and onCreateFinished runs right after these.    *)

NewObject(i, c, state) ==
  [index |-> i, class |-> c, active |-> TRUE, state |-> state,
   var |-> [q \in Prop |-> NoValue], finished |-> FALSE, destroyed |-> 0]

Store(i, c, ch, fin) ==
  /\ heap' = Append(heap, [NewObject(i, c, Overlay(baseline[c], ch)) EXCEPT !.finished = fin])
  /\ table' = [table EXCEPT ![i] = Len(heap) + 1]

Create(i, c, ch) ==
  /\ Decodes(i) /\ Len(heap) < MaxObjects
  /\ Store(i, c, ch, TRUE)
  /\ Done(Len(heap) + 1, "created")
  /\ UNCHANGED stale

CreateRaises(i, c, ch) ==
  /\ Decodes(i) /\ Len(heap) < MaxObjects
  /\ Store(i, c, ch, FALSE)
  /\ CutDecoding({i}, {Len(heap) + 1} \X Prop)

(* Mutant of ReadFields: the handlers run before the property is set.      *)
ReadFields_TellsFirst(o, ch, told) ==
  heap' = [heap EXCEPT ![o] =
    [@ EXCEPT !.active = TRUE, !.state = Overlay(@, ch),
              !.var = [q \in Prop |-> IF q \in told THEN heap[o].state[q] ELSE @[q]]]]

(* readFields sets each property and runs its handlers before the next.    *)
ReadFields(o, ch, told) ==
  heap' = [heap EXCEPT ![o] =
    [heap[o] EXCEPT !.active = TRUE, !.state = Overlay(heap[o].state, ch),
                    !.var = [q \in Prop |-> IF q \in told THEN ch[q] ELSE heap[o].var[q]]]]

Update(i, ch) ==
  /\ Decodes(i) /\ table[i] # None
  /\ LET o == table[i]
         told == DOMAIN ch \cap BoundOf(o)
     IN  /\ ReadFields(o, ch, told)
         /\ stale' = stale \ ({o} \X told)
         /\ Done(o, "updated")
  /\ UNCHANGED table

(* The handlers of one property panic: it is set, and its variable is not. *)
UpdateRaises(i, ch, q) ==
  /\ Decodes(i) /\ table[i] # None
  /\ q \in DOMAIN ch
  /\ ReadFields(table[i], ch, (DOMAIN ch \cap BoundOf(table[i])) \ {q})
  /\ CutDecoding({}, {<<table[i], q>>})
  /\ UNCHANGED table

(* A bit of the packet says the entity is not in the recorder's view.      *)
SkipInvisible(i) ==
  /\ Decodes(i)
  /\ UNCHANGED <<table, heap, pc, tuples, history>>

(* Leaving the view does not make an entity inactive; being destroyed does.*)
Leave(i) ==
  /\ Decodes(i) /\ table[i] # None
  /\ IF heap[table[i]].active
     THEN Done(table[i], "left") /\ UNCHANGED stale
     ELSE UNCHANGED <<pc, tuples, history>>
  /\ UNCHANGED <<table, heap>>

(* Entity.Destroy: the object stays in the table.                          *)
Destroy(o) ==
  heap' = [heap EXCEPT ![o] = [heap[o] EXCEPT !.active = FALSE,
                                              !.destroyed = heap[o].destroyed + 1]]

Delete(i) ==
  /\ Decodes(i) /\ table[i] # None
  /\ IF heap[table[i]].active
     THEN /\ Destroy(table[i])
          /\ \/ Done(table[i], "deleted") /\ UNCHANGED stale
             \/ CutDecoding({i}, {})
     ELSE UNCHANGED <<heap, pc, tuples, history>>
  /\ UNCHANGED table

(* A class or an entity that the demo does not have.                       *)
Missing(i) ==
  /\ Decodes(i)
  /\ CutDecoding({}, {})
  /\ UNCHANGED <<table, heap>>

EndDecoding ==
  /\ pc = "decode"
  /\ pc' = "send"
  /\ UNCHANGED <<tables, baseline, fullPackets, index, tuples, packets, baselines, history>>

---------------------------------------------------------------------------
(* Sending: parser.onEntity, then, for a new entity, the handlers of every *)
(* property in the order of names.  A handler panics on a property without *)
(* a value.                                                                *)

(* Mutant of OnEntity: no entity is removed.                               *)
OnEntity_KeepsDeleted(t) ==
  game' = IF t.op = "created" THEN [game EXCEPT ![heap[t.obj].index] = t.obj] ELSE game

OnEntity(t) ==
  game' = CASE t.op = "created" -> [game EXCEPT ![heap[t.obj].index] = t.obj]
            [] t.op = "deleted" -> [game EXCEPT ![heap[t.obj].index] = None]
            [] OTHER -> game

(* Mutant of Tell: the values are those of the baseline.                   *)
Tell_Baseline(o, told) ==
  heap' = [heap EXCEPT ![o].var =
             [q \in Prop |-> IF q \in told THEN baseline[heap[o].class][q] ELSE @[q]]]

Tell(o, told) ==
  heap' = [heap EXCEPT ![o] = [heap[o] EXCEPT !.var =
             [q \in Prop |-> IF q \in told THEN heap[o].state[q] ELSE heap[o].var[q]]]]

HasValues(o, P) == \A q \in P : heap[o].state[q] # NoValue

Sends ==
  /\ pc = "send" /\ tuples # << >>
  /\ OnEntity(Head(tuples))
  /\ UNCHANGED <<table, baseline, fullPackets, index, packets, baselines>>

Send ==
  /\ Sends
  /\ LET t == Head(tuples)
     IN  /\ IF t.op = "created"
            THEN HasValues(t.obj, BoundOf(t.obj)) /\ Tell(t.obj, BoundOf(t.obj))
            ELSE UNCHANGED heap
         /\ lost' = lost \ Renews(t)
  /\ tuples' = Tail(tuples)
  /\ UNCHANGED <<pc, cut, unreported, stale>>

SendRaises(q) ==
  /\ Sends /\ Head(tuples).op = "created"
  /\ LET t == Head(tuples)
         told == {r \in BoundOf(t.obj) : r < q}
     IN  /\ HasValues(t.obj, told) /\ Tell(t.obj, told)
         /\ Cut(Tail(tuples), lost \ Renews(t), {t.obj} \X (Prop \ told))

EndPacket ==
  /\ pc = "send" /\ tuples = << >>
  /\ pc' = "idle"
  /\ UNCHANGED <<tables, baseline, fullPackets, index, tuples, packets, baselines, history>>

Decode ==
  \E i \in Index :
    \/ \E c \in Class, ch \in Changes : Create(i, c, ch) \/ CreateRaises(i, c, ch)
    \/ \E ch \in Changes : Update(i, ch) \/ \E q \in Prop : UpdateRaises(i, ch, q)
    \/ SkipInvisible(i) \/ Leave(i) \/ Delete(i) \/ Missing(i)

Next ==
  \/ \E c \in Class, b \in Values : SetInstanceBaseline(c, b)
  \/ \E delta \in BOOLEAN : BeginPacket(delta)
  \/ Decode \/ EndDecoding
  \/ Send \/ (\E q \in Prop : SendRaises(q)) \/ EndPacket

Spec == Init /\ [][Next]_vars

---------------------------------------------------------------------------
(* Type invariant, of entity.go's and gameState's variables.               *)
TypeOK ==
  /\ table \in [Index -> 0 .. MaxObjects] /\ game \in [Index -> 0 .. MaxObjects]
  /\ heap \in Seq([index : Index, class : Class, active : BOOLEAN, state : Values,
                   var : Values, finished : BOOLEAN, destroyed : Nat])
  /\ baseline \in [Class -> Values]
  /\ fullPackets \in {0, 1} /\ pc \in {"idle", "decode", "send"}
  /\ index \in Index \cup {-1}
  /\ tuples \in Seq([obj : Nat, op : Ops])
  /\ \A k \in DOMAIN tuples : tuples[k].obj \in Objects
  /\ \A i \in Index : {table[i], game[i]} \subseteq Objects \cup {None}
  /\ packets \in 0 .. MaxPackets /\ baselines \in 0 .. MaxBaselines
  /\ cut \in BOOLEAN /\ unreported \in BOOLEAN
  /\ lost \subseteq Index /\ stale \subseteq Nat \X Prop

(* The entry that the game state should have at an index: the entity       *)
(* there, unless the demo has deleted it.                                  *)
Current(i) == IF table[i] # None /\ heap[table[i]].destroyed = 0 THEN table[i] ELSE None

(* The game state's entities are the parser's: at every moment, in the     *)
(* middle of a packet too, an index has in both tables the same entity or  *)
(* none, but for the indices whose creation or deletion is still to be     *)
(* sent and those that a cut packet has left behind (net_messages.go:13).  *)
TablesAgree ==
  \A i \in Index :
    \/ i \in lost \cup IndicesOf(tuples)
    \/ game[i] = Current(i)

(* A bound variable has the value of its property: from the moment the     *)
(* creation is sent, through every update, and for entities that are gone  *)
(* as they were last (entity.go:432, 630), but for bindings whose sending  *)
(* or update was cut and that no update has renewed since.                 *)
BoundValuesFollow ==
  \A o \in Objects : \A q \in BoundOf(o) :
    \/ <<o, q>> \in stale \cup BindingsOf(tuples)
    \/ heap[o].var[q] = heap[o].state[q]

(* Between packets, without a panic ever, both hold with no exception: a   *)
(* handler or a user of GameState sees the demo's entities and values.     *)
CleanBetweenPackets ==
  (pc = "idle" /\ ~cut) =>
    /\ \A i \in Index : game[i] = Current(i)
    /\ \A o \in Objects : \A q \in Bound[heap[o].class] : heap[o].var[q] = heap[o].state[q]

(* Not true of the code with IgnorePanic.  parsing.go:65 gives the entity  *)
(* parser a warning function for the panics it recovers.                   *)
EveryPanicReported == ~unreported
===============================================================================
