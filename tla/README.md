# TLA+ models of demoinfocs-golang

This directory holds TLA+ models of the CS2 demo parser in this repository, the
TLC configurations that check them on small instances, and proofs checked by
TLAPS.  Paths below are relative to the repository; `D/` stands for
`pkg/demoinfocs/`.  `PROJECT.json` lists, for machines and for cross-reading,
the components, the runs, the source lines of every definition, the hazards the
properties are aimed at, and the theorems.

## 1. The system

A demo is a stream of *frames* (demo commands).  `ParseToEnd` or
`ParseNextFrame`, on the goroutine of the caller, read frames, decode the
net-messages packed in them, sort the messages of a packet by priority and send
everything into the channel `msgQueue`.  A second goroutine, the go-dispatch
dispatcher's, receives from the channel and runs the handlers: the library's
own (string tables, server info, game events, packet entities, end of frame)
and the user's.  The library's handlers keep the game state and dispatch
high-level events to the user's event handlers.

| component | state | operations | talks to |
|---|---|---|---|
| parsing pipeline: `D/parsing.go`, `D/parser.go`, `D/s2_commands.go` | header, `err`, `msgQueue`, `currentFrame`, handlers registered | ParseToEnd, ParseNextFrame, Cancel, Close, parseHeader, parseFrame, handleDemoPacket, handleFrameParsed, handleFileInfo | bit reader; dispatcher |
| dispatcher (go-dispatch, external) | queues, registered handlers | queue goroutine, SyncAllQueues, RemoveAllQueues, UnregisterAllHandlers | all handlers |
| entity table: `D/sendtables/sendtablescs2/entity.go`, `parser.go`, `class.go` | `entities`, `classBaselines`, `entityFullPackets`, per-entity property handlers | OnPacketEntities, OnServerInfo, ParsePacket, setInstanceBaseline, FindEntityByHandle | `parser.onEntity`, the bindings of `datatables.go` |
| entity data: `field*.go`, `huffman.go`, `quantizedfloat.go`, `reader.go`, `serializer.go` | field state trees, decoders | readFields, field path operations, decoders | entity table |
| players and participants: `D/datatables.go` (bindPlayers ...), `D/game_state.go`, `D/common/player.go` | `playersByUserID`, `playersByEntityID`, `playerControllerEntities`, `rawPlayers` | controller and pawn created/destroyed, ByUserID, FindByPawnHandle, Playing ... | entity table, string tables, game events |
| string tables: `D/stringtables.go` | `stringTables`, `rawPlayers`, model index maps | create, update, full tables, parseUserInfo | players, baselines |
| game events: `D/game_events.go` | event list, delayed handlers, `frameToRoundEndReason`, `lastRoundEnd` ... | handleGameEventList, handleGameEvent, one handler per event, processFrameGameEvents | players, grenades, bomb |
| grenades, flashbangs, infernos | `grenadeProjectiles`, `thrownGrenades`, `flyingFlashbangs`, `infernos` | created, thrown, exploded, destroyed, expired, clearGrenadeProjectiles | game events, entity table |
| bomb | `bomb`, `currentPlanter`, `currentDefuser`, bombsites | bindBomb, bombEvent | entity table, players |
| rounds and game rules | `gamePhase`, `isWarmupPeriod`, `isMatchStarted`, `isFreezetime`, `totalRoundsPlayed`, teams | bindGameRules, processRoundProgressEvents, bindTeamStates | game events |
| weapons and inventory | `weapons`, `Player.Inventory` | bindWeapon, bindPlayerWeapons | entity table |
| CSTV reader: `pkg/.../cstv/cstv.go` | fragment number, buffer, back-off | Read, NewReader | HTTP |
| bit reader: `internal/bitread` | stream position | ReadVarInt32, ReadUBitInt, ReadField ... | all parsing |
| helpers: `D/common`, `D/events` | none | pure accessors, event types | users |
| fakes, generated protobuf code, examples | none | none | not part of the program's logic |

### What is hard here

* Two goroutines share the parser's fields through a bounded channel; the user's
  handlers run on either of them and may panic or call `Cancel`.
* A call must not return while handlers still run, yet it reads `p.err` before
  and after it waits for them.
* The order of items is made in three places: the stream, the priority sort, and
  the FIFO queue.  Warnings bypass the queue.
* Much of the game state is maintained by callbacks on entity properties whose
  order is that of the demo, with events delayed to the end of a frame so that
  they see all updates.
* Entities are created, reused and destroyed under indices that come back; other
  parts keep references to them.

## 2. The parsing pipeline

### Modules

* `DemoFrames`: the data.  A demo is a sequence of frames; a frame has a command
  (`stop`, a packet, a full packet, file info, any other, unknown), the way its
  bytes end (`ok`, too `short`, packet data too short, `corrupt`, `snappy` for a
  corrupt compressed block, which is only warned of) and the messages of its
  packet, of which only the type's priority and whether they decode matter.
  `Before` is the order in which items belong; `Ahead` the sort of a packet.
* `Parsing`: the two goroutines.  `ppc` is the place of the calling goroutine in
  ParseNextFrame/ParseToEnd and, inside them, in parseHeader, parseFrame,
  handleDemoPacket and the deferred function; each blocking operation, each
  dispatch and each read of shared state is a step of its own.  `cpc` is the
  place of the dispatcher's goroutine.  A handler returns, panics (PanicHandler
  stores the error) or calls Cancel, whose three statements are three steps.
  `OutsideCancel` adds a Cancel from a third goroutine.  `ret` is what the last
  call returned; a panic that the deferred function re-raises ends in
  `panicked`.
* `SequentialParsing`: what the calls promise, with no goroutines and no queue:
  items are read and handled one at a time inside a call, a call returns only
  when all it read is handled, nothing happens between calls or after the last.
  `Parsing!RefinesSequential` is the refinement: the demo read so far is `sent`,
  the handled items are `log`.
* `ParsingMC`: demos that between them have every command, mixed and equal
  priorities, an unknown and an undecodable message, truncation in every place
  the code distinguishes, and wrong filestamps.
* `Parsing_proofs`: the proofs.

The dispatcher and the channel are external: `Receive`, `Synced`, `Waiting` and
`DispatcherStep` model how the code uses go-dispatch (one goroutine per queue,
handlers run one item at a time, a panic goes to PanicHandler, SyncAllQueues
returns when the queue is empty and the goroutine waits) and Go's channels
(`Room`: a send blocks when the buffer is full; without a buffer it needs a
waiting receiver).

Abstractions: bytes, compression and protobuf decoding are reduced to how they
end.  PlaybackTicks, PlaybackFrames and PlaybackTime, which the code sets
together, are one number.  A call after one that said there are no more frames
is not made: it would send on a closed channel.  A panic in a handler of the
last item of a frame may or may not skip the second half of handleFrameParsed
(it does only when the library's own code panicked).  The handlers of one item are
one step, so that a Cancel does not come between two of them, and Close is called
between calls only.

### Runs

| run | instance | shows |
|---|---|---|
| `parsing_main` | capacity 2 with a queue made by parseHeader, and capacity 0 with one made by NewParser; Cancel from a third goroutine; all outcomes of handlers; demos with every command | types and capacity; items handled in demo order, none lost at a clean end; nothing unhandled at return; errors not lost; playback values; prompt abort; silence after Cancel; the refinement of `SequentialParsing`; every call returns |
| `parsing_cancel_lost` | truncated demos | **violation**: a Cancel before the end of a truncated demo is reported as ErrUnexpectedEndOfDemo |

Read and not run: the warning of an unknown net-message is dispatched with the
net-messages' dispatcher (`D/s2_commands.go:354`), so that a user's handler of
`events.ParserWarn` never gets it.  The header is stored on the dispatcher's
goroutine (`D/s2_commands.go:412`) and read on both without synchronisation; the
model interleaves whole reads and writes.

Comments that differ from the code in ways that need no run: ParseNextFrame is
said (`D/parsing.go:183`) to return true unless an error was encountered, and
returns true (and nil) when a handler has set one that it has not yet read;
parseHeader's says (`D/parsing.go:41`) that the filestamp must be HL2DEMO, and the code wants
PBDEMS2; and `MsgQueueBufferSize` 0 is said to enforce sequential parsing
(`D/parser.go:479`), while an unbuffered channel only hands each item over: the
next command is read while its handlers run.

Bounds: a demo has at most three frames and a packet three messages, enough for
every pair of items that the order relates (two frames, two messages of equal
and of different priority) and for an error before, in and after a frame.  The
capacities 0 and 2 are those at which the sender blocks at every item and
rarely; the proofs cover all capacities.

Fairness: weak fairness of the calling goroutine while it is inside a call, of
the dispatcher's goroutine and of a Cancel in progress.  Go's scheduler runs
runnable goroutines, and handlers are assumed to return.  Nothing is assumed of
the user: no call need be made.

### Proofs (`Parsing_proofs`)

For every set of demos, every capacity and every subset of handler outcomes:
`TypeCorrect`, `InDemoOrder`, `NothingPendingAtReturn`, `ErrorsAreReturned`,
`PromptAbort`, `Silence`, `RefinesSequentialReader`, `NothingIsLost` and
`PlaybackValuesAreSet`, from the assumptions on the constants in `Parsing` only.
None of these invariants is inductive.  The
strengthening `IndInv` adds: where the calling goroutine may be when the queue is
open and when it is drained (`SyncInv`); that the queue is the part of `sent`
not yet taken and `log` the part handled (`FifoInv`), which is what carries an
order from one goroutine to the other; that the items are sent in order, with
the stage of the current frame reached so far and the messages still pending
behind those sent (`OrderInv`); that a failed or cancelling handler has left an
error (`ErrInv`); that a frame begun with an error is the last (`LateInv`); and
the order of Cancel's steps (`RegInv`).  The lemma `StepCases` reduces a step to
what it does to the items (send, receive, dispatch, nothing), so that the FIFO
argument and the refinement are made for four cases.

`NothingLost` and `PlaybackValuesSet` are about whole frames of the demo, and need
more than `IndInv`.  `LostInv` adds the set of frames that parseFrame has left
behind (`Through`) and which items of the current frame are behind the place where
it is (`CurrentInv`, `BehindInv`): these are sent; and that a clean end is at a stop
command, with no handler taken away by a Cancel (`EndInv`, `MutedInv`).
`PlaybackInv` adds that a frame counted is one that was read and handled
(`CountedInv`), and that a CDemoFileInfo handled is stored (`StoredInv`).  The
attempt to prove `PlaybackValuesSet` showed that it was not quite what the code
does: a file info that announces no frames does not stop the frames from being
counted (`D/parsing.go`, handleFrameParsed compares with 0), which no demo of the
run had; the property says so now.

Only model-checked: liveness (`CallReturns`), which is out of the prover's reach.

## 3. The CSTV reader

`CSTVReader` models `Reader.Read`: what is published by the server, the number
of the next fragment, the buffer, and one Read in progress, whose loop is the
actions `Response` (the request fails, is refused, is answered, or its body is
cut off) and `Wake` (the sleep with its back-off is over, and perhaps the
patience).  `NewReader` is the initial state; its JSON and URLs are left out.
HTTP and `bytes.Buffer` are external (`Take`, `Drop`).  A byte is a number; no
two are equal, so that losing, repeating or swapping any shows.

| run | instance | shows |
|---|---|---|
| `cstv_live` | an opening and three deltas, one of them empty; slices of 0, 2 and 3 bytes; timeout 10 s in sixteenths | what was read and is buffered is the broadcast, without gap or repetition (`Contiguous`); a Read that reports no error has read something, and all of its slice if it had to fetch (`Progress`); every Read returns (`ReadReturns`) |

Bounds: slices shorter and longer than a fragment, fragments that end inside and
at the end of a slice, and an empty one are all there; times beyond the timeout
are one value (`Cap`), since the code and the properties do not distinguish
them.  A body is cut off at most once (`torn`), after which the buffer holds part
of a fragment that will be requested again: its first bytes are read twice, and
`Contiguous` says nothing from then on.

Read and not run: the timeout is documented (`D/cstv/cstv.go:87`) as the maximum
time to retry, and is compared with the next back-off instead; with 10 s Read
sleeps 1 + 1.5 + 2.25 + 3.375 + 5.06 = 13.2 s for one response.

Fairness: a request is answered or fails, and a sleep ends.  That the server
publishes is not assumed.

Proofs (`Input_proofs`): `ReadsAreContiguous` and `ReadsMakeProgress`, for every
opening, all deltas, every set of slice sizes and every timeout; the only assumption
is that these are what they are (`ReaderAssumption`).  `Contiguous` is inductive once
the number of the next fragment and the place in a Read are tied to the buffer
(`IInv`).  `Progress` is about the step in which a Read returns: `IInv` has that a
Read that fetches has room in its slice, so that it ends when that is full, and that
one that returned without an error has read something (`ReadSomething`).  What is published up to a number, `Broadcast`, is defined by recursion:
that it satisfies its equation is proved by induction in set form (lemma `UpTo`: a
set of numbers with 0 and every successor has all numbers), from the theorem that
the natural numbers are well-founded.  `ReadReturns` is liveness, and only
model-checked.

## 4. The entity table

`EntityTable` models `OnPacketEntities` with `parser.onEntity`.  A packet is
decoded command by command (`Create`, `Update`, `SkipInvisible`, `Leave`,
`Delete`, `Missing`), and each command changes the parser's table and runs the
handlers that exist then; only when the whole packet is decoded (`EndDecoding`)
are creations and deletions passed on to the game state and new entities' values
to their handlers (`Send`).  So there are two tables, two phases, and between
them a list, `tuples`, of what is still to be told.  Any operation that calls
handlers or decodes may panic (`CreateRaises`, `UpdateRaises`, `SendRaises`,
`Delete`'s second disjunct, `Missing`): the packet is cut (`Cut`) and what was
pending is forgotten, by the code and not by the model, which remembers in `lost`
and `stale` what a cut packet left behind.  Which fields a path names and how a
value is decoded is not part of the model: an entity has a few properties with
values, some of them bound to variables as `BindProperty` does.

| run | instance | shows |
|---|---|---|
| `entity_main` | 2 indices, 3 entities, 3 packets, a bound property, a baseline, panics anywhere | the game state has the parser's entities, at every moment, but for what is pending or lost (`TablesAgree`); bound variables have their property's value (`BoundValuesFollow`); without a panic, both hold between packets without exception (`CleanBetweenPackets`) |

Read and not run: `EveryPanicReported`, which a configuration may list to see it
violated: the user is not told of a panic that was recovered, since the warning
function that `IgnorePacketEntitiesPanic` sets is compared with nil and never
called (`entity.go:513`).

An update reactivates an entity that was destroyed (`entity.go:602`), and the game
state, from which it was deleted, does not get it back.  `TablesAgree` is of entities
that were never destroyed: one that is reactivated counts as none.

Handles are not modelled.  `GameState.EntityByHandle` (`D/game_state.go:222`)
ignores the serial in a handle, which `FindEntityByHandle` compares: it may
return the successor of a deleted entity.

The comment of `OnCreateFinished` (`entity_interface.go:47`) says it is called
once all property updates have been sent out; the code calls it while the packet
is decoded (`entity.go:586`), before any is sent.

Bounds: two indices and three entities let an index be reused while another
changes; three packets are a creation, a panic and a recovery from it; entities
and packets beyond that repeat these steps.  The proofs have no such bounds.

Proofs (`Entities_proofs`): `GameStateFollows`, `BindingsFollow` and
`CleanWithoutPanic` for any indices, classes, properties and values.  The
inductive invariant `EntityInvariant` adds what the three rest on: that the
entity in a table is one of its index, that tuples are of distinct indices in the
order of decoding (so that no pending creation and deletion are of one index),
and that a pending entity is still the one in the table.  What
a panic interrupts is covered by what `Cut` adds to `lost` and `stale`, so the
proof of each operation that may panic ends in the two lemmas about `Cut`.
`TypeOK`'s bounds on counters are only model-checked.

## 5. Players

`Players` models who is who: `rawPlayers` (the userinfo string table), the
controllers with their handlers, the Player objects, and the three maps that lead
to them.  A person is in a slot of the server (`seat`); the entity ID of its
controller is the slot plus one, and both are numbered by the slot here, as is
the low byte of the user ID, which is what the code takes it for
(`D/game_events.go:90`).  `GetOrCreatePlayer` is the function all handlers begin
with; the choice it makes between raw players, in the order of a Go map, is
`RawOf`.  A human's Steam ID stands for the name too.

The server is the environment.  What the passing run assumes of it is in the
guards: userinfo comes before the controller, a person is in one slot at a time,
the controller of somebody who left is deleted or kept for their return, humans
report their leaving in `m_iConnected` (8) before the deletion, and bots do by
the game event (`BotsReport` FALSE), which a packet's priority order puts before
the entities.

| run | instance | shows |
|---|---|---|
| `players_main` | two slots, two people who come twice, a bot who comes once | user IDs of events and of rank updates find the player of who is there (`EventsResolve`); everybody has a Player, name and Steam ID of their own, though slots are taken over (`OwnIdentity`); `Connected()` is exact; connection events agree with it (`PresenceAnnounced`) |

Two slots are enough for a person to leave one and enter the other and for two
people to follow each other in one.

Proofs (`Players_proofs`): `EventsFindPlayers`, `PlayersAreTheirOwn`,
`ConnectedIsExact` and `PresenceIsAnnounced`, for any slots, people and number of
joins, under `BotsStayAway`: a bot comes once, and does not report its leaving in
`m_iConnected`.  The run's constants satisfy it, and without it the four are false,
as TLC shows: the raw player that a bot leaves is found by its name when it comes
again, and a controller of a bot that reports its leaving removes the raw players of
all bots, which share the Steam ID 0.  The invariant `IInv` says who may have a seat, a controller and
a raw player at the same time (`SeatInv`, `RawInv`), that the maps by entity and by
user ID have the same players and no player twice (`IndexInv`), and that the Player
of a controller is its person's (`PersonInv`).  The last needs all the others: what
`GetOrCreatePlayer` finds depends on the three maps and the raw players.

Read and not run: `UserIDAddresses`, which fails as soon as a bot may come twice:
one that returns in another slot may be given the user ID of its former one, by
the name in a raw player that nobody removed (`D/datatables.go:406`).

Comments that differ from the code here, read and not run: `Participants.All`
is said to include disconnected players (`D/game_state.go:361`), whom OnDestroy
removes; `ByEntityID` is said to have only connected ones
(`D/game_state.go:337`), and has all.

## 6. Rounds

`Rounds` models the entity CCSGameRulesProxy: what the server has (`server`),
what the updates so far have made of it (`entity`), and what it was at the end of
the last frame (`before`).  `Tick` is the server; `Create` and `Update` are the
handlers of `bindGameRules`, each a function from a game state and the events
dispatched to the next; `EndFrame` is `processRoundProgressEvents`.  An event
that waits for the end of the frame is a sequence of length one.  The log of a
frame keeps with each event the value of IsMatchStarted that its handlers see.

| run | instance | shows |
|---|---|---|
| `rounds_main` | two reasons, two phases, two rounds; with and without mimic; any number of frames | changes told form chains (`ChangesChain`); rounds that start and end are told of once, whichever property shows it (`RoundsTold`); RoundEndOfficial comes once, after an end and before the start (`OfficialOnce`); the start of a round is told with its match started, its end before that match's end (`MatchOfRound`) |

There is no bound on the number of frames: the log is of one frame.  What the run
assumes of the server is `Possible`: each property changes at most once a frame;
a match starts with a round, and with no rounds played.  The last matters: if it
started with rounds played, and the reason became 0 in the same frame, two round
starts would be made out and RoundEndOfficial dispatched twice.

Proofs (`Rounds_proofs`): `ChangesToldInAChain`, `RoundsToldOnce`,
`OfficialEndsToldOnce` and `MatchSeenIsTheRounds`, for any reasons, phases and number
of rounds, in both modes.  The four are about a frame that has ended; `IInv` says
what they come from while it is read: the entity is, property by property, what it
was or what the server has (`EntityInv`), the game state follows it (`StateInv`),
events wait (`PendingInv`) or have been told (`LogInv`, `OfficialInv`, `MatchInv`)
as far as the updates have come.  That is why the order of the updates does not
matter: none of these mentions it.  Whether `RoundEndOfficial` is told depends on the
order, so `OfficialInv` only says when it may and when it must have been.

Read and not run: `D/game_state.go:47` says that RoundEnd is dispatched before a
RoundFreezetimeChanged; the code (and the comment at `D/game_events.go:1129`)
has it after.

## 7. Grenades

`Grenades` follows each grenade (`stage`) from the throw to the end of its effect,
through the updates of its projectile and inferno entities, the game events, the
end of the frame and the start of a round (`ClearGrenadeProjectiles`).  The
server's part is what bursts and expires when, and what is to be deleted or
blinded in the frame (`toDestroy`, `toBlind`), which the parser then sees in any
order.  `history` variables keep what was told and what had happened.

A game event about a grenade names a player by `userid` or by `userid_pawn`, or
nobody (`D/game_events.go:948`).  For the grenade of a bot under control `userid` is
the person's (`EventUser`), while the projectile, its owner and the list of thrown
grenades are the bot's.  `FlashBursts` takes any of the three (`EventThrowers`);
`Expire` takes the `userid`, as without a player nothing is deleted.

| run | instance | shows |
|---|---|---|
| `grenades_main` | three throws of two related types, a person who controls a bot, five frames, both modes; flashbangs burst two frames apart | who was flashed is told of, and nobody else; the flashbang that PlayerFlashed names is the attacker's, and the one that did it - with game events, if they named who threw it (`FlashesTold`); live projectiles and infernos are the server's, and a projectile's end is told once, though a round start and its deletion both may tell it (`LiveGrenades`); an event about an active grenade finds one (`ActiveResolve`) |
| `grenades_queue` | three flashbangs, of which any may burst in the same frame | **violation**: a flashbang that burst frames ago is named, since its deletion marked another one of the queue |

Three throws are the least with which a stale head of the queue meets a third
flashbang; types that share no state are not mixed in one behaviour.  The server
keeps flashbangs in the order thrown, blinds players in the frame of the burst
and nobody in the frame of a round start, and throws nothing in that frame.  What a
round left behind is deleted before the next throw or never, so that the deletion of
an old flashbang does not meet a new one in the queue.  `LiveGrenades` bounds
`infernos` from above only: a fire has an effect before its entity is created.

Read and not run: `ProjectileKnown`, which a configuration may list to see it
violated.  playerBlind asserts that PlayerFlashed has a projectile
(`D/game_events.go:522`) and looks it up with the player whom the flashbang's event
names, while it is kept by its owner (`D/datatables.go:845`).  For the flashbang of a
bot under control these are two, and the person has none there, or an older one of
theirs: the event has an attacker and no projectile, or the wrong one.  `FlashesTold`
says that this is the only way to a wrong one.

Read and not run: `thrownGrenades` is said (`D/game_state.go:42`) to hold grenades
to the end of their effect, and `deleteThrownGrenade` to delete the first thrown
(`D/game_events.go:1051`).  It deletes the last; the list of a molotov keeps its
entry, as only EqIncendiary is deleted (`D/datatables.go:1018`); and so does that
of a smoke thrown by a bot under control, which is looked for with the person.
These entries go with the round; `ActiveResolve` is what holds in spite of them.

Proofs (`Grenades_proofs`), for any players, controlled bots, kits and number of
throws.  `ControlsAssumption` is what `getThrownGrenade` relies on: a bot and the
person who controls it are told apart by their Steam IDs, and control leads at most
to each other (`D/game_events.go:992`).

* `GrenadesResolve`: that an active grenade is found is not inductive, as entries are
  deleted for other grenades than they were made for, and with the person or the bot.
  The invariant counts instead (`StockInv`): the lists of a player and of the bot they
  control have together at least as many entries of a type as the player has grenades
  of it that are active, or are still to be deleted by a handler of the frame.  Each
  deletion takes one from either side (`StockDeleted`).
* `GrenadesAreLive`, `FlashesAreTold`: with `BurstsApart`, that is when a frame or more
  lies between the bursts of two flashbangs; `grenades_queue` shows what happens
  otherwise.  `QueueInv` is what it buys: the queue has the flashbangs that fly, in the
  order thrown, and at most one that has burst, at its head, in the frame of its burst
  or the next one; who was flashed was by the head.  `BlindInv` is its counterpart for
  game events, whomever these name: once its projectile is deleted, the flashbang that
  burst is its owner's last one.  `LastInv` and `ToldInv` add that a flashbang kept for
  a player, and one that was told of, is theirs.

## 8. The bomb

`Bomb` follows the bomb of a round: carried, dropped, armed, planted, defused or
exploded.  `bomb` is what the server has in this frame and `before` what it had in
the last; a frame brings the game events, then the updates of CC4, CPlantedC4 and
the game rules in any order, then the first values of entities that are new
(section 4).  A handler is a function from the game state and the events
dispatched to the next (`OwnerEntity`, `StartedArming`, `PlantedCreated`,
`BombTicking`, `BombDefuser` ...); those that run in one update run in the order
of the fields, those of first values in the order of the fields' names.  With `mimic` the events for users are made from entities, without
it from game events.  `hidden` are players whose pawns the demo does not have, as
in point-of-view demos.  `EndFrame` runs the delayed `player_hurt`, which has to
find what hurt a player when the event does not say it.

| run | instance | shows |
|---|---|---|
| `bomb_main` | two terrorists and one who defuses, both modes, one hidden or none; rounds without end | the carrier, planter and defuser kept are the server's (`GameStateFollows`); every begin, end and abort of a plant is told of once, as of the player who did it (`PlantTold`), and so is what becomes of the planted bomb (`OutcomeTold`); damage without a weapon is the bomb's, the fall's or the world's, as it was (`DamageTold`) |

Nothing is counted, so nothing is bounded but the players.  One player defuses at a
time and in a run only one can: a defuse that passes from one player to another is
not exercised.  Frames have no number: that the map of fall damage has 0 for a player
who never fell, which is the number of the first frame, is left out.

Proofs (`Bomb_proofs`): `BombStateFollows`, `PlantsAreTold`, `OutcomesAreTold` and
`DamageIsTold`, for any players, any of them hidden, and both modes.  A frame is one
of five kinds, by what became of the bomb (`Still`, `Carried`, `Planting`, `Ticking`,
`Renewed`), and each kind has its updates and first values (`FrameInv`).  `IInv`
says of each variable of the game state whether it is the last frame's or this one's,
by the updates that are still to come (`CarrierInv`, `DefuserInv`, `PlanterInv`), and of
each event of the log whether it has been told yet (`PlantLog`, `AbortLog`,
`DefuseLog`, `OutcomeLog`, `HurtInv`).  A handler is first described on any state
(the lemmas `...Acts`), then each update is shown to keep `IInv` (`...Step`); all deeds
of the server go through the lemma `FrameStep`.

Read and not run: when a round ends while somebody plants, currentPlanter is reset
(`D/datatables.go:1233`), so that the C4's update afterwards finds no planter:
`IsPlanting` stays true and no BombPlantAborted comes (`interrupted` remembers
these players).  The end of the C4 does not reset the carrier.  `ExplosionTold`
states what `D/events/events.go:340` says of BombExplode, that it signals that the
bomb has exploded; it is not true of the code when somebody is still defusing, as
any bomb that stops ticking during a defuse is taken to be defused
(`D/datatables.go:170`).

## 9. Weapons

`Weapons` relates three things that different entities tell of: the weapons by
entity ID (`bindWeapon`), the inventories (`bindPlayerWeapons`) and the owner
in each Equipment, which both write.  An Equipment is an identity, so that the
model tells apart whether the inventory, `GameState.Weapons()` and the events
share one.  The frame brings the changes of money first, then pawns and weapons in
any order, then the first values of new weapons; a frame has at most two deeds
that concern each other (a weapon passed on, an entity ID used again, money with
anything).  `refund` holds the variables of the refund detection and the players
whose money its handlers watch, which are never taken back.

| run | instance | shows |
|---|---|---|
| `weapons_main` | two players, one in a buy zone; two entity IDs with types of their own; each weapon taken once more | inventories, types and owners are the server's, with one Equipment for each weapon (`PossessionFollows`); a shot is told of once, by who fired (`ShotTold`); a refund of a weapon with one owner is told of, and no end of a weapon outside a buy zone is (`RefundTold`) |

Proofs (`Entities_proofs`): the three properties, for any finite set of players, any
weapons, types, amounts of money and number of times a weapon changes hands.
`PossessionInductive` proves an invariant of every state, also in the middle of a
frame, in six parts.  `ServerInv` is what the rules of the server give: a weapon is in
the slots of its owner and of nobody else.  `GameStates` says that an Equipment is one
of its entity ID, so that what is done to one is not done to that of another weapon;
`FreshIs` shows that there is a free identity whenever one is needed.  `InventoryInv`:
an inventory has the weapons its owner had before or has now, by whether the pawn's
update has come.  `EquipmentInv` needs the most: the owner in an Equipment is written by
the pawn that gets the weapon and by the weapon itself, so a weapon is `Settled` when
its owner's pawn has been updated, when nobody owns it and its own update has come, or
when it has the owner of before and was not created now.  `LogInv` says that an event of
a weapon came with its update, which comes once; `RefundInv`, that the refund detection
of a weapon with one owner has their money, and knows in the frame of the weapon's end
whether it went up.  What the recursive functions of a pawn's slots and of the money
handlers compute is shown by induction in set form (`Iterated`).

Read and not run: `EveryRefundTold` fails for a weapon that has had two owners: the
money handlers of both run, and the last one decides.  A slot that is cleared to
the invalid handle would put an Equipment of unknown type under the ID 0x3FFF in
the inventory (`D/datatables.go:625`).  Slots of before that are read while a
pawn's new slots are set may leave a placeholder in `GameState.Weapons()` for a
weapon that is gone.  A weapon created over a live one (section 4) takes over its
Equipment.  The warning of unknown equipment goes to the net-messages' dispatcher
(`D/datatables.go:877`), which no user's handler of events listens to.

## 10. The fields of an entity

* `FieldPaths`: the paths in an update and the operations that write them, each a
  record of what it pops, adds and pushes; `Applied` is what the code does to its
  array of seven indexes, `Meant` what the writer of the demo means.
* `FieldState`: the tree of slices in which values are kept, with lengths and
  capacities; `Set`, `Get` and the resizing of collections.
* `EntityFields`: an entity that reads fields: the server picks an operation that
  leads to a field and gives it a value, a flag or a length; the parser reads the
  path, stores what came and runs the handlers found by `FlatKey`.
* `EntityFieldsMC`: a class with a scalar in a table, an array of scalars in it
  and an array of tables.

| run | instance | shows |
|---|---|---|
| `fields_main` | three levels, slices of one cell at first, arrays of at most two, keys of one bit for each index and two indexes | lengths and capacities are such that no write panics, and nothing is beyond them (`TypeOK`); a path is read as it was meant, whichever operations were before it (`PathAsMeant`); every field has the server's value, and elements beyond a length have none, also when a collection shrinks and grows again (`FieldsFollow`); the handlers that run are those of the field (`HandlersOfTheField`) |

The sizes are smaller than the code's (seven levels, slices of 8, keys of four
indexes of 14 bits), which makes each limit be met: slices grow by every rule, and
paths are too deep or too wide for a key.

Proofs (`EntityFields_proofs`): all four properties, for every depth of the array,
every class, every bound, slices of any size at first and flat keys of any width.

* `PathsAsMeant`: `PathAsMeant` alone is not inductive: an operation that adds to what
  is behind the path needs the zeros there, so the invariant `PathInvariant` adds them
  (`ZeroBehind`).  The lemma `AppliedAsMeant` shows for any operation that stays in the
  array that it keeps both, and each action of `Next` then has to show only that its
  operation does.
* `EntityFollows` and `TypeCorrect`: the tree is a function from paths to slices.  That
  a write reaches the right value, and no other, needs that every slice but the root is
  where a cell of the slice above it leads (`Hanging`), that a cell that leads on has a
  slice (`Leading`), and that no slice has anything beyond its length (`NodeOK`).
  With these `Get` looks at one cell (`GetIs`), `Set` changes the cells on the way and
  one more (`SetTree`, `SetGets`), a collection that gets another length loses what lay
  behind it and nothing else (`ResizedTree`, `CollectedTree`), which is what the
  server's fields lose (`Cut`, `LengthsAre`).
* `HandlersAreTheFields`: two paths of one flat key are the same path (`KeysDiffer`), by
  an induction that takes the keys apart digit by digit; it is for keys whose digits do
  not overlap (`HasFlatKey`), which is what `fpFlatKey` checks before it packs them.

`ClassAssumption` says what the send tables give: a field is of one kind, and a field
with a value of its own has no fields below it.

Read and not run: an optional table that is turned off keeps its nested values, as
`set` never replaces a slice (`D/sendtables/sendtablescs2/field_state.go:72`).  The
serializer of a polymorphic field is that of the class, not of the entity, and is
changed by any entity's update.  `getFieldPaths` looks up whole paths in sub-states,
so that `Map` and `String` leave nested collections out.

## 11. String tables

`StringTables` models the creation and update of tables, their lists of entries,
and the dump of all tables that a demo repeats.  The server picks what an entry says
and how it is written: an index as the next one or as a number, a key whole or by
its beginning in an earlier key, a value in the table's format.  Values that are read
in another format than they were written become `Garbage`.

| run | instance | shows |
|---|---|---|
| `strings_main` | two tables, history of two keys, lists of four entries | every entry is read with the index and key written, and the history of keys is the server's (`EntriesAsWritten`); baselines and user info are the server's, whatever tables exist and in whichever order and format they were created (`ContentsFollow`) |

Lists longer than the history make it forget; the code's history has 32 keys.  A
list may end after any entry, which stands for one that could not be read to the
end: what was read of it is used.

Proofs (`Input_proofs`): `EntriesReadAsWritten` and `ContentsAreTheServers`, for
any tables, formats, keys and values and every length of the history.  `IInv` adds that
the parser's list of tables is the server's, and that its history of keys is the last
keys of the list (`KeysInv`, kept by the lemma `HistoryOfRecent`: the oldest key is
dropped only when there are more than the history holds).

Read and not run: an entry of a baseline without a key, as an update may have, is
ignored (`D/stringtables.go:361`), though its index names one; empty user info does
not clear a slot, so that who left stays in `rawPlayers` (section 5 says what
comes of it); `modelPreCache` is made as long as its table, and never filled.

## 12. What is proved, and what is left

Every safety property that the passing runs check is proved for all values of the
constants.  What TLC alone checks, on the instances of the runs, is that `Parse` and
`Read` return (`CallReturns`, `ReadReturns`): liveness under fairness is out of the
prover's reach.  So is induction over data by the theorems of its library; what
recursive functions compute is proved by induction in set form (`UpTo`, `Iterated`).

The proofs use no assumption but those named in the modules (`...Assumption`),
`BotsStayAway` for `Players` (section 5) and `BurstsApart` for the flashbangs of
`Grenades` (section 7).

## 13. What is not modelled

* Hostages, teams' scores, kills, items, chat: handlers that translate one message or
  one property to one event.
* The bit readers and decoders of values: floating-point numbers, which TLC does not
  have, and variable-length integers.
* Ammunition, reloading, zoom, positions, trajectories, bomb sites and the takeover
  of bots outside grenades.
* Accessors in `D/common`, event types, generated protobuf code, mocks, examples, and
  the geometry of fires.

Data races on single words are not modelled as such: where the two goroutines share
a variable the model interleaves whole reads and writes.  Out of the prover's reach
is liveness (`CallReturns`, `ReadReturns`).
The type invariants that no run lists document the types of their modules.
