-------------------------------- MODULE Parsing --------------------------------
(***************************************************************************)
(* ParseToEnd, ParseNextFrame, Cancel and Close of the parser: the calling *)
(* goroutine reads frames and sends their items into the bounded channel   *)
(* msgQueue, the dispatcher's goroutine receives them and runs the         *)
(* handlers.  Cancel may run in a handler on either goroutine or on a      *)
(* goroutine of the user's.                                                *)
(***************************************************************************)
EXTENDS DemoFrames, FiniteSets

CONSTANTS
  Demos,             (* the inputs: [stamp : Stamps, frames : Seq(Frames), *)
                     (* buffer : Int], buffer being MsgQueueBufferSize     *)
  QueueCap,          (* capacity that parseHeader chooses if it is < 0     *)
  Outcomes,          (* what a handler may do: a subset of AllOutcomes     *)
  OutsideCancel,     (* the user may call Cancel from another goroutine    *)
  InfoFrames         (* the frame count a CDemoFileInfo message announces  *)

(* "panic" is a panic in a handler, "cancel" a handler that calls Cancel.  *)
AllOutcomes == {"ok", "panic", "cancel"}

(* The filestamp: a CS2 demo (or a CSTV broadcast, which has none), a CS:GO*)
(* demo, anything else, or a stream shorter than eight bytes.              *)
Stamps == {"PBDEMS2", "HL2DEMO", "other", "short"}

ASSUME QueueCapAssumption == QueueCap \in Nat
ASSUME OutsideCancelAssumption == OutsideCancel \in BOOLEAN
ASSUME OutcomesAssumption == Outcomes \subseteq AllOutcomes /\ "ok" \in Outcomes
ASSUME InfoFramesAssumption == InfoFrames \in Nat
ASSUME DemosAssumption ==
  \A d \in Demos :
    d.stamp \in Stamps /\ d.frames \in Seq(Frames) /\ d.buffer \in Int

Goroutines == {"parser", "dispatcher", "user"}

Errors == {"none", "cancelled", "handlerPanic", "invalidFileType", "unexpectedEnd",
           "corrupt"}

VARIABLES
  demo,              (* the input of this behaviour                        *)
  \* the calling goroutine
  ppc,               (* its program counter                                *)
  call,              (* the call in progress: "next" or "toEnd"            *)
  frame,             (* frames whose command has been read                 *)
  pending,           (* the packet's messages still to be enqueued         *)
  more,              (* moreFrames, the result of parseFrame               *)
  err,               (* the named result err                               *)
  raised,            (* the panic being unwound                            *)
  ret,               (* what the last call returned                        *)
  \* fields of the parser
  header,            (* p.header # nil                                     *)
  perr,              (* p.err                                              *)
  chan,              (* msgQueue: "nil", "open" or "closed"                *)
  queue,             (* its content                                        *)
  currentFrame,
  playbackFrames,    (* p.header.PlaybackFrames                            *)
  evReg,             (* eventDispatcher has its handlers                   *)
  msgReg,            (* msgDispatcher has its handlers                     *)
  \* the dispatcher's goroutine
  cpc,               (* its program counter                                *)
  cur,               (* the item being dispatched                          *)
  cancel,            (* progress of Cancel, per goroutine                  *)
  \* history
  sent,              (* every item sent into msgQueue                      *)
  taken,             (* how many of them have been received                *)
  log,               (* the items given to handlers                        *)
  frameDones,        (* the frames whose FrameDone reached handlers        *)
  failed,            (* some handler has panicked                          *)
  late               (* frames begun in this call with p.err set           *)

parserVars == <<ppc, call, frame, pending, more, err, raised, ret>>
fieldVars  == <<header, perr, chan, queue, currentFrame, playbackFrames>>
regVars    == <<evReg, msgReg>>
histVars   == <<sent, taken, log, frameDones, failed, late>>
vars == <<demo, parserVars, fieldVars, regVars, cpc, cur, cancel, histVars>>

Init ==
  /\ demo \in Demos
  /\ ppc = "idle" /\ call = "next" /\ frame = 0 /\ pending = {}
  /\ more = FALSE /\ err = "none" /\ raised = "none"
  /\ ret = [call |-> "next", more |-> TRUE, err |-> "none"]
  /\ header = FALSE /\ perr = "none"
  /\ chan = IF demo.buffer < 0 THEN "nil" ELSE "open"
  /\ queue = << >> /\ currentFrame = 0 /\ playbackFrames = 0
  /\ evReg = TRUE /\ msgReg = TRUE
  /\ cpc = IF demo.buffer < 0 THEN "gone" ELSE "recv"
  /\ cur = Item(0, "tick")
  /\ cancel = [g \in Goroutines |-> "no"]
  /\ sent = << >> /\ taken = 0 /\ log = << >> /\ frameDones = << >>
  /\ failed = FALSE /\ late = 0

-------------------------------------------------------------------------------
(* Errors and Cancel.                                                      *)

(* setError: the first error stays.                                        *)
SetError(e) ==
  perr' = IF perr = "none" THEN e ELSE perr

Busy(g) == cancel[g] \in {"events", "msgs"}

(* A handler that runs on goroutine g returns, panics (PanicHandler turns  *)
(* the panic into the parser's error) or starts a Cancel.                  *)
HandlerRuns(g, outcome) ==
  CASE outcome = "ok"     -> UNCHANGED <<perr, failed, cancel>>
    [] outcome = "panic"  -> SetError("handlerPanic") /\ failed' = TRUE
                             /\ UNCHANGED cancel
    [] outcome = "cancel" -> /\ cancel[g] = "no"
                             /\ SetError("cancelled")
                             /\ cancel' = [cancel EXCEPT ![g] = "events"]
                             /\ UNCHANGED failed

UnregisterEventHandlers_Forgotten == evReg' = evReg

UnregisterEventHandlers == evReg' = FALSE

(* Cancel's two calls of UnregisterAllHandlers.                            *)
CancelEvents(g) ==
  /\ cancel[g] = "events"
  /\ UnregisterEventHandlers
  /\ cancel' = [cancel EXCEPT ![g] = "msgs"]
  /\ UNCHANGED <<demo, parserVars, fieldVars, msgReg, cpc, cur, histVars>>

CancelMsgs(g) ==
  /\ cancel[g] = "msgs"
  /\ msgReg' = FALSE
  /\ cancel' = [cancel EXCEPT ![g] = "returned"]
  /\ UNCHANGED <<demo, parserVars, fieldVars, evReg, cpc, cur, histVars>>

(* Cancel on a goroutine of the user's.                                    *)
CancelOutside ==
  /\ OutsideCancel
  /\ HandlerRuns("user", "cancel")
  /\ UNCHANGED <<demo, parserVars, header, chan, queue, currentFrame, playbackFrames,
                 regVars, cpc, cur, sent, taken, log, frameDones,
                 late>>

-------------------------------------------------------------------------------
(* The calling goroutine.                                                  *)

(* ParseNextFrame or ParseToEnd is called, but not after a call has said   *)
(* that there are no more frames.                                          *)
Call(c) ==
  /\ ppc = "idle" /\ ret.more
  /\ call' = c
  /\ more' = FALSE /\ err' = "none" /\ raised' = "none" /\ late' = 0
  /\ ppc' = IF header THEN "frame" ELSE "header"
  /\ UNCHANGED <<demo, frame, pending, ret, fieldVars, regVars, cpc, cur, cancel, sent, taken,
                 log, frameDones, failed>>

(* parseHeader.  The handlers it registers itself, for entities, have no   *)
(* effect that is modelled here.                                           *)
ParseHeader ==
  /\ ppc = "header"
  /\ \/ /\ demo.stamp = "PBDEMS2"
        /\ header' = TRUE
        /\ IF chan = "nil" THEN chan' = "open" /\ cpc' = "recv"
                           ELSE UNCHANGED <<chan, cpc>>
        /\ ppc' = "frame"
        /\ UNCHANGED <<err, raised>>
     \/ /\ demo.stamp \in {"HL2DEMO", "other"}
        /\ err' = "invalidFileType" /\ ppc' = "deferred"
        /\ UNCHANGED <<header, chan, cpc, raised>>
     \/ /\ demo.stamp = "short"
        /\ raised' = "eof" /\ ppc' = "deferred"
        /\ UNCHANGED <<header, chan, cpc, err>>
  /\ UNCHANGED <<demo, call, frame, pending, more, ret, perr, queue, currentFrame,
                 playbackFrames, regVars, cur, cancel, histVars>>

(* The current frame.                                                      *)
Fr == demo.frames[frame]

Raise(what) == raised' = what /\ ppc' = "deferred"

(* parseFrame reads the command, its tick and its size.                    *)
BeginFrame ==
  /\ ppc = "frame"
  /\ IF frame < Len(demo.frames)
     THEN /\ frame' = frame + 1
          /\ late' = IF perr = "none" THEN late ELSE late + 1
          /\ ppc' = "tick"
          /\ UNCHANGED raised
     ELSE /\ Raise("eof")
          /\ UNCHANGED <<frame, late>>
  /\ UNCHANGED <<demo, call, pending, more, err, ret, fieldVars, regVars, cpc, cur, cancel,
                 sent, taken, log, frameDones, failed>>

(* The dispatcher waits for an item.                                       *)
Waiting == cpc = "recv" /\ ~Busy("dispatcher")

(* The capacity of msgQueue.                                               *)
Capacity == IF demo.buffer < 0 THEN QueueCap ELSE demo.buffer

Room_OffByOne == Len(queue) <= Capacity

(* A send into a full channel blocks; one into an unbuffered channel needs *)
(* a receiver that waits.  There the queue is the hand-over in progress.   *)
Room == IF Capacity = 0 THEN Waiting /\ queue = << >> ELSE Len(queue) < Capacity

Send(item) ==
  /\ Room
  /\ queue' = Append(queue, item)
  /\ sent' = Append(sent, item)
  /\ UNCHANGED <<demo, call, frame, more, err, ret, header, perr, chan, currentFrame,
                 playbackFrames, regVars, cpc, cur, cancel, taken, log, frameDones,
                 failed, late>>

SendTick ==
  /\ ppc = "tick"
  /\ Send(Item(frame, "tick"))
  /\ ppc' = IF Fr.cmd = "stop" THEN "parsed" ELSE "body"
  /\ UNCHANGED <<pending, raised>>

(* The bytes of the command are read, decompressed and decoded.            *)
ReadBody ==
  /\ ppc = "body"
  /\ \/ /\ Fr.cmd = "unknown" \/ Fr.body = "snappy"
        /\ ppc' = "lookup" /\ UNCHANGED raised
     \/ Fr.cmd # "unknown" /\ Fr.body = "short" /\ Raise("eof")
     \/ Fr.cmd # "unknown" /\ Fr.body = "corrupt" /\ Raise("corrupt")
     \/ /\ Fr.cmd # "unknown" /\ Fr.body \in {"ok", "shortPacket"}
        /\ ppc' = "command" /\ UNCHANGED raised
  /\ UNCHANGED <<demo, call, frame, pending, more, err, ret, fieldVars, regVars, cpc, cur,
                 cancel, histVars>>

AfterWarn == IF Fr.cmd = "unknown" THEN "skip" ELSE "command"

(* A ParserWarn is dispatched on the calling goroutine itself, ahead of    *)
(* what still waits in msgQueue: first the handlers are looked up ...      *)
LookupWarn ==
  /\ ppc = "lookup"
  /\ ppc' = IF evReg THEN "warn" ELSE AfterWarn
  /\ UNCHANGED <<demo, call, frame, pending, more, err, raised, ret, fieldVars, regVars, cpc,
                 cur, cancel, histVars>>

(* ... and then they run.                                                  *)
RunWarn(outcome) ==
  /\ ppc = "warn"
  /\ HandlerRuns("parser", outcome)
  /\ ppc' = AfterWarn
  /\ UNCHANGED <<demo, call, frame, pending, more, err, raised, ret, header, chan, queue,
                 currentFrame, playbackFrames, regVars, cpc, cur, sent, taken, log,
                 frameDones, late>>

(* An unknown command is skipped: parseFrame returns without enqueueing    *)
(* frameParsedToken.                                                       *)
SkipUnknown ==
  /\ ppc = "skip"
  /\ IF Fr.body = "short" THEN Raise("eof") ELSE ppc' = "endFrame" /\ UNCHANGED raised
  /\ UNCHANGED <<demo, call, frame, pending, more, err, ret, fieldVars, regVars, cpc, cur,
                 cancel, histVars>>

SendCommand ==
  /\ ppc = "command"
  /\ Send(Item(frame, IF Fr.cmd = "fileInfo" THEN "fileInfo" ELSE "command"))
  /\ ppc' = CASE Fr.cmd = "packet" -> "packet"
              [] Fr.cmd = "full"   -> "tables"
              [] OTHER             -> "parsed"
  /\ UNCHANGED <<pending, raised>>

SendTables ==
  /\ ppc = "tables"
  /\ Send(Item(frame, "stringTable"))
  /\ ppc' = "packet"
  /\ UNCHANGED <<pending, raised>>

(* handleDemoPacket splits the packet into messages and sorts them.        *)
DecodePacket ==
  /\ ppc = "packet"
  /\ IF Fr.body = "shortPacket"
     THEN Raise("eof") /\ UNCHANGED pending
     ELSE /\ pending' = IF Fr.body = "snappy" THEN {} ELSE 1 .. Len(Fr.msgs)
          /\ ppc' = "messages"
          /\ UNCHANGED raised
  /\ UNCHANGED <<demo, call, frame, more, err, ret, fieldVars, regVars, cpc, cur, cancel,
                 histVars>>

IsNext_Unsorted(k) == k \in pending /\ \A j \in pending : k <= j

(* Message k comes next in the sorted packet.                              *)
IsNext(k) == k \in pending /\ \A j \in pending \ {k} : Ahead(Fr.msgs, k, j)

Rest_Break(k) == IF Fr.msgs[k].type = "unknown" THEN {} ELSE pending \ {k}

Rest_NotAdvanced(k) == IF Fr.msgs[k].type = "unknown" THEN pending ELSE pending \ {k}

Rest(k) == pending \ {k}

SendMessage(k) ==
  /\ ppc = "messages" /\ IsNext(k)
  /\ Fr.msgs[k].type # "unknown" /\ ~Fr.msgs[k].bad
  /\ Send(MessageItem(frame, k, Fr.msgs[k]))
  /\ pending' = Rest(k)
  /\ UNCHANGED <<ppc, raised>>

(* A message type without a creator is reported to msgDispatcher, none of  *)
(* whose handlers takes a ParserWarn, and skipped; a message that cannot   *)
(* be decoded is a panic.                                                  *)
RejectMessage(k) ==
  /\ ppc = "messages" /\ IsNext(k)
  /\ \/ /\ Fr.msgs[k].type = "unknown"
        /\ pending' = Rest(k)
        /\ UNCHANGED <<ppc, raised>>
     \/ /\ Fr.msgs[k].type # "unknown" /\ Fr.msgs[k].bad
        /\ pending' = {}
        /\ Raise("corrupt")
  /\ UNCHANGED <<demo, call, frame, more, err, ret, fieldVars, regVars, cpc, cur, cancel,
                 histVars>>

EndPacket ==
  /\ ppc = "messages" /\ pending = {}
  /\ ppc' = "parsed"
  /\ UNCHANGED <<demo, call, frame, pending, more, err, raised, ret, fieldVars, regVars, cpc,
                 cur, cancel, histVars>>

SendParsed ==
  /\ ppc = "parsed"
  /\ Send(Item(frame, "frameParsed"))
  /\ ppc' = "endFrame"
  /\ UNCHANGED <<pending, raised>>

GoesOn_Unchecked == call = "toEnd" /\ more'

(* ParseToEnd's loop: on with the next frame unless there is an error.     *)
GoesOn == call = "toEnd" /\ more' /\ perr = "none"

(* parseFrame returns; p.error() is read once.                             *)
EndFrame ==
  /\ ppc = "endFrame"
  /\ more' = (Fr.cmd # "stop")
  /\ err' = perr
  /\ ppc' = IF GoesOn THEN "frame" ELSE "deferred"
  /\ UNCHANGED <<demo, call, frame, pending, raised, ret, fieldVars, regVars, cpc, cur,
                 cancel, histVars>>

Synced_ToEndOnly == call = "toEnd" /\ chan = "open" => queue = << >> /\ Waiting

Synced == chan = "open" => queue = << >> /\ Waiting

(* SyncAllQueues waits until everything sent has been handled; without a   *)
(* queue it returns at once.                                               *)
SyncAllQueues ==
  /\ ppc = "deferred"
  /\ Synced
  /\ ppc' = "finish"
  /\ UNCHANGED <<demo, call, frame, pending, more, err, raised, ret, fieldVars, regVars, cpc,
                 cur, cancel, histVars>>

(* recoverFromUnexpectedEOF, called only if there is no error yet.         *)
Recovered ==
  IF err # "none" THEN err
  ELSE CASE raised = "none" -> "none"
         [] raised = "eof"  -> "unexpectedEnd"
         [] OTHER           -> "corrupt"       \* panics again

RemoveAndClose ==
  /\ cpc' = "gone"
  /\ chan' = IF chan = "open" THEN "closed" ELSE chan

(* The rest of ParseNextFrame's deferred function.                         *)
ReturnNextFrame ==
  /\ ppc = "finish" /\ call = "next"
  /\ IF more THEN UNCHANGED <<chan, cpc>> ELSE RemoveAndClose
  /\ ret' = [call |-> "next", more |-> more, err |-> Recovered]
  /\ ppc' = IF Recovered = "corrupt" THEN "panicked" ELSE "idle"
  /\ UNCHANGED <<demo, call, frame, pending, more, err, raised, header, perr, queue,
                 currentFrame, playbackFrames, regVars, cur, cancel, histVars>>

FinalError_NotReread == Recovered

(* ParseToEnd reads p.error() again, for errors during SyncAllQueues.      *)
FinalError == IF Recovered = "none" THEN perr ELSE Recovered

PlaybackFrames_Overwritten == IF FinalError = "none" THEN currentFrame ELSE playbackFrames

(* ensurePlaybackValuesAreSet, called without an error only.               *)
PlaybackFrames ==
  IF FinalError = "none" /\ playbackFrames = 0 THEN currentFrame ELSE playbackFrames

(* The rest of ParseToEnd's deferred function.                             *)
ReturnToEnd ==
  /\ ppc = "finish" /\ call = "toEnd"
  /\ RemoveAndClose
  /\ ret' = [call |-> "toEnd", more |-> FALSE, err |-> FinalError]
  /\ ppc' = IF Recovered = "corrupt" THEN "panicked" ELSE "idle"
  /\ playbackFrames' = PlaybackFrames
  /\ UNCHANGED <<demo, call, frame, pending, more, err, raised, header, perr, queue,
                 currentFrame, regVars, cur, cancel, histVars>>

(* Close, called before the parser is discarded.                           *)
Close ==
  /\ ppc \in {"idle", "panicked"}
  /\ cpc' = "gone"
  /\ ret' = [ret EXCEPT !.more = FALSE]
  /\ UNCHANGED <<demo, ppc, call, frame, pending, more, err, raised, fieldVars, regVars, cur,
                 cancel, histVars>>

-------------------------------------------------------------------------------
(* The dispatcher's goroutine.                                             *)

Receive ==
  /\ cpc = "recv" /\ queue # << >>
  /\ cur' = Head(queue)
  /\ queue' = Tail(queue)
  /\ taken' = taken + 1
  /\ cpc' = "dispatch"
  /\ UNCHANGED <<demo, parserVars, header, perr, chan, currentFrame, playbackFrames, regVars,
                 cancel, sent, log, frameDones, failed, late>>

(* The handlers of cur run, if they are still registered.  The last item   *)
(* of a frame goes on with handleFrameParsed's second half, unless a panic *)
(* in the library's own code, not in an event handler, ended it.           *)
(* handleFileInfo stores the announced number of frames.                   *)
Dispatch(outcome) ==
  /\ cpc = "dispatch"
  /\ IF msgReg
     THEN /\ log' = Append(log, cur)
          /\ HandlerRuns("dispatcher", outcome)
          /\ cpc' \in IF cur.kind # "frameParsed" THEN {"recv"}
                      ELSE IF outcome = "panic" THEN {"recv", "frameDone"}
                      ELSE {"frameDone"}
          /\ playbackFrames' = IF cur.kind = "fileInfo" /\ outcome # "panic"
                               THEN InfoFrames ELSE playbackFrames
     ELSE /\ cpc' = "recv"
          /\ UNCHANGED <<log, perr, failed, cancel, playbackFrames>>
  /\ UNCHANGED <<demo, parserVars, header, chan, queue, currentFrame, regVars,
                 cur, sent, taken, frameDones, late>>

(* handleFrameParsed after processFrameGameEvents.                         *)
FrameDone(outcome) ==
  /\ cpc = "frameDone"
  /\ currentFrame' = currentFrame + 1
  /\ IF evReg
     THEN frameDones' = Append(frameDones, cur.frame) /\ HandlerRuns("dispatcher", outcome)
     ELSE UNCHANGED <<frameDones, perr, failed, cancel>>
  /\ cpc' = "recv"
  /\ UNCHANGED <<demo, parserVars, header, chan, queue, playbackFrames, regVars, cur, sent,
                 taken, log, late>>

-------------------------------------------------------------------------------
(* A goroutine inside Cancel does nothing else.                            *)

ParserStep ==
  /\ ~Busy("parser")
  /\ \/ ParseHeader \/ BeginFrame \/ SendTick \/ ReadBody \/ LookupWarn
     \/ \E outcome \in Outcomes : RunWarn(outcome)
     \/ SkipUnknown \/ SendCommand \/ SendTables \/ DecodePacket
     \/ \E k \in pending : SendMessage(k) \/ RejectMessage(k)
     \/ EndPacket \/ SendParsed \/ EndFrame
     \/ SyncAllQueues \/ ReturnNextFrame \/ ReturnToEnd

DispatcherStep ==
  /\ ~Busy("dispatcher")
  /\ \/ Receive
     \/ \E outcome \in Outcomes : Dispatch(outcome) \/ FrameDone(outcome)

CancelStep(g) == CancelEvents(g) \/ CancelMsgs(g)

UserStep == (\E c \in {"next", "toEnd"} : Call(c)) \/ Close \/ CancelOutside

Next ==
  \/ UserStep
  \/ ParserStep
  \/ DispatcherStep
  \/ \E g \in Goroutines : CancelStep(g)

(* Goroutines are scheduled and handlers return; nobody has to call.       *)
Fairness ==
  /\ WF_vars(ParserStep)
  /\ WF_vars(DispatcherStep)
  /\ \A g \in Goroutines : WF_vars(CancelStep(g))

Spec == Init /\ [][Next]_vars /\ Fairness
-------------------------------------------------------------------------------
(* Properties.                                                             *)

ControlOK ==
  /\ ppc \in {"idle", "header", "frame", "tick", "body", "lookup", "warn",
             "skip", "command", "tables", "packet", "messages", "parsed", "endFrame",
             "deferred", "finish", "panicked"}
  /\ call \in {"next", "toEnd"}
  /\ raised \in {"none", "eof", "corrupt"}
  /\ chan \in {"nil", "open", "closed"}
  /\ cpc \in {"recv", "dispatch", "frameDone", "gone"}
  /\ {more, header, failed, evReg, msgReg} \subseteq BOOLEAN
  /\ cancel \in [Goroutines -> {"no", "events", "msgs", "returned"}]

ErrorsOK ==
  /\ {err, perr} \subseteq Errors
  /\ ret \in [call : {"next", "toEnd"}, more : BOOLEAN, err : Errors]

CountersOK ==
  /\ taken \in Nat /\ currentFrame \in Nat /\ playbackFrames \in Nat /\ late \in Nat
  /\ frameDones \in Seq(Nat)

FrameOK ==
  /\ demo \in Demos
  /\ frame \in 0 .. Len(demo.frames)
  /\ pending \subseteq Nat

QueueOK ==
  /\ queue \in Seq(Items) /\ cur \in Items /\ log \in Seq(Items) /\ sent \in Seq(Items)
  /\ Len(queue) <= IF Capacity = 0 THEN 1 ELSE Capacity

(* The variables keep their types and msgQueue its capacity; an unbuffered *)
(* one holds at most the element being handed over.                        *)
TypeOK == ControlOK /\ ErrorsOK /\ CountersOK /\ FrameOK /\ QueueOK

(* Whatever the interleaving of the two goroutines, handlers get the items *)
(* strictly in that order, so none of them twice.                          *)
HandledInDemoOrder ==
  \A i, j \in 1 .. Len(log) : i < j => Before(log[i], log[j])

(* What a frame must have brought to the handlers once it is through.      *)
Required(f) ==
  LET fr == demo.frames[f]
      Once == IF fr.cmd = "stop" THEN {"tick", "frameParsed"}
              ELSE IF fr.cmd = "unknown" THEN {"tick"}
              ELSE {"tick", "frameParsed",
                    IF fr.cmd = "fileInfo" THEN "fileInfo" ELSE "command"}
                   \cup (IF fr.cmd = "full" THEN {"stringTable"} ELSE {})
      Messages == IF fr.cmd \in {"packet", "full"} /\ fr.body = "ok"
                  THEN {k \in 1 .. Len(fr.msgs) : fr.msgs[k].type # "unknown"} ELSE {}
  IN  {Item(f, kind) : kind \in Once}
      \cup {MessageItem(f, k, fr.msgs[k]) : k \in Messages}

ReturnedFrom(c) == ppc = "idle" /\ ret.call = c

CleanEnd == ReturnedFrom("toEnd") /\ ret.err = "none"

(* ParseToEnd without an error has brought every decodable message of      *)
(* every frame up to the stop command to the handlers.                     *)
NothingLost ==
  CleanEnd => /\ demo.frames[frame].cmd = "stop"
              /\ \A f \in 1 .. frame : \A item \in Required(f) :
                   \E i \in 1 .. Len(log) : log[i] = item

(* When a parsing call has returned, no handler is running or will run for *)
(* what it read ("Make sure all the messages of the frame are handled"):   *)
(* the user may look at the game state.                                    *)
HandledAtReturn ==
  ppc \in {"idle", "panicked"} =>
    /\ queue = << >>
    /\ cpc \in {"recv", "gone"}
    /\ ~Busy("dispatcher")
    /\ msgReg => log = sent

(* ParseToEnd returns no nil error when a handler panicked or called       *)
(* Cancel, not even during the last synchronisation.                       *)
ErrorNotLost ==
  CleanEnd => /\ ~failed
              /\ cancel["dispatcher"] = "no" /\ cancel["parser"] = "no"

(* An error or Cancel ends ParseToEnd: at most one frame is still begun,   *)
(* the one that was about to be read when it happened.                     *)
AbortsPromptly == late <= 1

(* The playback values are those of the CDemoFileInfo message, or else, and*)
(* if it announces none, count every frame of the demo that was handled to *)
(* its end.                                                                *)
PlaybackValuesSet ==
  CleanEnd => playbackFrames = IF /\ \E i \in 1 .. Len(log) : log[i].kind = "fileInfo"
                                  /\ InfoFrames # 0
                               THEN InfoFrames
                               ELSE Cardinality({f \in 1 .. frame :
                                                   demo.frames[f].cmd # "unknown"})

(* Once a handler's Cancel has returned, no net-message and no FrameDone   *)
(* reaches a handler.                                                      *)
SilentAfterCancel ==
  [][cancel["dispatcher"] = "returned" => UNCHANGED <<log, frameDones>>]_vars

Calling == ppc \notin {"idle", "panicked"}

(* A parsing call returns (or panics): the two goroutines do not block     *)
(* each other, at any capacity of msgQueue.                                *)
CallReturns == Calling ~> ~Calling

(* The two goroutines and the queue implement the sequential reader.       *)
Sequential == INSTANCE SequentialParsing
  WITH Elements <- Items, stream <- sent, handled <- log, calling <- Calling,
       muted <- ~msgReg, ended <- ~ret.more

(* ParseNextFrame and ParseToEnd behave as if they handled each item as    *)
(* soon as it is read, before anything else.                               *)
RefinesSequential == Sequential!Spec

-------------------------------------------------------------------------------
(* What the documentation says and the code does not do.                   *)

(* "Aborts and returns ErrCancelled if Cancel() is called before the end." *)
CancelIsReturned ==
  ReturnedFrom("toEnd") /\ perr = "cancelled" /\ cancel["dispatcher"] = "returned"
    => ret.err = "cancelled"

===============================================================================
