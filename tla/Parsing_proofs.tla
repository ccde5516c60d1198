---------------------------- MODULE Parsing_proofs ----------------------------
(***************************************************************************)
(* Proofs about Parsing, for every set of demos, every capacity of         *)
(* msgQueue and every behaviour of the handlers.  Each part of the         *)
(* inductive invariant is shown to be kept by every step on its own; the   *)
(* parts are then put together.                                            *)
(***************************************************************************)
EXTENDS Parsing, TLAPS, SequenceTheorems, FiniteSetTheorems

USE QueueCapAssumption, OutcomesAssumption, InfoFramesAssumption

(* What a handler may do to the parser's error and to Cancel: the first     *)
(* error stays, a panic or a Cancel leaves one, and only a Cancel that has  *)
(* not begun begins.                                                        *)
LEMMA HandlerEffect ==
  ASSUME NEW g \in Goroutines, NEW outcome \in AllOutcomes,
         ControlOK, HandlerRuns(g, outcome)
  PROVE  /\ perr' \in {perr, "cancelled", "handlerPanic"}
         /\ perr # "none" => perr' = perr
         /\ failed' \in BOOLEAN
         /\ failed' => failed \/ perr' # "none"
         /\ \/ cancel' = cancel
            \/ /\ cancel[g] = "no" /\ perr' # "none"
               /\ cancel' = [cancel EXCEPT ![g] = "events"]
  BY DEF AllOutcomes, HandlerRuns, SetError, ControlOK

-------------------------------------------------------------------------------
(* The parts of the inductive invariant, and the types of what parseFrame   *)
(* handles.                                                                 *)

(* The places inside parseFrame.                                            *)
FramePcs == {"tick", "body", "lookup", "warn", "skip", "command", "tables", "packet",
             "messages", "parsed", "endFrame"}

(* Inside parseFrame there is a current frame, and the messages not yet sent*)
(* are messages of its packet.                                              *)
PcOK ==
  /\ ppc \in FramePcs => frame >= 1
  /\ ppc = "messages" => pending \subseteq 1 .. Len(Fr.msgs)

(* Inside parseFrame the current frame is a frame of the demo.              *)
LEMMA FrameType ==
  ASSUME FrameOK, frame >= 1
  PROVE  Fr \in Frames /\ frame \in 1 .. Len(demo.frames)
<1>1. demo.frames \in Seq(Frames) /\ Len(demo.frames) \in Nat
  BY DemosAssumption DEF FrameOK
<1>2. frame \in 1 .. Len(demo.frames)
  BY <1>1 DEF FrameOK
<1> QED
  BY <1>1, <1>2, ElementOfSeq DEF Fr

(* So are the messages of its packet.                                       *)
LEMMA MessageType ==
  ASSUME FrameOK, frame >= 1, NEW k \in 1 .. Len(Fr.msgs)
  PROVE  k \in Nat /\ Fr.msgs[k] \in PendingMessages /\ Fr.msgs[k].type \in Types
<1>1. Fr.msgs \in Seq(PendingMessages)
  BY FrameType DEF Frames
<1>2. k \in Nat /\ Fr.msgs[k] \in PendingMessages
  BY <1>1, ElementOfSeq
<1> QED
  BY <1>2 DEF PendingMessages

(* What parseFrame makes of a frame are items.                              *)
LEMMA ItemType ==
  ASSUME FrameOK, frame >= 1
  PROVE  /\ \A kind \in Kinds : Item(frame, kind) \in Items
         /\ \A k \in 1 .. Len(Fr.msgs) : MessageItem(frame, k, Fr.msgs[k]) \in Items
<1>1. frame \in Nat
  BY FrameType
<1>2. \A k \in 1 .. Len(Fr.msgs) : k \in Nat /\ Fr.msgs[k].type \in Types
  BY MessageType
<1> QED
  BY <1>1, <1>2 DEF Item, MessageItem, Items, Kinds, Types

(* Everything sent has been received and handled.                           *)
Drained == queue = << >> /\ cpc \in {"recv", "gone"} /\ ~Busy("dispatcher")

(* The queue outlives the calls that fill it: it is open inside parseFrame, *)
(* drained between two calls, and closed only after the last one.           *)
SyncInv ==
  /\ chan # "open" => Drained /\ cpc = "gone"
  /\ ppc \in {"idle", "panicked", "header", "finish"} => Drained
  /\ ppc \in FramePcs \cup {"frame"} => header
  /\ header => chan # "nil"
  /\ Calling \/ ret.more => chan # "closed"

(* What a step does to the items on their way from the demo to the handlers:*)
(* one is sent, received or dispatched, or none moves.                      *)
Flow == <<queue, cur, log, sent, taken>>

SendSome == \E item \in Items : Send(item) /\ ppc \in FramePcs

DispatchSome == \E outcome \in Outcomes : Dispatch(outcome)

Still ==
  /\ UNCHANGED Flow
  /\ msgReg' = msgReg \/ msgReg' = FALSE
  /\ cpc' = cpc \/ (cpc # "dispatch" /\ cpc' \in {"recv", "gone"})

(* The queue holds the items sent and not yet received, cur is the last one *)
(* received, and the handlers have had the items before it; while the       *)
(* handlers are registered, all of them.                                    *)
FifoInv ==
  /\ taken + Len(queue) = Len(sent)
  /\ \A i \in 1 .. Len(queue) : queue[i] = sent[taken + i]
  /\ cpc \in {"dispatch", "frameDone"} => taken > 0 /\ cur = sent[taken]
  /\ Len(log) <= IF cpc = "dispatch" THEN taken - 1 ELSE taken
  /\ msgReg => Len(log) = IF cpc = "dispatch" THEN taken - 1 ELSE taken
  /\ \A i \in 1 .. Len(log) : log[i] = sent[i]

(* A handler that panicked or called Cancel has left an error.              *)
ErrInv ==
  /\ failed => perr # "none"
  /\ \A g \in Goroutines : cancel[g] # "no" => perr # "none"

(* A frame begun with an error set is the last one: the loop does not go on.*)
LateInv ==
  /\ late <= 1
  /\ perr = "none" => late = 0
  /\ ppc \in {"header", "frame"} => late = 0

(* Cancel has unregistered the event handlers before the message handlers.  *)
RegInv ==
  /\ \A g \in Goroutines : cancel[g] \in {"msgs", "returned"} => ~evReg
  /\ \A g \in Goroutines : cancel[g] = "returned" => ~msgReg

(* The stage of the current frame's items that parseFrame has reached.      *)
Level ==
  CASE ppc = "tick" -> -1
    [] ppc \in {"body", "lookup", "warn", "skip", "command"} -> 0
    [] ppc = "tables" -> 1
    [] ppc = "packet" -> 2
    [] ppc \in {"messages", "parsed"} -> 3
    [] OTHER -> 4

(* The items were sent in the order they belong in ...                      *)
SentOrdered == \A i, j \in 1 .. Len(sent) : i < j => Before(sent[i], sent[j])

(* ... none of them ahead of the place parseFrame has reached ...           *)
SentSoFar ==
  \A i \in 1 .. Len(sent) :
    /\ sent[i].frame <= frame
    /\ sent[i].frame = frame => Stage(sent[i].kind) <= Level

(* ... and the messages still to be sent belong after those sent.           *)
PendingLater ==
  ppc = "messages" =>
    \A i \in 1 .. Len(sent) : \A k \in pending :
      sent[i].frame = frame /\ sent[i].kind = "message"
        => Before(sent[i], MessageItem(frame, k, Fr.msgs[k]))

(* The order of the items sent.                                             *)
OrderInv == SentOrdered /\ SentSoFar /\ PendingLater

(* The inductive invariant.                                                 *)
IndInv ==
  /\ TypeOK /\ PcOK
  /\ SyncInv /\ FifoInv /\ OrderInv
  /\ ErrInv /\ ErrorNotLost /\ LateInv /\ RegInv

-------------------------------------------------------------------------------
(* Types.                                                                   *)

(* Every step keeps the types of the control variables.                     *)
LEMMA ControlStep == ControlOK /\ [Next]_vars => ControlOK'
<1> SUFFICES ASSUME ControlOK, [Next]_vars PROVE ControlOK'
  OBVIOUS
<1>1. ASSUME NEW c \in {"next", "toEnd"}, Call(c) PROVE ControlOK'
  BY <1>1 DEF Call, ControlOK, fieldVars, regVars
<1>2. CASE Close
  BY <1>2 DEF Close, ControlOK, fieldVars, regVars, histVars
<1>3. CASE CancelOutside
  BY <1>3, HandlerEffect DEF CancelOutside, ControlOK, parserVars, regVars,
     Goroutines, AllOutcomes
<1>4. CASE ParseHeader
  BY <1>4 DEF ParseHeader, ControlOK, regVars, histVars
<1>5. CASE BeginFrame
  BY <1>5 DEF BeginFrame, Raise, ControlOK, fieldVars, regVars
<1>6. CASE SendTick
  BY <1>6 DEF SendTick, Send, ControlOK, regVars
<1>7. CASE ReadBody
  BY <1>7 DEF ReadBody, Raise, ControlOK, fieldVars, regVars, histVars
<1>8. CASE LookupWarn
  BY <1>8 DEF LookupWarn, AfterWarn, ControlOK, fieldVars, regVars, histVars
<1>9. ASSUME NEW outcome \in Outcomes, RunWarn(outcome) PROVE ControlOK'
  BY <1>9, HandlerEffect DEF RunWarn, AfterWarn, ControlOK, regVars, Goroutines,
     AllOutcomes
<1>10. CASE SkipUnknown
  BY <1>10 DEF SkipUnknown, Raise, ControlOK, fieldVars, regVars, histVars
<1>11. CASE SendCommand
  BY <1>11 DEF SendCommand, Send, ControlOK, regVars
<1>12. CASE SendTables
  BY <1>12 DEF SendTables, Send, ControlOK, regVars
<1>13. CASE DecodePacket
  BY <1>13 DEF DecodePacket, Raise, ControlOK, fieldVars, regVars, histVars
<1>14. ASSUME NEW k \in pending, SendMessage(k) PROVE ControlOK'
  BY <1>14 DEF SendMessage, Send, Rest, ControlOK, regVars
<1>15. ASSUME NEW k \in pending, RejectMessage(k) PROVE ControlOK'
  BY <1>15 DEF RejectMessage, Raise, Rest, ControlOK, fieldVars, regVars, histVars
<1>16. CASE EndPacket
  BY <1>16 DEF EndPacket, ControlOK, fieldVars, regVars, histVars
<1>17. CASE SendParsed
  BY <1>17 DEF SendParsed, Send, ControlOK, regVars
<1>18. CASE EndFrame
  BY <1>18 DEF EndFrame, GoesOn, ControlOK, fieldVars, regVars, histVars
<1>19. CASE SyncAllQueues
  BY <1>19 DEF SyncAllQueues, Synced, Waiting, Busy, ControlOK, fieldVars,
     regVars, histVars
<1>20. CASE ReturnNextFrame
  BY <1>20 DEF ReturnNextFrame, Recovered, RemoveAndClose, ControlOK, regVars,
     histVars
<1>21. CASE ReturnToEnd
  BY <1>21 DEF ReturnToEnd, Recovered, RemoveAndClose, FinalError, PlaybackFrames,
     ControlOK, regVars, histVars
<1>22. CASE Receive
  BY <1>22 DEF Receive, ControlOK, parserVars, regVars
<1>23. ASSUME NEW outcome \in Outcomes, Dispatch(outcome) PROVE ControlOK'
  BY <1>23, HandlerEffect DEF Dispatch, ControlOK, parserVars, regVars,
     Goroutines, AllOutcomes
<1>24. ASSUME NEW outcome \in Outcomes, FrameDone(outcome) PROVE ControlOK'
  BY <1>24, HandlerEffect DEF FrameDone, ControlOK, parserVars, regVars,
     Goroutines, AllOutcomes
<1>25. ASSUME NEW g \in Goroutines, CancelEvents(g) PROVE ControlOK'
  BY <1>25, ZenonT(40) DEF CancelEvents, UnregisterEventHandlers, ControlOK, parserVars,
     fieldVars, histVars
<1>26. ASSUME NEW g \in Goroutines, CancelMsgs(g) PROVE ControlOK'
  BY <1>26, ZenonT(40) DEF CancelMsgs, ControlOK, parserVars, fieldVars, histVars
<1>27. CASE UNCHANGED vars
  BY <1>27 DEF ControlOK, vars, parserVars, fieldVars, regVars, histVars
<1> QED
  BY <1>1, <1>2, <1>3, <1>4, <1>5, <1>6, <1>7, <1>8, <1>9, <1>10, <1>11, <1>12,
     <1>13, <1>14, <1>15, <1>16, <1>17, <1>18, <1>19, <1>20, <1>21, <1>22, <1>23,
     <1>24, <1>25, <1>26, <1>27 DEF Next, UserStep, ParserStep, DispatcherStep,
     CancelStep

(* Every step keeps the types of the errors and results.                    *)
LEMMA ErrorsStep == ControlOK /\ ErrorsOK /\ [Next]_vars => ErrorsOK'
<1> SUFFICES ASSUME ControlOK /\ ErrorsOK, [Next]_vars PROVE ErrorsOK'
  OBVIOUS
<1>1. CASE UNCHANGED <<err, perr, ret>>
  BY <1>1 DEF ErrorsOK
<1>2. ASSUME NEW c \in {"next", "toEnd"}, Call(c) PROVE ErrorsOK'
  BY <1>2 DEF Call, ErrorsOK, Errors, ControlOK, fieldVars, regVars
<1>3. CASE Close
  BY <1>3 DEF Close, ErrorsOK, Errors, ControlOK, fieldVars, regVars, histVars
<1>4. CASE CancelOutside
  BY <1>4, HandlerEffect DEF CancelOutside, ErrorsOK, Errors, ControlOK,
     parserVars, regVars, Goroutines, AllOutcomes
<1>5. CASE ParseHeader
  BY <1>5 DEF ParseHeader, ErrorsOK, Errors, ControlOK, regVars, histVars
<1>6. ASSUME NEW outcome \in Outcomes, RunWarn(outcome) PROVE ErrorsOK'
  BY <1>6, HandlerEffect DEF RunWarn, AfterWarn, ErrorsOK, Errors, ControlOK,
     regVars, Goroutines, AllOutcomes
<1>7. CASE EndFrame
  BY <1>7 DEF EndFrame, GoesOn, ErrorsOK, Errors, ControlOK, fieldVars, regVars,
     histVars
<1>8. CASE ReturnNextFrame
  BY <1>8 DEF ReturnNextFrame, Recovered, RemoveAndClose, ErrorsOK, Errors,
     ControlOK, regVars, histVars
<1>9. CASE ReturnToEnd
  BY <1>9 DEF ReturnToEnd, Recovered, RemoveAndClose, FinalError, PlaybackFrames,
     ErrorsOK, Errors, ControlOK, regVars, histVars
<1>10. ASSUME NEW outcome \in Outcomes, Dispatch(outcome) PROVE ErrorsOK'
  BY <1>10, HandlerEffect DEF Dispatch, ErrorsOK, Errors, ControlOK, parserVars,
     regVars, Goroutines, AllOutcomes
<1>11. ASSUME NEW outcome \in Outcomes, FrameDone(outcome) PROVE ErrorsOK'
  BY <1>11, HandlerEffect DEF FrameDone, ErrorsOK, Errors, ControlOK, parserVars,
     regVars, Goroutines, AllOutcomes
<1> QED
  BY <1>1, <1>2, <1>3, <1>4, <1>5, <1>6, <1>7, <1>8, <1>9, <1>10, <1>11 DEF Next,
     UserStep, ParserStep, DispatcherStep, CancelStep, vars, parserVars,
     fieldVars, regVars, histVars, BeginFrame, Raise, SendTick, Send, ReadBody,
     LookupWarn, AfterWarn, SkipUnknown, SendCommand, SendTables, DecodePacket,
     SendMessage, Rest, RejectMessage, EndPacket, SendParsed, SyncAllQueues,
     Synced, Waiting, Busy, Receive, CancelEvents, UnregisterEventHandlers,
     CancelMsgs

(* Every step keeps the types of the counters and of the frames reported.   *)
LEMMA CountersStep == CountersOK /\ FrameOK /\ QueueOK /\ [Next]_vars => CountersOK'
<1> SUFFICES ASSUME CountersOK /\ FrameOK /\ QueueOK, [Next]_vars PROVE CountersOK'
  OBVIOUS
<1>1. CASE UNCHANGED <<taken, currentFrame, playbackFrames, late, frameDones>>
  BY <1>1 DEF CountersOK
<1>2. ASSUME NEW c \in {"next", "toEnd"}, Call(c) PROVE CountersOK'
  BY <1>2 DEF Call, CountersOK, FrameOK, QueueOK, Items, fieldVars, regVars
<1>3. CASE BeginFrame
  BY <1>3 DEF BeginFrame, Raise, CountersOK, FrameOK, QueueOK, Items, fieldVars,
     regVars
<1>4. ASSUME NEW outcome \in Outcomes, RunWarn(outcome) PROVE CountersOK'
  BY <1>4 DEF RunWarn, AfterWarn, CountersOK, FrameOK, QueueOK, Items, regVars
<1>5. CASE ReturnToEnd
  BY <1>5 DEF ReturnToEnd, Recovered, RemoveAndClose, FinalError, PlaybackFrames,
     CountersOK, FrameOK, QueueOK, Items, regVars, histVars
<1>6. CASE Receive
  BY <1>6 DEF Receive, CountersOK, FrameOK, QueueOK, Items, parserVars, regVars
<1>7. ASSUME NEW outcome \in Outcomes, Dispatch(outcome) PROVE CountersOK'
  BY <1>7 DEF Dispatch, CountersOK, FrameOK, QueueOK, Items, parserVars, regVars
<1>8. ASSUME NEW outcome \in Outcomes, FrameDone(outcome) PROVE CountersOK'
  <2>1. cur.frame \in Nat
    BY DEF QueueOK, Items
  <2>2. frameDones' \in Seq(Nat)
    <3>0. frameDones \in Seq(Nat)
      BY DEF CountersOK
    <3>1. frameDones' = frameDones \/ frameDones' = Append(frameDones, cur.frame)
      BY <1>8 DEF FrameDone
    <3> QED
      BY <2>1, <3>0, <3>1, AppendProperties
  <2> QED
    BY <1>8, <2>2 DEF FrameDone, CountersOK, parserVars, fieldVars, regVars, histVars
<1> QED
  BY <1>1, <1>2, <1>3, <1>4, <1>5, <1>6, <1>7, <1>8 DEF Next, UserStep,
     ParserStep, DispatcherStep, CancelStep, vars, parserVars, fieldVars, regVars,
     histVars, Close, CancelOutside, ParseHeader, SendTick, Send, ReadBody, Raise,
     LookupWarn, AfterWarn, SkipUnknown, SendCommand, SendTables, DecodePacket,
     SendMessage, Rest, RejectMessage, EndPacket, SendParsed, EndFrame, GoesOn,
     SyncAllQueues, Synced, Waiting, Busy, ReturnNextFrame, Recovered,
     RemoveAndClose, CancelEvents, UnregisterEventHandlers, CancelMsgs

(* Every step keeps the current frame within the demo.                      *)
LEMMA FrameStep == FrameOK /\ PcOK /\ [Next]_vars => (FrameOK /\ PcOK)'
<1> SUFFICES ASSUME FrameOK /\ PcOK, [Next]_vars PROVE (FrameOK /\ PcOK)'
  OBVIOUS
<1>1. CASE /\ UNCHANGED <<demo, frame, pending>>
           /\ ppc' \in FramePcs => ppc \in FramePcs
           /\ ppc' = "messages" => ppc = "messages"
  BY <1>1 DEF FrameOK, PcOK, Fr
<1>2. CASE BeginFrame
  BY <1>2, DemosAssumption, FrameType DEF BeginFrame, Raise, FrameOK, PcOK,
     FramePcs, Fr
<1>3. CASE DecodePacket
  <2>1. frame >= 1 /\ Fr \in Frames
    BY <1>3, FrameType DEF DecodePacket, PcOK, FramePcs
  <2>2. Len(Fr.msgs) \in Nat
    BY <2>1 DEF Frames
  <2>3. UNCHANGED <<demo, frame>>
    BY <1>3 DEF DecodePacket
  <2>4. \/ ppc' = "deferred" /\ pending' = pending
        \/ ppc' = "messages" /\ pending' \subseteq 1 .. Len(Fr.msgs)
    BY <1>3 DEF DecodePacket, Raise
  <2>5. FrameOK'
    <3>1. 1 .. Len(Fr.msgs) \subseteq Nat
      BY <2>2
    <3>2. pending \subseteq Nat
      BY DEF FrameOK
    <3> QED
      BY <2>3, <2>4, <3>1, <3>2 DEF FrameOK
  <2>6. PcOK'
    BY <2>1, <2>3, <2>4 DEF PcOK, FramePcs, Fr
  <2> QED
    BY <2>5, <2>6
<1>4. ASSUME NEW k \in pending, SendMessage(k) PROVE (FrameOK /\ PcOK)'
  BY <1>4 DEF SendMessage, Send, Rest, FrameOK, PcOK, FramePcs, Fr
<1>5. ASSUME NEW k \in pending, RejectMessage(k) PROVE (FrameOK /\ PcOK)'
  BY <1>5 DEF RejectMessage, Raise, Rest, FrameOK, PcOK, FramePcs, Fr
<1> QED
  BY <1>1, <1>2, <1>3, <1>4, <1>5 DEF Next, UserStep, ParserStep, DispatcherStep,
     CancelStep, vars, parserVars, fieldVars, regVars, histVars, Call, Close,
     CancelOutside, ParseHeader, SendTick, Send, ReadBody, Raise, LookupWarn,
     AfterWarn, RunWarn, SkipUnknown, SendCommand, SendTables, EndPacket,
     SendParsed, EndFrame, GoesOn, SyncAllQueues, Synced, Waiting, Busy,
     ReturnNextFrame, Recovered, RemoveAndClose, ReturnToEnd, FinalError,
     PlaybackFrames, Receive, Dispatch, FrameDone, CancelEvents,
     UnregisterEventHandlers, CancelMsgs, FramePcs

-------------------------------------------------------------------------------
(* The queue between the goroutines.                                        *)

(* Every step keeps the queue's life cycle. SyncAllQueues is what           *)
(* establishes that the queue is drained before a call returns.             *)
LEMMA SyncStep == ControlOK /\ SyncInv /\ [Next]_vars => SyncInv'
<1> SUFFICES ASSUME ControlOK /\ SyncInv, [Next]_vars PROVE SyncInv'
  OBVIOUS
<1>1. ASSUME NEW c \in {"next", "toEnd"}, Call(c) PROVE SyncInv'
  BY <1>1 DEF Call, SyncInv, Drained, FramePcs, Calling, Busy, ControlOK,
     fieldVars, regVars
<1>2. CASE Close
  BY <1>2 DEF Close, SyncInv, Drained, FramePcs, Calling, Busy, ControlOK,
     fieldVars, regVars, histVars
<1>3. CASE CancelOutside
  BY <1>3, HandlerEffect DEF CancelOutside, SyncInv, Drained, FramePcs, Calling,
     Busy, ControlOK, parserVars, regVars, Goroutines, AllOutcomes
<1>4. CASE ParseHeader
  BY <1>4 DEF ParseHeader, SyncInv, Drained, FramePcs, Calling, Busy, ControlOK,
     regVars, histVars
<1>5. CASE BeginFrame
  BY <1>5 DEF BeginFrame, Raise, SyncInv, Drained, FramePcs, Calling, Busy,
     ControlOK, fieldVars, regVars
<1>6. CASE SendTick
  BY <1>6 DEF SendTick, Send, SyncInv, Drained, FramePcs, Calling, Busy,
     ControlOK, Room, Waiting, regVars
<1>7. CASE ReadBody
  BY <1>7 DEF ReadBody, Raise, SyncInv, Drained, FramePcs, Calling, Busy,
     ControlOK, fieldVars, regVars, histVars
<1>8. CASE LookupWarn
  BY <1>8 DEF LookupWarn, AfterWarn, SyncInv, Drained, FramePcs, Calling, Busy,
     ControlOK, fieldVars, regVars, histVars
<1>9. ASSUME NEW outcome \in Outcomes, RunWarn(outcome) PROVE SyncInv'
  BY <1>9, HandlerEffect DEF RunWarn, AfterWarn, SyncInv, Drained, FramePcs,
     Calling, Busy, ControlOK, regVars, Goroutines, AllOutcomes
<1>10. CASE SkipUnknown
  BY <1>10 DEF SkipUnknown, Raise, SyncInv, Drained, FramePcs, Calling, Busy,
     ControlOK, fieldVars, regVars, histVars
<1>11. CASE SendCommand
  BY <1>11 DEF SendCommand, Send, SyncInv, Drained, FramePcs, Calling, Busy,
     ControlOK, Room, Waiting, regVars
<1>12. CASE SendTables
  BY <1>12 DEF SendTables, Send, SyncInv, Drained, FramePcs, Calling, Busy,
     ControlOK, Room, Waiting, regVars
<1>13. CASE DecodePacket
  BY <1>13 DEF DecodePacket, Raise, SyncInv, Drained, FramePcs, Calling, Busy,
     ControlOK, fieldVars, regVars, histVars
<1>14. ASSUME NEW k \in pending, SendMessage(k) PROVE SyncInv'
  BY <1>14 DEF SendMessage, Send, Rest, SyncInv, Drained, FramePcs, Calling, Busy,
     ControlOK, Room, Waiting, regVars
<1>15. ASSUME NEW k \in pending, RejectMessage(k) PROVE SyncInv'
  BY <1>15 DEF RejectMessage, Raise, Rest, SyncInv, Drained, FramePcs, Calling,
     Busy, ControlOK, fieldVars, regVars, histVars
<1>16. CASE EndPacket
  BY <1>16 DEF EndPacket, SyncInv, Drained, FramePcs, Calling, Busy, ControlOK,
     fieldVars, regVars, histVars
<1>17. CASE SendParsed
  BY <1>17 DEF SendParsed, Send, SyncInv, Drained, FramePcs, Calling, Busy,
     ControlOK, Room, Waiting, regVars
<1>18. CASE EndFrame
  BY <1>18 DEF EndFrame, GoesOn, SyncInv, Drained, FramePcs, Calling, Busy,
     ControlOK, fieldVars, regVars, histVars
<1>19. CASE SyncAllQueues
  BY <1>19 DEF SyncAllQueues, Synced, Waiting, Busy, SyncInv, Drained, FramePcs,
     Calling, ControlOK, fieldVars, regVars, histVars
<1>20. CASE ReturnNextFrame
  BY <1>20 DEF ReturnNextFrame, Recovered, RemoveAndClose, SyncInv, Drained,
     FramePcs, Calling, Busy, ControlOK, regVars, histVars
<1>21. CASE ReturnToEnd
  BY <1>21 DEF ReturnToEnd, Recovered, RemoveAndClose, FinalError, PlaybackFrames,
     SyncInv, Drained, FramePcs, Calling, Busy, ControlOK, regVars, histVars
<1>22. CASE Receive
  BY <1>22 DEF Receive, SyncInv, Drained, FramePcs, Calling, Busy, ControlOK,
     parserVars, regVars
<1>23. ASSUME NEW outcome \in Outcomes, Dispatch(outcome) PROVE SyncInv'
  BY <1>23, HandlerEffect DEF Dispatch, SyncInv, Drained, FramePcs, Calling, Busy,
     ControlOK, parserVars, regVars, Goroutines, AllOutcomes
<1>24. ASSUME NEW outcome \in Outcomes, FrameDone(outcome) PROVE SyncInv'
  BY <1>24, HandlerEffect DEF FrameDone, SyncInv, Drained, FramePcs, Calling,
     Busy, ControlOK, parserVars, regVars, Goroutines, AllOutcomes
<1>25. ASSUME NEW g \in Goroutines, CancelEvents(g) PROVE SyncInv'
  BY <1>25 DEF CancelEvents, UnregisterEventHandlers, SyncInv, Drained, FramePcs,
     Calling, Busy, ControlOK, parserVars, fieldVars, histVars
<1>26. ASSUME NEW g \in Goroutines, CancelMsgs(g) PROVE SyncInv'
  BY <1>26 DEF CancelMsgs, SyncInv, Drained, FramePcs, Calling, Busy, ControlOK,
     parserVars, fieldVars, histVars
<1>27. CASE UNCHANGED vars
  BY <1>27 DEF SyncInv, Drained, FramePcs, Calling, Busy, ControlOK, vars,
     parserVars, fieldVars, regVars, histVars
<1> QED
  BY <1>1, <1>2, <1>3, <1>4, <1>5, <1>6, <1>7, <1>8, <1>9, <1>10, <1>11, <1>12,
     <1>13, <1>14, <1>15, <1>16, <1>17, <1>18, <1>19, <1>20, <1>21, <1>22, <1>23,
     <1>24, <1>25, <1>26, <1>27 DEF Next, UserStep, ParserStep, DispatcherStep,
     CancelStep

(* Every step sends one item, receives one, dispatches one, or moves none.  *)
LEMMA StepCases ==
  FrameOK /\ PcOK /\ SyncInv /\ [Next]_vars => SendSome \/ Receive \/ DispatchSome \/ Still
<1> SUFFICES ASSUME FrameOK /\ PcOK /\ SyncInv, [Next]_vars PROVE SendSome \/ Receive \/ DispatchSome \/ Still
  OBVIOUS
<1>1. CASE SendTick
  <2>1. Item(frame, "tick") \in Items
    BY <1>1, ItemType DEF SendTick, PcOK, FramePcs, Kinds
  <2> QED
    BY <1>1, <2>1 DEF SendTick, SendSome, FramePcs
<1>2. CASE SendCommand
  <2>1. Item(frame, IF Fr.cmd = "fileInfo" THEN "fileInfo" ELSE "command") \in Items
    BY <1>2, ItemType DEF SendCommand, PcOK, FramePcs, Kinds
  <2> QED
    BY <1>2, <2>1 DEF SendCommand, SendSome, FramePcs
<1>3. CASE SendTables
  <2>1. Item(frame, "stringTable") \in Items
    BY <1>3, ItemType DEF SendTables, PcOK, FramePcs, Kinds
  <2> QED
    BY <1>3, <2>1 DEF SendTables, SendSome, FramePcs
<1>4. ASSUME NEW k \in pending, SendMessage(k) PROVE SendSome \/ Receive \/ DispatchSome \/ Still
  <2>1. MessageItem(frame, k, Fr.msgs[k]) \in Items
    BY <1>4, ItemType DEF SendMessage, PcOK, FramePcs
  <2> QED
    BY <1>4, <2>1 DEF SendMessage, SendSome, FramePcs
<1>5. CASE SendParsed
  <2>1. Item(frame, "frameParsed") \in Items
    BY <1>5, ItemType DEF SendParsed, PcOK, FramePcs, Kinds
  <2> QED
    BY <1>5, <2>1 DEF SendParsed, SendSome, FramePcs
<1>6. CASE Receive
  BY <1>6
<1>7. ASSUME NEW outcome \in Outcomes, Dispatch(outcome) PROVE SendSome \/ Receive \/ DispatchSome \/ Still
  BY <1>7 DEF DispatchSome
<1> QED
  BY <1>1, <1>2, <1>3, <1>4, <1>5, <1>6, <1>7, ZenonT(40) DEF Next, UserStep, ParserStep,
     DispatcherStep, CancelStep, vars, parserVars, fieldVars, regVars, histVars,
     Call, Close, CancelOutside, ParseHeader, BeginFrame, Raise, ReadBody,
     LookupWarn, AfterWarn, RunWarn, SkipUnknown, DecodePacket, RejectMessage,
     Rest, EndPacket, EndFrame, GoesOn, SyncAllQueues, Synced, Waiting, Busy,
     ReturnNextFrame, Recovered, RemoveAndClose, ReturnToEnd, FinalError,
     PlaybackFrames, FrameDone, CancelEvents, UnregisterEventHandlers, CancelMsgs,
     Still, Flow, SyncInv, Drained

(* The demo and the settings stay, and with them the capacity.              *)
LEMMA CapacityFixed ==
  ASSUME FrameOK, [Next]_vars
  PROVE  Capacity \in Nat /\ Capacity' = Capacity
<1>1. demo' = demo
  BY ZenonT(40) DEF Next, UserStep, ParserStep, DispatcherStep, CancelStep, vars, Send,
     Call, Close, CancelOutside, ParseHeader, BeginFrame, SendTick, ReadBody, LookupWarn,
     RunWarn, SkipUnknown, SendCommand, SendTables, DecodePacket, SendMessage,
     RejectMessage, EndPacket, SendParsed, EndFrame, SyncAllQueues, ReturnNextFrame,
     ReturnToEnd, Receive, Dispatch, FrameDone, CancelEvents, CancelMsgs
<1>2. demo.buffer \in Int
  BY DemosAssumption DEF FrameOK
<1> QED
  BY <1>1, <1>2 DEF Capacity

(* Every step keeps the types of the items and the queue within its         *)
(* capacity.                                                                *)
LEMMA QueueStep ==
  FrameOK /\ PcOK /\ SyncInv /\ QueueOK /\ [Next]_vars => QueueOK'
<1> SUFFICES ASSUME FrameOK, PcOK, SyncInv, QueueOK, [Next]_vars PROVE QueueOK'
  OBVIOUS
<1> Capacity \in Nat /\ Capacity' = Capacity
  BY CapacityFixed
<1>1. ASSUME NEW item \in Items, Send(item) PROVE QueueOK'
  <2>1. queue' \in Seq(Items) /\ sent' \in Seq(Items) /\ Len(queue') = Len(queue) + 1
    BY <1>1, AppendProperties DEF Send, QueueOK
  <2>2. Len(queue') <= IF Capacity = 0 THEN 1 ELSE Capacity
    BY <1>1, <2>1 DEF Send, Room, QueueOK
  <2> QED
    BY <1>1, <2>1, <2>2 DEF Send, QueueOK
<1>2. CASE Receive
  <2>1. /\ cur' \in Items /\ queue' \in Seq(Items)
        /\ Len(queue') = Len(queue) - 1
    BY <1>2, HeadTailProperties DEF Receive, QueueOK
  <2> QED
    BY <1>2, <2>1 DEF Receive, QueueOK
<1>3. ASSUME NEW outcome \in Outcomes, Dispatch(outcome) PROVE QueueOK'
  <2>1. log' = log \/ log' = Append(log, cur)
    BY <1>3 DEF Dispatch
  <2>2. log \in Seq(Items) /\ cur \in Items
    BY DEF QueueOK
  <2>3. log' \in Seq(Items)
    BY <2>1, <2>2, AppendProperties
  <2> QED
    BY <1>3, <2>3 DEF Dispatch, QueueOK
<1>4. CASE Still
  BY <1>4 DEF Still, Flow, QueueOK
<1> QED
  BY StepCases, <1>1, <1>2, <1>3, <1>4 DEF SendSome, DispatchSome

(* Every step keeps the first-in-first-out relation of sent, queue, cur and *)
(* log.                                                                     *)
LEMMA FifoStep ==
  /\ FrameOK /\ PcOK /\ SyncInv /\ QueueOK /\ CountersOK /\ ControlOK /\ FifoInv
  /\ [Next]_vars
  => FifoInv'
<1> SUFFICES ASSUME FrameOK, PcOK, SyncInv, QueueOK, CountersOK, ControlOK, FifoInv,
                    [Next]_vars
             PROVE  FifoInv'
  OBVIOUS
<1> DEFINE n == Len(sent)
<1>0. /\ n \in Nat /\ Len(queue) \in Nat /\ Len(log) \in Nat /\ taken \in Nat
      /\ taken + Len(queue) = n /\ taken <= n /\ Len(log) <= taken
  BY DEF QueueOK, CountersOK, FifoInv
<1>1. ASSUME NEW item \in Items, Send(item) PROVE FifoInv'
  <2>1. /\ Len(sent') = n + 1 /\ sent'[n + 1] = item
        /\ \A i \in 1 .. n : sent'[i] = sent[i]
    BY <1>1, AppendProperties DEF Send, QueueOK
  <2>2. /\ Len(queue') = Len(queue) + 1 /\ queue'[Len(queue) + 1] = item
        /\ \A i \in 1 .. Len(queue) : queue'[i] = queue[i]
    BY <1>1, AppendProperties DEF Send, QueueOK
  <2>3. UNCHANGED <<taken, cpc, cur, log, msgReg>>
    BY <1>1 DEF Send, regVars
  <2>4. \A i \in 1 .. Len(queue') : queue'[i] = sent'[taken' + i]
    <3>1. ASSUME NEW i \in 1 .. Len(queue) PROVE queue'[i] = sent'[taken' + i]
      <4>1. taken + i \in 1 .. n
        BY <1>0 DEF FifoInv
      <4> QED
        BY <2>1, <2>2, <2>3, <4>1 DEF FifoInv
    <3>2. queue'[Len(queue) + 1] = sent'[taken' + (Len(queue) + 1)]
      <4>1. taken' + (Len(queue) + 1) = n + 1
        BY <1>0, <2>3
      <4> QED
        BY <2>1, <2>2, <4>1
    <3> QED
      BY <1>0, <2>2, <3>1, <3>2
  <2>5. \A i \in 1 .. Len(log') : log'[i] = sent'[i]
    BY <1>0, <2>1, <2>3 DEF FifoInv
  <2>6. cpc' \in {"dispatch", "frameDone"} => taken' > 0 /\ cur' = sent'[taken']
    BY <1>0, <2>1, <2>3 DEF FifoInv
  <2> QED
    BY <1>0, <2>1, <2>2, <2>3, <2>4, <2>5, <2>6 DEF FifoInv
<1>2. CASE Receive
  <2>1. /\ cur' = queue[1] /\ Len(queue') = Len(queue) - 1 /\ Len(queue) > 0
        /\ \A i \in 1 .. Len(queue') : queue'[i] = queue[i + 1]
    BY <1>2, HeadTailProperties, EmptySeq DEF Receive, QueueOK
  <2>2. UNCHANGED <<sent, log, msgReg>> /\ taken' = taken + 1 /\ cpc = "recv"
        /\ cpc' = "dispatch"
    BY <1>2 DEF Receive, regVars
  <2>3. cur' = sent'[taken']
    BY <1>0, <2>1, <2>2 DEF FifoInv
  <2>4. \A i \in 1 .. Len(queue') : queue'[i] = sent'[taken' + i]
    BY <1>0, <2>1, <2>2 DEF FifoInv
  <2>5. /\ Len(log') = Len(log) /\ (msgReg' => Len(log') = taken' - 1)
        /\ \A i \in 1 .. Len(log') : log'[i] = sent'[i]
    BY <1>0, <2>2 DEF FifoInv
  <2>6. taken' + Len(queue') = Len(sent')
    <3>1. Len(sent') = n
      BY <2>2
    <3>2. taken' = taken + 1 /\ Len(queue') = Len(queue) - 1
      BY <2>1, <2>2
    <3> QED
      BY <1>0, <3>1, <3>2
  <2>7. taken' > 0
    BY <1>0, <2>2
  <2> QED
    BY <1>0, <2>2, <2>3, <2>4, <2>5, <2>6, <2>7 DEF FifoInv
<1>3. ASSUME NEW outcome \in Outcomes, Dispatch(outcome) PROVE FifoInv'
  <2>1. /\ UNCHANGED <<sent, queue, taken, cur, msgReg>>
        /\ cpc = "dispatch" /\ cpc' \in {"recv", "frameDone"}
    BY <1>3 DEF Dispatch, regVars
  <2>2. CASE msgReg
    <3>1. /\ Len(log') = Len(log) + 1 /\ log'[Len(log) + 1] = cur
          /\ \A i \in 1 .. Len(log) : log'[i] = log[i]
      <4>1. log \in Seq(Items) /\ cur \in Items
        BY DEF QueueOK
      <4>2. log' = Append(log, cur)
        BY <1>3, <2>2 DEF Dispatch
      <4> QED
        BY <4>1, <4>2, AppendProperties
    <3>2. \A i \in 1 .. Len(log') : log'[i] = sent'[i]
      BY <1>0, <2>1, <2>2, <3>1, SMTT(30) DEF FifoInv
    <3> QED
      BY <1>0, <2>1, <2>2, <3>1, <3>2 DEF FifoInv
  <2>3. CASE ~msgReg
    <3>1. log' = log
      BY <1>3, <2>3 DEF Dispatch
    <3> QED
      BY <1>0, <2>1, <2>3, <3>1 DEF FifoInv
  <2> QED
    BY <2>2, <2>3
<1>4. CASE Still
  <2>1. UNCHANGED <<queue, cur, log, sent, taken>>
    BY <1>4 DEF Still, Flow
  <2>2. msgReg' => msgReg
    BY <1>4 DEF Still
  <2>3. cpc' = cpc \/ (cpc # "dispatch" /\ cpc' \notin {"dispatch", "frameDone"})
    BY <1>4 DEF Still
  <2> QED
    BY <2>1, <2>2, <2>3 DEF FifoInv
<1> QED
  BY StepCases, <1>1, <1>2, <1>3, <1>4 DEF SendSome, DispatchSome

-------------------------------------------------------------------------------
(* Errors and Cancel.                                                       *)

(* Every step keeps the errors of handlers, and ParseToEnd does not return  *)
(* without them.                                                            *)
LEMMA ErrStep ==
  ControlOK /\ SyncInv /\ ErrInv /\ ErrorNotLost /\ [Next]_vars => (ErrInv /\ ErrorNotLost)'
<1> SUFFICES ASSUME ControlOK /\ SyncInv /\ ErrInv /\ ErrorNotLost, [Next]_vars PROVE (ErrInv /\ ErrorNotLost)'
  OBVIOUS
<1>1. CASE UNCHANGED <<perr, failed, cancel, ret>> /\ (ppc' = "idle" => ppc = "idle")
  BY <1>1 DEF ErrInv, ErrorNotLost, CleanEnd, ReturnedFrom
<1>2. CASE Close
  BY <1>2 DEF Close, ErrInv, ErrorNotLost, CleanEnd, ReturnedFrom, SyncInv,
     Drained, Busy, Goroutines, ControlOK, fieldVars, regVars, histVars
<1>3. CASE CancelOutside
  <2>1. /\ perr' # "none"
        /\ cancel' = [cancel EXCEPT !["user"] = "events"]
        /\ UNCHANGED <<failed, ppc, ret>>
    BY <1>3, HandlerEffect DEF CancelOutside, HandlerRuns, SetError, parserVars, ControlOK
  <2> QED
    BY <2>1 DEF ErrInv, ErrorNotLost, CleanEnd, ReturnedFrom, Goroutines, ControlOK
<1>4. ASSUME NEW outcome \in Outcomes, RunWarn(outcome) PROVE (ErrInv /\ ErrorNotLost)'
  BY <1>4, HandlerEffect DEF RunWarn, AfterWarn, ErrInv, ErrorNotLost, CleanEnd,
     ReturnedFrom, SyncInv, Drained, Busy, Goroutines, ControlOK, regVars,
     Goroutines, AllOutcomes
<1>5. CASE ReturnNextFrame
  BY <1>5 DEF ReturnNextFrame, Recovered, RemoveAndClose, ErrInv, ErrorNotLost,
     CleanEnd, ReturnedFrom, SyncInv, Drained, Busy, Goroutines, ControlOK,
     regVars, histVars
<1>6. CASE ReturnToEnd
  BY <1>6 DEF ReturnToEnd, Recovered, RemoveAndClose, FinalError, PlaybackFrames,
     ErrInv, ErrorNotLost, CleanEnd, ReturnedFrom, SyncInv, Drained, Busy,
     Goroutines, ControlOK, regVars, histVars
<1>7. ASSUME NEW outcome \in Outcomes, Dispatch(outcome) PROVE (ErrInv /\ ErrorNotLost)'
  BY <1>7, HandlerEffect DEF Dispatch, ErrInv, ErrorNotLost, CleanEnd,
     ReturnedFrom, SyncInv, Drained, Busy, Goroutines, ControlOK, parserVars,
     regVars, Goroutines, AllOutcomes
<1>8. ASSUME NEW outcome \in Outcomes, FrameDone(outcome) PROVE (ErrInv /\ ErrorNotLost)'
  BY <1>8, HandlerEffect DEF FrameDone, ErrInv, ErrorNotLost, CleanEnd,
     ReturnedFrom, SyncInv, Drained, Busy, Goroutines, ControlOK, parserVars,
     regVars, Goroutines, AllOutcomes
<1>9. ASSUME NEW g \in Goroutines, CancelEvents(g) PROVE (ErrInv /\ ErrorNotLost)'
  BY <1>9 DEF CancelEvents, UnregisterEventHandlers, ErrInv, ErrorNotLost,
     CleanEnd, ReturnedFrom, SyncInv, Drained, Busy, Goroutines, ControlOK,
     parserVars, fieldVars, histVars
<1>10. ASSUME NEW g \in Goroutines, CancelMsgs(g) PROVE (ErrInv /\ ErrorNotLost)'
  BY <1>10 DEF CancelMsgs, ErrInv, ErrorNotLost, CleanEnd, ReturnedFrom, SyncInv,
     Drained, Busy, Goroutines, ControlOK, parserVars, fieldVars, histVars
<1> QED
  BY <1>1, <1>2, <1>3, <1>4, <1>5, <1>6, <1>7, <1>8, <1>9, <1>10 DEF Next,
     UserStep, ParserStep, DispatcherStep, CancelStep, vars, parserVars,
     fieldVars, regVars, histVars, Call, ParseHeader, BeginFrame, Raise, SendTick,
     Send, ReadBody, LookupWarn, AfterWarn, SkipUnknown, SendCommand, SendTables,
     DecodePacket, SendMessage, Rest, RejectMessage, EndPacket, SendParsed,
     EndFrame, GoesOn, SyncAllQueues, Synced, Waiting, Busy, Receive

(* Every step keeps the bound on frames begun after an error.               *)
LEMMA LateStep == ControlOK /\ CountersOK /\ LateInv /\ [Next]_vars => LateInv'
<1> SUFFICES ASSUME ControlOK /\ CountersOK /\ LateInv, [Next]_vars PROVE LateInv'
  OBVIOUS
<1>1. CASE /\ UNCHANGED <<late, perr>>
           /\ ppc' \in {"header", "frame"} => ppc \in {"header", "frame"}
  BY <1>1 DEF LateInv
<1>2. ASSUME NEW c \in {"next", "toEnd"}, Call(c) PROVE LateInv'
  BY <1>2 DEF Call, LateInv, CountersOK, fieldVars
<1>3. CASE CancelOutside
  BY <1>3, HandlerEffect DEF CancelOutside, LateInv, CountersOK, parserVars,
     Goroutines, AllOutcomes
<1>4. CASE BeginFrame
  BY <1>4 DEF BeginFrame, Raise, LateInv, CountersOK, fieldVars
<1>5. ASSUME NEW outcome \in Outcomes, RunWarn(outcome) PROVE LateInv'
  BY <1>5, HandlerEffect DEF RunWarn, AfterWarn, LateInv, CountersOK, Goroutines,
     AllOutcomes
<1>6. CASE EndFrame
  BY <1>6 DEF EndFrame, GoesOn, LateInv, CountersOK, fieldVars, histVars
<1>7. ASSUME NEW outcome \in Outcomes, Dispatch(outcome) PROVE LateInv'
  BY <1>7, HandlerEffect DEF Dispatch, LateInv, CountersOK, parserVars,
     Goroutines, AllOutcomes
<1>8. ASSUME NEW outcome \in Outcomes, FrameDone(outcome) PROVE LateInv'
  BY <1>8, HandlerEffect DEF FrameDone, LateInv, CountersOK, parserVars,
     Goroutines, AllOutcomes
<1> QED
  BY <1>1, <1>2, <1>3, <1>4, <1>5, <1>6, <1>7, <1>8 DEF Next, UserStep,
     ParserStep, DispatcherStep, CancelStep, vars, parserVars, fieldVars, regVars,
     histVars, Close, ParseHeader, SendTick, Send, ReadBody, Raise, LookupWarn,
     AfterWarn, SkipUnknown, SendCommand, SendTables, DecodePacket, SendMessage,
     Rest, RejectMessage, EndPacket, SendParsed, SyncAllQueues, Synced, Waiting,
     Busy, ReturnNextFrame, Recovered, RemoveAndClose, ReturnToEnd, FinalError,
     PlaybackFrames, Receive, CancelEvents, UnregisterEventHandlers, CancelMsgs

(* Every step keeps the order in which Cancel unregisters handlers.         *)
LEMMA RegStep == ControlOK /\ RegInv /\ [Next]_vars => RegInv'
<1> SUFFICES ASSUME ControlOK /\ RegInv, [Next]_vars PROVE RegInv'
  OBVIOUS
<1>1. CASE UNCHANGED <<cancel, evReg, msgReg>>
  BY <1>1 DEF RegInv
<1>2. CASE CancelOutside
  BY <1>2, HandlerEffect DEF CancelOutside, RegInv, ControlOK, parserVars,
     regVars, Goroutines, AllOutcomes
<1>3. ASSUME NEW outcome \in Outcomes, RunWarn(outcome) PROVE RegInv'
  BY <1>3, HandlerEffect DEF RunWarn, AfterWarn, RegInv, ControlOK, regVars,
     Goroutines, AllOutcomes
<1>4. ASSUME NEW outcome \in Outcomes, Dispatch(outcome) PROVE RegInv'
  BY <1>4, HandlerEffect DEF Dispatch, RegInv, ControlOK, parserVars, regVars,
     Goroutines, AllOutcomes
<1>5. ASSUME NEW outcome \in Outcomes, FrameDone(outcome) PROVE RegInv'
  BY <1>5, HandlerEffect DEF FrameDone, RegInv, ControlOK, parserVars, regVars,
     Goroutines, AllOutcomes
<1>6. ASSUME NEW g \in Goroutines, CancelEvents(g) PROVE RegInv'
  BY <1>6 DEF CancelEvents, UnregisterEventHandlers, RegInv, ControlOK,
     parserVars, fieldVars, histVars
<1>7. ASSUME NEW g \in Goroutines, CancelMsgs(g) PROVE RegInv'
  BY <1>7 DEF CancelMsgs, RegInv, ControlOK, parserVars, fieldVars, histVars
<1> QED
  BY <1>1, <1>2, <1>3, <1>4, <1>5, <1>6, <1>7 DEF Next, UserStep, ParserStep,
     DispatcherStep, CancelStep, vars, parserVars, fieldVars, regVars, histVars,
     Call, Close, ParseHeader, BeginFrame, Raise, SendTick, Send, ReadBody,
     LookupWarn, AfterWarn, SkipUnknown, SendCommand, SendTables, DecodePacket,
     SendMessage, Rest, RejectMessage, EndPacket, SendParsed, EndFrame, GoesOn,
     SyncAllQueues, Synced, Waiting, Busy, ReturnNextFrame, Recovered,
     RemoveAndClose, ReturnToEnd, FinalError, PlaybackFrames, Receive

-------------------------------------------------------------------------------
(* The order of the items.                                                  *)

(* The sorted packet agrees with the order in which items belong.           *)
LEMMA AheadIsBefore ==
  ASSUME FrameOK, frame >= 1,
         NEW j \in 1 .. Len(Fr.msgs), NEW k \in 1 .. Len(Fr.msgs), Ahead(Fr.msgs, j, k)
  PROVE  Before(MessageItem(frame, j, Fr.msgs[j]), MessageItem(frame, k, Fr.msgs[k]))
<1>1. /\ j \in Nat /\ k \in Nat
      /\ Fr.msgs[j].type \in Types /\ Fr.msgs[k].type \in Types
  BY MessageType
<1> DEFINE s == Fr.msgs[j].type
           t == Fr.msgs[k].type
<1>2. \/ Urgency(s) < Urgency(t)
      \/ Urgency(s) = Urgency(t) /\ j < k
  BY <1>1 DEF Ahead, Priority, Urgency, Types
<1> QED
  BY <1>1, <1>2 DEF Before, MessageItem

(* The items sent have the fields of items.                                 *)
LEMMA SentType ==
  ASSUME QueueOK
  PROVE  /\ Len(sent) \in Nat
         /\ \A i \in 1 .. Len(sent) : /\ sent[i] \in Items /\ sent[i].frame \in Nat
                                      /\ sent[i].kind \in Kinds /\ Stage(sent[i].kind) \in Int
<1>1. Len(sent) \in Nat /\ \A i \in 1 .. Len(sent) : sent[i] \in Items
  BY ElementOfSeq DEF QueueOK
<1>2. \A kind \in Kinds : Stage(kind) \in Int
  BY DEF Stage, Kinds
<1> QED
  BY <1>1, <1>2 DEF Items

(* A send keeps the order if the item belongs after those of its frame.     *)
LEMMA SendInOrder ==
  ASSUME QueueOK, OrderInv, frame \in Nat, NEW item \in Items, Send(item),
         item.frame = frame, Stage(item.kind) <= Level',
         \A i \in 1 .. Len(sent) :
           sent[i].frame = frame => Before(sent[i], item)
  PROVE  SentOrdered' /\ (Level <= Level' => SentSoFar')
<1> DEFINE n == Len(sent)
<1>1. n \in Nat /\ \A i \in 1 .. n : sent[i] \in Items
  BY ElementOfSeq DEF QueueOK
<1>2. /\ Len(sent') = n + 1 /\ sent'[n + 1] = item
      /\ \A i \in 1 .. n : sent'[i] = sent[i]
  BY AppendProperties DEF Send, QueueOK
<1>3. \A i \in 1 .. n : Before(sent[i], item)
  <2> SUFFICES ASSUME NEW i \in 1 .. n, sent[i].frame # frame PROVE Before(sent[i], item)
    OBVIOUS
  <2>1. sent[i].frame \in Nat /\ sent[i].frame <= frame
    BY <1>1 DEF OrderInv, SentSoFar, Items
  <2> QED
    BY <2>1 DEF Before
<1>4. SentOrdered'
  BY <1>1, <1>2, <1>3 DEF OrderInv, SentOrdered
<1>5. ASSUME Level <= Level' PROVE SentSoFar'
  <2>1. frame' = frame
    BY DEF Send
  <2>2. Level \in Int /\ Level' \in Int /\ \A kind \in Kinds : Stage(kind) \in Int
    BY DEF Level, Stage, Kinds
  <2>3. \A i \in 1 .. n : Stage(sent[i].kind) \in Int
    BY <1>1, <2>2 DEF Items
  <2>4. ASSUME NEW i \in 1 .. n
        PROVE  /\ sent'[i].frame <= frame'
               /\ sent'[i].frame = frame' => Stage(sent'[i].kind) <= Level'
    BY <1>2, <1>5, <2>1, <2>2, <2>3 DEF OrderInv, SentSoFar
  <2> QED
    BY <1>1, <1>2, <2>1, <2>4 DEF SentSoFar
<1> QED
  BY <1>4, <1>5

(* A step that sends nothing keeps the order if parseFrame only moves on.   *)
LEMMA QuietInOrder ==
  ASSUME QueueOK, OrderInv, UNCHANGED <<sent, frame>>, Level <= Level'
  PROVE  SentOrdered' /\ SentSoFar'
<1>1. Level \in Int /\ Level' \in Int
  BY DEF Level
<1> QED
  BY <1>1, SentType DEF OrderInv, SentOrdered, SentSoFar

(* Sending an item of a later stage keeps the order.                        *)
LEMMA SendLater ==
  ASSUME QueueOK, FrameOK, OrderInv, frame \in Nat, NEW item \in Items, Send(item),
         item.frame = frame, Level < Stage(item.kind), Stage(item.kind) <= Level',
         ppc' # "messages"
  PROVE  OrderInv'
<1>1. Level \in Int /\ Level' \in Int /\ \A kind \in Kinds : Stage(kind) \in Int
  BY DEF Level, Stage, Kinds
<1>2. item.kind \in Kinds /\ \A i \in 1 .. Len(sent) : sent[i] \in Items
  BY ElementOfSeq DEF QueueOK, Items
<1>3. ASSUME NEW i \in 1 .. Len(sent), sent[i].frame = frame PROVE Before(sent[i], item)
  <2>1. Stage(sent[i].kind) \in Int /\ Stage(sent[i].kind) <= Level
    BY <1>1, <1>2, <1>3 DEF OrderInv, SentSoFar, Items
  <2> QED
    BY <1>1, <1>2, <1>3, <2>1 DEF Before
<1>4. Level <= Level'
  BY <1>1, <1>2
<1> QED
  BY <1>3, <1>4, SendInOrder DEF OrderInv, PendingLater

(* Steps of the dispatcher, of Cancel and of the user do not touch the      *)
(* order.                                                                   *)
LEMMA Unmoved ==
  ASSUME OrderInv, UNCHANGED <<demo, ppc, frame, pending, sent>>
  PROVE  OrderInv'
  BY DEF OrderInv, SentOrdered, SentSoFar, PendingLater, Level, Fr

(* Every step keeps the order of the items sent.                            *)
LEMMA OrderStep == QueueOK /\ FrameOK /\ PcOK /\ OrderInv /\ [Next]_vars => OrderInv'
<1> SUFFICES ASSUME QueueOK /\ FrameOK /\ PcOK /\ OrderInv, [Next]_vars PROVE OrderInv'
  OBVIOUS
<1>1. CASE UNCHANGED <<demo, ppc, frame, pending, sent>>
  BY <1>1, Unmoved
<1>2. CASE UNCHANGED <<sent, frame>> /\ Level <= Level' /\ ppc' # "messages"
  BY <1>2, QuietInOrder DEF OrderInv, PendingLater
<1>3. CASE BeginFrame
  <2>1. UNCHANGED <<sent, pending>> /\ ppc' # "messages" /\ (frame' = frame + 1 \/ frame' = frame)
        /\ (frame' = frame => ppc' = "deferred")
    BY <1>3 DEF BeginFrame, Raise, FrameOK
  <2>2. frame \in Nat /\ \A i \in 1 .. Len(sent) : sent[i].frame \in Nat /\ sent[i].kind \in Kinds
    BY SentType DEF FrameOK
  <2>3. SentSoFar'
    <3>1. CASE frame' = frame
      <4>1. Level <= Level'
        BY <1>3, <2>1, <3>1 DEF BeginFrame, Level
      <4> QED
        BY <2>1, <3>1, <4>1, QuietInOrder
    <3>2. CASE frame' = frame + 1
      BY <2>1, <2>2, <3>2 DEF OrderInv, SentSoFar
    <3> QED
      BY <2>1, <3>1, <3>2
  <2> QED
    BY <2>1, <2>3 DEF OrderInv, SentOrdered, PendingLater
<1>4. CASE SendTick
  <2> DEFINE item == Item(frame, "tick")
  <2>1. /\ Send(item) /\ item \in Items /\ item.frame = frame /\ frame \in Nat
        /\ ppc' \in {"body", "parsed"}
    BY <1>4, ItemType, FrameType DEF SendTick, PcOK, FramePcs, Kinds, Item
  <2>2. Level < Stage(item.kind) /\ Stage(item.kind) <= Level'
    BY <1>4, <2>1 DEF SendTick, Level, Stage, Item
  <2> QED
    BY <2>1, <2>2, SendLater
<1>5. CASE SendCommand
  <2> DEFINE item == Item(frame, IF Fr.cmd = "fileInfo" THEN "fileInfo" ELSE "command")
  <2>1. /\ Send(item) /\ item \in Items /\ item.frame = frame /\ frame \in Nat
        /\ ppc' \in {"packet", "tables", "parsed"}
    BY <1>5, ItemType, FrameType DEF SendCommand, PcOK, FramePcs, Kinds, Item
  <2>2. Level < Stage(item.kind) /\ Stage(item.kind) <= Level'
    BY <1>5, <2>1 DEF SendCommand, Level, Stage, Item
  <2> QED
    BY <2>1, <2>2, SendLater
<1>6. CASE SendTables
  <2> DEFINE item == Item(frame, "stringTable")
  <2>1. /\ Send(item) /\ item \in Items /\ item.frame = frame /\ frame \in Nat
        /\ ppc' \in {"packet"}
    BY <1>6, ItemType, FrameType DEF SendTables, PcOK, FramePcs, Kinds, Item
  <2>2. Level < Stage(item.kind) /\ Stage(item.kind) <= Level'
    BY <1>6, <2>1 DEF SendTables, Level, Stage, Item
  <2> QED
    BY <2>1, <2>2, SendLater
<1>7. CASE DecodePacket
  <2>1. UNCHANGED <<sent, frame, demo>> /\ Level = 2 /\ Level' \in {3, 4}
    BY <1>7 DEF DecodePacket, Raise, Level, histVars
  <2>2. SentOrdered' /\ SentSoFar'
    BY <2>1, QuietInOrder
  <2>3. \A i \in 1 .. Len(sent) : sent[i].frame = frame => sent[i].kind # "message"
    BY <2>1 DEF OrderInv, SentSoFar, Stage
  <2> QED
    BY <2>1, <2>2, <2>3 DEF OrderInv, PendingLater
<1>8. ASSUME NEW k \in pending, SendMessage(k) PROVE OrderInv'
  <2> DEFINE item == MessageItem(frame, k, Fr.msgs[k])
  <2>1. /\ Send(item) /\ item \in Items /\ frame \in Nat /\ frame >= 1
        /\ ppc = "messages" /\ ppc' = "messages"
        /\ pending \subseteq 1 .. Len(Fr.msgs) /\ pending' = pending \ {k}
    BY <1>8, ItemType, FrameType DEF SendMessage, Rest, PcOK, FramePcs
  <2>2. item.frame = frame /\ item.kind = "message" /\ Level = 3 /\ Level' = 3
        /\ Stage(item.kind) = 3 /\ UNCHANGED <<demo, frame>>
    BY <2>1 DEF MessageItem, Level, Stage, Send
  <2>3. ASSUME NEW i \in 1 .. Len(sent), sent[i].frame = frame PROVE Before(sent[i], item)
    <3>1. sent[i].kind \in Kinds /\ Stage(sent[i].kind) <= 3
      BY <2>2, <2>3, SentType DEF OrderInv, SentSoFar
    <3>2. CASE sent[i].kind = "message"
      BY <2>1, <2>3, <3>2 DEF OrderInv, PendingLater
    <3>3. CASE sent[i].kind # "message"
      BY <2>2, <2>3, <3>1, <3>3 DEF Before, Stage, Kinds
    <3> QED
      BY <3>2, <3>3
  <2>4. SentOrdered' /\ SentSoFar'
    BY <2>1, <2>2, <2>3, SendInOrder
  <2>5. \A j \in pending' : Before(item, MessageItem(frame, j, Fr.msgs[j]))
    BY <1>8, <2>1, AheadIsBefore DEF SendMessage, IsNext
  <2>6. PendingLater'
    <3>1. /\ Len(sent') = Len(sent) + 1 /\ sent'[Len(sent) + 1] = item /\ Len(sent) \in Nat
          /\ \A i \in 1 .. Len(sent) : sent'[i] = sent[i]
      BY <2>1, AppendProperties DEF Send, QueueOK
    <3>2. \A i \in 1 .. Len(sent) : \A j \in pending' :
            sent'[i].frame = frame /\ sent'[i].kind = "message"
              => Before(sent'[i], MessageItem(frame, j, Fr.msgs[j]))
      BY <2>1, <3>1 DEF OrderInv, PendingLater
    <3> QED
      BY <2>2, <2>5, <3>1, <3>2 DEF PendingLater, Fr
  <2> QED
    BY <2>4, <2>6 DEF OrderInv
<1>9. ASSUME NEW k \in pending, RejectMessage(k) PROVE OrderInv'
  <2>1. /\ UNCHANGED <<sent, frame, demo>> /\ pending' \subseteq pending
        /\ ppc = "messages" /\ ppc' \in {"messages", "deferred"}
    BY <1>9 DEF RejectMessage, Rest, Raise, histVars
  <2>2. SentOrdered' /\ SentSoFar'
    BY <2>1, QuietInOrder DEF Level
  <2> QED
    BY <2>1, <2>2 DEF OrderInv, PendingLater, Fr
<1>10. CASE SendParsed
  <2> DEFINE item == Item(frame, "frameParsed")
  <2>1. /\ Send(item) /\ item \in Items /\ item.frame = frame /\ frame \in Nat
        /\ ppc' \in {"endFrame"}
    BY <1>10, ItemType, FrameType DEF SendParsed, PcOK, FramePcs, Kinds, Item
  <2>2. Level < Stage(item.kind) /\ Stage(item.kind) <= Level'
    BY <1>10, <2>1 DEF SendParsed, Level, Stage, Item
  <2> QED
    BY <2>1, <2>2, SendLater
<1> QED
  BY <1>1, <1>2, <1>3, <1>4, <1>5, <1>6, <1>7, <1>8, <1>9, <1>10 DEF Next,
     UserStep, ParserStep, DispatcherStep, CancelStep, vars, parserVars,
     fieldVars, regVars, histVars, Call, Close, CancelOutside, ParseHeader,
     ReadBody, Raise, LookupWarn, AfterWarn, RunWarn, SkipUnknown, EndPacket,
     EndFrame, GoesOn, SyncAllQueues, Synced, Waiting, Busy, ReturnNextFrame,
     Recovered, RemoveAndClose, ReturnToEnd, FinalError, PlaybackFrames, Receive,
     Dispatch, FrameDone, CancelEvents, UnregisterEventHandlers, CancelMsgs, Level

-------------------------------------------------------------------------------
(* The inductive invariant and the theorems.                                *)

(* The inductive invariant holds initially ...                              *)
LEMMA InitInv == Init => IndInv
<1> SUFFICES ASSUME Init PROVE IndInv
  OBVIOUS
<1>1. Item(0, "tick") \in Items
  BY DEF Item, Items, Kinds, Types
<1>2. Len(demo.frames) \in Nat
  BY DemosAssumption DEF Init
<1>3. ControlOK /\ ErrorsOK /\ CountersOK
  <2>1. ControlOK
    BY DEF Init, ControlOK
  <2>2. ErrorsOK
    BY DEF Init, ErrorsOK, Errors
  <2>3. CountersOK
    BY EmptySeq DEF Init, CountersOK
  <2> QED
    BY <2>1, <2>2, <2>3
<1>4. FrameOK /\ PcOK
  BY <1>2 DEF Init, FrameOK, PcOK, FramePcs
<1>5. QueueOK
  <2>1. Capacity \in Nat
    BY DemosAssumption DEF Init, Capacity
  <2> QED
    BY <1>1, <2>1 DEF Init, QueueOK
<1>6. SyncInv /\ ErrInv /\ ErrorNotLost /\ LateInv /\ RegInv
  BY DEF Init, SyncInv, Drained, Busy, Calling, FramePcs, ErrInv, ErrorNotLost, CleanEnd,
         ReturnedFrom, LateInv, RegInv, Goroutines
<1>7. FifoInv
  BY DEF Init, FifoInv
<1>8. OrderInv
  BY DEF Init, OrderInv, SentOrdered, SentSoFar, PendingLater
<1> QED
  BY <1>3, <1>4, <1>5, <1>6, <1>7, <1>8 DEF IndInv, TypeOK

(* ... and every step keeps it.                                             *)
LEMMA NextInv == IndInv /\ [Next]_vars => IndInv'
<1> SUFFICES ASSUME IndInv, [Next]_vars PROVE IndInv'
  OBVIOUS
<1>0. /\ ControlOK /\ ErrorsOK /\ CountersOK /\ FrameOK /\ QueueOK /\ PcOK
      /\ SyncInv /\ FifoInv /\ OrderInv /\ ErrInv /\ ErrorNotLost /\ LateInv /\ RegInv
  BY DEF IndInv, TypeOK
<1>1. ControlOK' /\ ErrorsOK' /\ CountersOK'
  BY <1>0, ControlStep, ErrorsStep, CountersStep
<1>2. FrameOK' /\ PcOK' /\ QueueOK'
  BY <1>0, FrameStep, QueueStep
<1>3. SyncInv' /\ FifoInv' /\ OrderInv'
  BY <1>0, SyncStep, FifoStep, OrderStep
<1>4. ErrInv' /\ ErrorNotLost' /\ LateInv' /\ RegInv'
  BY <1>0, ErrStep, LateStep, RegStep
<1> QED
  BY <1>1, <1>2, <1>3, <1>4 DEF IndInv, TypeOK

(* The inductive invariant holds in every reachable state, whatever the     *)
(* demo, the capacity of msgQueue and the outcomes of the handlers.         *)
THEOREM InductiveInvariant == Spec => []IndInv
  BY InitInv, NextInv, PTL DEF Spec

(* The variables of the two goroutines keep their types and msgQueue never  *)
(* holds more than its capacity.                                            *)
THEOREM TypeCorrect == Spec => []TypeOK
<1>1. IndInv => TypeOK
  BY DEF IndInv
<1> QED
  BY <1>1, InductiveInvariant, PTL

(* The items given to handlers are the first of those sent.                 *)
LEMMA HandledIsPrefix ==
  ASSUME IndInv
  PROVE  /\ log \in Seq(Items) /\ sent \in Seq(Items) /\ Len(log) <= Len(sent)
         /\ \A i \in 1 .. Len(log) : log[i] = sent[i]
<1>1. /\ log \in Seq(Items) /\ sent \in Seq(Items) /\ queue \in Seq(Items) /\ taken \in Nat
      /\ taken + Len(queue) = Len(sent) /\ Len(log) <= taken
  BY DEF IndInv, TypeOK, QueueOK, CountersOK, FifoInv
<1> QED
  BY <1>1 DEF IndInv, FifoInv

(* Handlers get the items of any demo in the order of its frames and of the *)
(* messages' priorities, none twice, though they run on another goroutine   *)
(* than parseFrame.                                                         *)
THEOREM InDemoOrder == Spec => []HandledInDemoOrder
<1>1. IndInv => HandledInDemoOrder
  <2> SUFFICES ASSUME IndInv, NEW i \in 1 .. Len(log), NEW j \in 1 .. Len(log), i < j
               PROVE  Before(log[i], log[j])
    BY DEF HandledInDemoOrder
  <2>1. i \in 1 .. Len(sent) /\ j \in 1 .. Len(sent) /\ log[i] = sent[i] /\ log[j] = sent[j]
    BY HandledIsPrefix
  <2> QED
    BY <2>1 DEF IndInv, OrderInv, SentOrdered
<1> QED
  BY <1>1, InductiveInvariant, PTL

(* A drained queue means that registered handlers have had everything.      *)
LEMMA DrainedIsHandled ==
  ASSUME IndInv, Drained, msgReg
  PROVE  log = sent
<1>1. Len(log) = Len(sent)
  BY DEF IndInv, TypeOK, QueueOK, CountersOK, FifoInv, Drained
<1> QED
  BY <1>1, HandledIsPrefix, SeqEqual

(* When ParseNextFrame or ParseToEnd has returned, no handler is running and*)
(* none will run for what the call read.                                    *)
THEOREM NothingPendingAtReturn == Spec => []HandledAtReturn
<1>1. IndInv => HandledAtReturn
  <2> SUFFICES ASSUME IndInv, ppc \in {"idle", "panicked"}
               PROVE  Drained /\ (msgReg => log = sent)
    BY DEF HandledAtReturn, Drained
  <2>1. Drained
    BY DEF IndInv, SyncInv
  <2> QED
    BY <2>1, DrainedIsHandled
<1> QED
  BY <1>1, InductiveInvariant, PTL

(* ParseToEnd does not return nil after a handler panicked or called Cancel.*)
THEOREM ErrorsAreReturned == Spec => []ErrorNotLost
<1>1. IndInv => ErrorNotLost
  BY DEF IndInv
<1> QED
  BY <1>1, InductiveInvariant, PTL

(* At most one frame is begun after an error or a Cancel.                   *)
THEOREM PromptAbort == Spec => []AbortsPromptly
<1>1. IndInv => AbortsPromptly
  BY DEF IndInv, LateInv, AbortsPromptly
<1> QED
  BY <1>1, InductiveInvariant, PTL

(* After a handler's Cancel has returned, no handler runs on the            *)
(* dispatcher's goroutine.                                                  *)
THEOREM Silence == Spec => SilentAfterCancel
<1> DEFINE Quiet == cancel["dispatcher"] = "returned" => UNCHANGED <<log, frameDones>>
<1>1. IndInv /\ [Next]_vars => Quiet
  <2> SUFFICES ASSUME IndInv, [Next]_vars, cancel["dispatcher"] = "returned"
               PROVE  UNCHANGED <<log, frameDones>>
    OBVIOUS
  <2>1. ~evReg /\ ~msgReg
    BY DEF IndInv, RegInv, Goroutines
  <2> QED
    BY <2>1
       DEF Next, vars, histVars, UserStep, Call, Close, CancelOutside, ParserStep,
           ParseHeader, BeginFrame, SendTick, Send, ReadBody, LookupWarn, RunWarn,
           SkipUnknown, SendCommand, SendTables, DecodePacket, SendMessage, RejectMessage,
           EndPacket, SendParsed, EndFrame, SyncAllQueues, ReturnNextFrame, ReturnToEnd,
           DispatcherStep, Receive, Dispatch, FrameDone, CancelStep, CancelEvents,
           CancelMsgs
<1>2. IndInv /\ [Next]_vars => [Quiet]_vars
  BY <1>1
<1> QED
  BY <1>2, InductiveInvariant, PTL DEF Spec, SilentAfterCancel

-------------------------------------------------------------------------------
(* The refinement of SequentialParsing.                                     *)

(* The initial states are initial states of the sequential reader.          *)
LEMMA SequentialInit == Init => Sequential!Init
  BY DEF Init, Sequential!Init, Calling

(* Sending an item is reading it.                                           *)
LEMMA SendIsRead ==
  ASSUME QueueOK, NEW item \in Items, Send(item), Calling, Calling', UNCHANGED ret
  PROVE  Sequential!Next
<1>1. /\ Len(sent') = Len(sent) + 1 /\ sent'[Len(sent')] = item
      /\ sent' = Append(sent, item) /\ UNCHANGED <<log, msgReg>>
  BY AppendProperties DEF Send, QueueOK, regVars
<1> QED
  BY <1>1 DEF Sequential!Next, Sequential!Read

(* Dispatching an item is handling the next one, or nothing once the        *)
(* handlers are gone.                                                       *)
LEMMA DispatchIsHandle ==
  ASSUME QueueOK, SyncInv, FifoInv, CountersOK, NEW outcome \in Outcomes, Dispatch(outcome)
  PROVE  Sequential!Next \/ UNCHANGED Sequential!vars
<1>1. UNCHANGED <<sent, msgReg, ppc, ret>> /\ cpc = "dispatch"
  BY DEF Dispatch, parserVars, regVars
<1>2. CASE msgReg
  <2>1. log' = Append(log, cur)
    BY <1>2 DEF Dispatch
  <2>2. Len(log) = taken - 1 /\ taken > 0 /\ taken <= Len(sent) /\ cur = sent[taken]
        /\ taken \in Nat
    BY <1>1, <1>2 DEF FifoInv, QueueOK, CountersOK
  <2>3. Calling
    BY <1>1 DEF SyncInv, Drained, Calling
  <2>4. cur = sent[Len(log) + 1] /\ Len(log) < Len(sent)
    BY <2>2 DEF QueueOK
  <2> QED
    BY <1>1, <1>2, <2>1, <2>3, <2>4 DEF Sequential!Next, Sequential!Handle, Calling
<1>3. CASE ~msgReg
  BY <1>1, <1>3 DEF Dispatch, Sequential!vars, Calling
<1> QED
  BY <1>2, <1>3

(* A call returns only when everything read has been handled.               *)
LEMMA ReturnIsReturn ==
  ASSUME IndInv, ReturnNextFrame \/ ReturnToEnd
  PROVE  Sequential!Next
<1>1. /\ UNCHANGED <<sent, log, msgReg>> /\ ppc = "finish" /\ ppc' \in {"idle", "panicked"}
      /\ ret'.more \in BOOLEAN
  <2>1. more \in BOOLEAN
    BY DEF ControlOK, IndInv, TypeOK
  <2>2. ret'.more = more \/ ret'.more = FALSE
    BY DEF ReturnNextFrame, ReturnToEnd
  <2> QED
    BY <2>1, <2>2 DEF ReturnNextFrame, ReturnToEnd, regVars, histVars
<1>2. ~msgReg \/ log = sent
  BY <1>1, DrainedIsHandled DEF IndInv, SyncInv
<1> QED
  BY <1>1, <1>2 DEF Sequential!Next, Sequential!Return, Calling

(* Every step is a step of the sequential reader or changes nothing it can  *)
(* see.                                                                     *)
LEMMA SequentialStep == IndInv /\ [Next]_vars => [Sequential!Next]_(Sequential!vars)
<1> SUFFICES ASSUME IndInv, [Next]_vars PROVE Sequential!Next \/ UNCHANGED Sequential!vars
  OBVIOUS
<1>0. FrameOK /\ PcOK /\ SyncInv /\ FifoInv /\ QueueOK /\ CountersOK /\ ErrorsOK
  BY DEF IndInv, TypeOK
<1>1. CASE UNCHANGED <<sent, log, msgReg, ret>> /\ (Calling' <=> Calling)
  BY <1>1 DEF Sequential!vars
<1>2. ASSUME NEW c \in {"next", "toEnd"}, Call(c) PROVE Sequential!Next \/ UNCHANGED Sequential!vars
  BY <1>2 DEF Call, Sequential!Next, Sequential!Call, Calling, regVars
<1>3. CASE Close
  <2>1. UNCHANGED <<sent, log, ppc, msgReg>> /\ ~Calling /\ ret'.more = FALSE
    BY <1>3, <1>0 DEF Close, regVars, histVars, Calling, ErrorsOK
  <2> QED
    BY <2>1 DEF Sequential!Next, Sequential!Close, Calling
<1>4. CASE SendTick
  <2>1. Item(frame, "tick") \in Items
    BY <1>4, <1>0, ItemType DEF SendTick, PcOK, FramePcs, Kinds
  <2>2. Calling /\ Calling'
    BY <1>4 DEF SendTick, Calling
  <2> QED
    BY <1>4, <1>0, <2>1, <2>2, SendIsRead DEF SendTick, Send
<1>5. CASE SendCommand
  <2>1. Item(frame, IF Fr.cmd = "fileInfo" THEN "fileInfo" ELSE "command") \in Items
    BY <1>5, <1>0, ItemType DEF SendCommand, PcOK, FramePcs, Kinds
  <2>2. Calling /\ Calling'
    BY <1>5 DEF SendCommand, Calling
  <2> QED
    BY <1>5, <1>0, <2>1, <2>2, SendIsRead DEF SendCommand, Send
<1>6. CASE SendTables
  <2>1. Item(frame, "stringTable") \in Items
    BY <1>6, <1>0, ItemType DEF SendTables, PcOK, FramePcs, Kinds
  <2>2. Calling /\ Calling'
    BY <1>6 DEF SendTables, Calling
  <2> QED
    BY <1>6, <1>0, <2>1, <2>2, SendIsRead DEF SendTables, Send
<1>7. ASSUME NEW k \in pending, SendMessage(k) PROVE Sequential!Next \/ UNCHANGED Sequential!vars
  <2>1. MessageItem(frame, k, Fr.msgs[k]) \in Items
    BY <1>7, <1>0, ItemType DEF SendMessage, PcOK, FramePcs
  <2> QED
    BY <1>7, <1>0, <2>1, SendIsRead DEF SendMessage, Send, Calling
<1>8. CASE SendParsed
  <2>1. Item(frame, "frameParsed") \in Items
    BY <1>8, <1>0, ItemType DEF SendParsed, PcOK, FramePcs, Kinds
  <2>2. Calling /\ Calling'
    BY <1>8 DEF SendParsed, Calling
  <2> QED
    BY <1>8, <1>0, <2>1, <2>2, SendIsRead DEF SendParsed, Send
<1>9. CASE ReturnNextFrame
  BY <1>9, ReturnIsReturn
<1>10. CASE ReturnToEnd
  BY <1>10, ReturnIsReturn
<1>11. ASSUME NEW outcome \in Outcomes, Dispatch(outcome) PROVE Sequential!Next \/ UNCHANGED Sequential!vars
  BY <1>11, <1>0, DispatchIsHandle
<1>12. ASSUME NEW g \in Goroutines, CancelMsgs(g) PROVE Sequential!Next \/ UNCHANGED Sequential!vars
  BY <1>12 DEF CancelMsgs, Sequential!Next, Sequential!Mute, Calling, parserVars, histVars
<1> QED
  BY <1>1, <1>2, <1>3, <1>4, <1>5, <1>6, <1>7, <1>8, <1>9, <1>10, <1>11, <1>12 DEF
     Next, UserStep, ParserStep, DispatcherStep, CancelStep, vars, parserVars,
     fieldVars, regVars, histVars, CancelOutside, ParseHeader, BeginFrame, Raise,
     ReadBody, LookupWarn, AfterWarn, RunWarn, SkipUnknown, DecodePacket,
     RejectMessage, Rest, EndPacket, EndFrame, GoesOn, SyncAllQueues, Synced,
     Waiting, Busy, Receive, FrameDone, CancelEvents, UnregisterEventHandlers,
     Calling

(* The two goroutines and the bounded queue between them implement a reader *)
(* that handles the items one at a time, in the order it reads them, inside *)
(* the call.                                                                *)
THEOREM RefinesSequentialReader == Spec => RefinesSequential
  BY SequentialInit, SequentialStep, InductiveInvariant, PTL
     DEF Spec, RefinesSequential, Sequential!Spec

-------------------------------------------------------------------------------
(* What is read reaches the handlers.                                       *)

(* The items that have been sent into msgQueue.                             *)
SentSet == {sent[i] : i \in 1 .. Len(sent)}

(* The frames of which everything they must bring has been sent.            *)
Through == {f \in 1 .. Len(demo.frames) : Required(f) \subseteq SentSet}

CommandItem == Item(frame, IF Fr.cmd = "fileInfo" THEN "fileInfo" ELSE "command")

(* The branch of parseFrame is that of the frame's command.                 *)
BranchInv ==
  /\ ppc = "tables" => Fr.cmd = "full"
  /\ ppc \in {"packet", "messages"} => Fr.cmd \in {"packet", "full"}
  /\ ppc = "skip" => Fr.cmd = "unknown"
  /\ ppc \in {"body", "lookup", "warn", "skip", "command"} => Fr.cmd # "stop"
  /\ ppc \in {"command", "parsed"} => Fr.cmd # "unknown"

(* What parseFrame has passed of the current frame has been sent.           *)
CurrentInv ==
  /\ ppc \in FramePcs \ {"tick"} => Item(frame, "tick") \in SentSet
  /\ ppc \in {"tables", "packet", "messages", "parsed", "endFrame"}
       /\ Fr.cmd \notin {"stop", "unknown"} => CommandItem \in SentSet
  /\ ppc \in {"packet", "messages", "parsed", "endFrame"} /\ Fr.cmd = "full"
       => Item(frame, "stringTable") \in SentSet
  /\ ppc \in {"messages", "parsed", "endFrame"} /\ Fr.cmd \in {"packet", "full"}
       /\ Fr.body = "ok"
       => \A k \in 1 .. Len(Fr.msgs) :
            Fr.msgs[k].type # "unknown" /\ ~(ppc = "messages" /\ k \in pending)
              => MessageItem(frame, k, Fr.msgs[k]) \in SentSet
  /\ ppc = "endFrame" /\ Fr.cmd # "unknown" => Item(frame, "frameParsed") \in SentSet

(* All frames before the current one are through and none of them was the   *)
(* last, and so is the current one when the next is about to be read.       *)
BehindInv ==
  /\ \A f \in 1 .. frame - 1 : f \in Through /\ demo.frames[f].cmd # "stop"
  /\ ppc \in {"header", "frame"} \/ (ppc = "idle" /\ ret.more)
       => frame = 0 \/ (frame \in Through /\ Fr.cmd # "stop")

(* A call that ends without an error or announces more frames has seen its  *)
(* last frame through.                                                      *)
ReturnInv ==
  /\ ppc \in FramePcs \cup {"header", "frame"} => raised = "none" /\ (call = "next" => ~more)
  /\ ppc \in {"deferred", "finish"} =>
       /\ (more /\ call = "next") \/ (err = "none" /\ raised = "none")
            => frame \in Through /\ (more <=> Fr.cmd # "stop")
       /\ call = "toEnd" /\ more => err # "none" \/ raised # "none"

(* After a clean end everything up to the stop command has been handled.    *)
EndInv ==
  /\ ReturnedFrom("toEnd") => ~ret.more
  /\ CleanEnd => frame \in Through /\ Fr.cmd = "stop" /\ log = sent

(* Only a Cancel takes handlers away, and it leaves an error.               *)
MutedInv == ~msgReg => perr # "none"

(* The inductive invariant of NothingLost.                                  *)
LostInv ==
  /\ IndInv
  /\ BranchInv /\ CurrentInv /\ BehindInv /\ ReturnInv /\ EndInv /\ MutedInv

(* A step sends an item or none, never takes one back, and leaves the demo.  *)
LEMMA SentGrows ==
  ASSUME FrameOK, PcOK, SyncInv, QueueOK, [Next]_vars
  PROVE  demo' = demo /\ SentSet \subseteq SentSet' /\ Through \subseteq Through'
<1>1. demo' = demo
  BY ZenonT(40) DEF Next, UserStep, ParserStep, DispatcherStep, CancelStep, vars, Send,
     Call, Close, CancelOutside, ParseHeader, BeginFrame, SendTick, ReadBody, LookupWarn,
     RunWarn, SkipUnknown, SendCommand, SendTables, DecodePacket, SendMessage,
     RejectMessage, EndPacket, SendParsed, EndFrame, SyncAllQueues, ReturnNextFrame,
     ReturnToEnd, Receive, Dispatch, FrameDone, CancelEvents, CancelMsgs
<1>2. sent' = sent \/ \E item \in Items : sent' = Append(sent, item)
  BY StepCases DEF SendSome, DispatchSome, Still, Flow, Send, Receive, Dispatch
<1>3. SentSet \subseteq SentSet'
  <2>1. CASE sent' = sent
    BY <2>1 DEF SentSet
  <2>2. ASSUME NEW item \in Items, sent' = Append(sent, item) PROVE SentSet \subseteq SentSet'
    <3>1. /\ Len(sent) \in Nat /\ Len(sent') = Len(sent) + 1
          /\ \A i \in 1 .. Len(sent) : sent'[i] = sent[i]
      BY <2>2, AppendProperties DEF QueueOK
    <3>2. \A i \in 1 .. Len(sent) : i \in 1 .. Len(sent')
      BY <3>1
    <3> QED
      BY <3>1, <3>2 DEF SentSet
  <2> QED
    BY <1>2, <2>1, <2>2
<1>4. \A f \in 1 .. Len(demo.frames) : Required(f)' = Required(f)
  BY <1>1 DEF Required
<1> QED
  BY <1>1, <1>3, <1>4 DEF Through

(* What a step sends has been sent.                                         *)
LEMMA SendIsSent ==
  ASSUME QueueOK, NEW item \in Items, Send(item)
  PROVE  item \in SentSet'
<1>1. Len(sent) \in Nat /\ Len(sent') = Len(sent) + 1 /\ sent'[Len(sent) + 1] = item
  BY AppendProperties DEF Send, QueueOK
<1>2. Len(sent) + 1 \in 1 .. Len(sent')
  BY <1>1
<1> QED
  BY <1>1, <1>2 DEF SentSet

(* At its end parseFrame has sent everything the frame must bring.          *)
LEMMA FrameIsThrough ==
  ASSUME FrameOK, PcOK, CurrentInv, ppc = "endFrame"
  PROVE  frame \in Through
<1>1. frame \in 1 .. Len(demo.frames) /\ Fr \in Frames
  BY FrameType DEF PcOK, FramePcs
<1>2. Item(frame, "tick") \in SentSet
  BY DEF CurrentInv, FramePcs
<1>3. Fr.cmd \notin {"stop", "unknown"} => CommandItem \in SentSet
  BY DEF CurrentInv
<1>4. Fr.cmd = "full" => Item(frame, "stringTable") \in SentSet
  BY DEF CurrentInv
<1>5. Fr.cmd \in {"packet", "full"} /\ Fr.body = "ok"
      => \A k \in 1 .. Len(Fr.msgs) :
           Fr.msgs[k].type # "unknown" => MessageItem(frame, k, Fr.msgs[k]) \in SentSet
  BY DEF CurrentInv
<1>6. Fr.cmd # "unknown" => Item(frame, "frameParsed") \in SentSet
  BY DEF CurrentInv
<1>7. ASSUME NEW item \in Required(frame) PROVE item \in SentSet
  <2> DEFINE fr == demo.frames[frame]
             Once == IF fr.cmd = "stop" THEN {"tick", "frameParsed"}
                     ELSE IF fr.cmd = "unknown" THEN {"tick"}
                     ELSE {"tick", "frameParsed",
                           IF fr.cmd = "fileInfo" THEN "fileInfo" ELSE "command"}
                          \cup (IF fr.cmd = "full" THEN {"stringTable"} ELSE {})
             Messages == IF fr.cmd \in {"packet", "full"} /\ fr.body = "ok"
                         THEN {k \in 1 .. Len(fr.msgs) : fr.msgs[k].type # "unknown"} ELSE {}
  <2>1. \/ \E kind \in Once : item = Item(frame, kind)
        \/ \E k \in Messages : item = MessageItem(frame, k, fr.msgs[k])
    BY DEF Required
  <2>2. ASSUME NEW kind \in Once, item = Item(frame, kind) PROVE item \in SentSet
    BY <1>2, <1>3, <1>4, <1>6, <2>2 DEF CommandItem, Fr
  <2>3. ASSUME NEW k \in Messages, item = MessageItem(frame, k, fr.msgs[k]) PROVE item \in SentSet
    BY <1>5, <2>3 DEF Fr
  <2> QED
    BY <2>1, <2>2, <2>3
<1> QED
  BY <1>1, <1>7 DEF Through

(* Every step keeps the branch of parseFrame.                               *)
LEMMA BranchStep == FrameOK /\ PcOK /\ BranchInv /\ [Next]_vars => BranchInv'
<1> SUFFICES ASSUME FrameOK /\ PcOK /\ BranchInv, [Next]_vars PROVE BranchInv'
  OBVIOUS
<1>1. CASE UNCHANGED <<demo, frame, ppc>>
  BY <1>1 DEF BranchInv, Fr
<1>2. CASE ppc' \notin {"tables", "packet", "messages", "skip", "body", "lookup", "warn",
                        "command", "parsed"}
  BY <1>2 DEF BranchInv
<1>3. CASE SendTick
  BY <1>3 DEF SendTick, Send, BranchInv, Fr
<1>4. CASE ReadBody
  BY <1>4 DEF ReadBody, Raise, BranchInv, Fr
<1>5. CASE LookupWarn
  BY <1>5 DEF LookupWarn, AfterWarn, BranchInv, Fr
<1>6. ASSUME NEW outcome \in Outcomes, RunWarn(outcome) PROVE BranchInv'
  BY <1>6 DEF RunWarn, AfterWarn, BranchInv, Fr
<1>7. CASE SendCommand
  BY <1>7 DEF SendCommand, Send, BranchInv, Fr
<1>8. CASE SendTables
  BY <1>8 DEF SendTables, Send, BranchInv, Fr
<1>9. CASE DecodePacket
  BY <1>9 DEF DecodePacket, Raise, BranchInv, Fr
<1>10. CASE EndPacket
  BY <1>10 DEF EndPacket, BranchInv, Fr
<1>11. ASSUME NEW k \in pending, RejectMessage(k) PROVE BranchInv'
  BY <1>11 DEF RejectMessage, Raise, BranchInv, Fr
<1> QED
  BY <1>1, <1>2, <1>3, <1>4, <1>5, <1>6, <1>7, <1>8, <1>9, <1>10, <1>11
     DEF Next, UserStep, ParserStep, DispatcherStep, CancelStep, vars, parserVars,
     fieldVars, regVars, histVars, Call, Close, CancelOutside, ParseHeader, BeginFrame,
     Raise, SkipUnknown, SendMessage, Send, SendParsed, EndFrame, SyncAllQueues,
     ReturnNextFrame, ReturnToEnd, Receive, Dispatch, FrameDone, CancelEvents, CancelMsgs

(* Every step keeps that the passed items of the current frame are sent.    *)
LEMMA CurrentStep ==
  /\ FrameOK /\ PcOK /\ SyncInv /\ QueueOK /\ BranchInv /\ CurrentInv /\ [Next]_vars
  => CurrentInv'
<1> SUFFICES ASSUME FrameOK, PcOK, SyncInv, QueueOK, BranchInv, CurrentInv, [Next]_vars
             PROVE  CurrentInv'
  OBVIOUS
<1>0. demo' = demo /\ SentSet \subseteq SentSet'
  BY SentGrows
<1>1. CASE UNCHANGED <<frame, ppc, pending>>
  BY <1>0, <1>1 DEF CurrentInv, CommandItem, Item, MessageItem, Fr
<1>2. CASE ppc' \notin FramePcs \/ ppc' = "tick"
  BY <1>2 DEF CurrentInv, FramePcs
<1>3. CASE SendTick
  <2>1. Item(frame, "tick") \in SentSet'
    BY <1>3, ItemType, SendIsSent DEF SendTick, PcOK, FramePcs, Kinds
  <2>2. frame' = frame /\ ppc' = IF Fr.cmd = "stop" THEN "parsed" ELSE "body"
    BY <1>3 DEF SendTick, Send
  <2> QED
    BY <1>0, <2>1, <2>2 DEF CurrentInv, CommandItem, Item, FramePcs, Fr
<1>4. CASE ReadBody
  BY <1>0, <1>4 DEF ReadBody, Raise, CurrentInv, CommandItem, Item, FramePcs, Fr
<1>5. CASE LookupWarn
  BY <1>0, <1>5 DEF LookupWarn, AfterWarn, CurrentInv, CommandItem, Item, FramePcs, Fr
<1>6. ASSUME NEW outcome \in Outcomes, RunWarn(outcome) PROVE CurrentInv'
  BY <1>0, <1>6 DEF RunWarn, AfterWarn, CurrentInv, CommandItem, Item, FramePcs, Fr
<1>7. CASE SkipUnknown
  BY <1>0, <1>7 DEF SkipUnknown, Raise, BranchInv, CurrentInv, CommandItem, Item, FramePcs, Fr
<1>8. CASE SendCommand
  <2>1. CommandItem \in Items
    BY <1>8, ItemType DEF SendCommand, CommandItem, PcOK, FramePcs, Kinds
  <2>2. CommandItem \in SentSet'
    BY <1>8, <2>1, SendIsSent DEF SendCommand, CommandItem
  <2>3. frame' = frame /\ CommandItem' = CommandItem /\ Fr' = Fr /\ ppc = "command"
    BY <1>0, <1>8 DEF SendCommand, Send, CommandItem, Item, Fr
  <2>4. \/ ppc' = "packet" /\ Fr.cmd = "packet"
        \/ ppc' = "tables" /\ Fr.cmd = "full"
        \/ ppc' = "parsed" /\ Fr.cmd \notin {"packet", "full"}
    BY <1>8 DEF SendCommand
  <2>5. Item(frame', "tick") \in SentSet'
    BY <1>0, <2>3 DEF CurrentInv, FramePcs
  <2> QED
    BY <2>2, <2>3, <2>4, <2>5 DEF CurrentInv, FramePcs, Item
<1>9. CASE SendTables
  <2>1. Item(frame, "stringTable") \in SentSet'
    BY <1>9, ItemType, SendIsSent DEF SendTables, PcOK, FramePcs, Kinds
  <2>2. frame' = frame /\ CommandItem' = CommandItem /\ Fr' = Fr /\ ppc = "tables" /\ ppc' = "packet"
    BY <1>0, <1>9 DEF SendTables, Send, CommandItem, Item, Fr
  <2>3. Item(frame', "tick") \in SentSet'
        /\ (Fr.cmd \notin {"stop", "unknown"} => CommandItem \in SentSet')
    BY <1>0, <2>2 DEF CurrentInv, FramePcs
  <2> QED
    BY <2>1, <2>2, <2>3 DEF CurrentInv, FramePcs, Item
<1>10. CASE DecodePacket
  <2>1. frame' = frame /\ CommandItem' = CommandItem /\ Fr' = Fr /\ ppc = "packet"
    BY <1>0, <1>10 DEF DecodePacket, CommandItem, Item, Fr
  <2>2. \/ ppc' = "deferred"
        \/ ppc' = "messages" /\ (Fr.body = "ok" => pending' = 1 .. Len(Fr.msgs))
    BY <1>10 DEF DecodePacket, Raise
  <2>3. /\ Item(frame, "tick") \in SentSet'
        /\ Fr.cmd \notin {"stop", "unknown"} => CommandItem \in SentSet'
        /\ Fr.cmd = "full" => Item(frame, "stringTable") \in SentSet'
    BY <1>0, <2>1 DEF CurrentInv, FramePcs
  <2> QED
    BY <2>1, <2>2, <2>3 DEF CurrentInv, FramePcs, Item
<1>11. ASSUME NEW k \in pending, SendMessage(k) \/ RejectMessage(k) PROVE CurrentInv'
  <2>1. frame' = frame /\ CommandItem' = CommandItem /\ Fr' = Fr /\ ppc = "messages"
    BY <1>0, <1>11 DEF SendMessage, RejectMessage, Send, CommandItem, Item, Fr
  <2>2. /\ Item(frame, "tick") \in SentSet'
        /\ Fr.cmd \notin {"stop", "unknown"} => CommandItem \in SentSet'
        /\ Fr.cmd = "full" => Item(frame, "stringTable") \in SentSet'
    BY <1>0, <2>1 DEF CurrentInv, FramePcs
  <2>3. \/ ppc' = "deferred"
        \/ /\ ppc' = "messages" /\ pending' = pending \ {k}
           /\ Fr.msgs[k].type = "unknown" \/ MessageItem(frame, k, Fr.msgs[k]) \in SentSet'
    <3>1. CASE SendMessage(k)
      <4>1. MessageItem(frame, k, Fr.msgs[k]) \in Items
        BY <3>1, ItemType DEF SendMessage, PcOK, FramePcs
      <4>2. MessageItem(frame, k, Fr.msgs[k]) \in SentSet'
        BY <3>1, <4>1, SendIsSent DEF SendMessage
      <4> QED
        BY <3>1, <4>2 DEF SendMessage, Rest
    <3>2. CASE RejectMessage(k)
      BY <3>2 DEF RejectMessage, Raise, Rest
    <3> QED
      BY <1>11, <3>1, <3>2
  <2>4. Fr.cmd \in {"packet", "full"} /\ Fr.body = "ok"
        => \A j \in 1 .. Len(Fr.msgs) :
             Fr.msgs[j].type # "unknown" /\ j \notin pending
               => MessageItem(frame, j, Fr.msgs[j]) \in SentSet'
    BY <1>0, <2>1 DEF CurrentInv
  <2> QED
    BY <2>1, <2>2, <2>3, <2>4 DEF CurrentInv, FramePcs, Item, MessageItem
<1>12. CASE EndPacket
  <2>1. frame' = frame /\ CommandItem' = CommandItem /\ Fr' = Fr /\ ppc = "messages"
        /\ pending = {} /\ ppc' = "parsed"
    BY <1>0, <1>12 DEF EndPacket, CommandItem, Item, Fr
  <2> QED
    BY <1>0, <2>1 DEF CurrentInv, FramePcs, Item, MessageItem
<1>13. CASE SendParsed
  <2>1. Item(frame, "frameParsed") \in SentSet'
    BY <1>13, ItemType, SendIsSent DEF SendParsed, PcOK, FramePcs, Kinds
  <2>2. frame' = frame /\ CommandItem' = CommandItem /\ Fr' = Fr /\ ppc = "parsed" /\ ppc' = "endFrame"
    BY <1>0, <1>13 DEF SendParsed, Send, CommandItem, Item, Fr
  <2> QED
    BY <1>0, <2>1, <2>2 DEF CurrentInv, FramePcs, Item, MessageItem
<1> QED
  BY <1>1, <1>2, <1>3, <1>4, <1>5, <1>6, <1>7, <1>8, <1>9, <1>10, <1>11, <1>12, <1>13
     DEF Next, UserStep, ParserStep, DispatcherStep, CancelStep, vars, parserVars,
     fieldVars, regVars, histVars, Call, Close, CancelOutside, ParseHeader, BeginFrame,
     Raise, EndFrame, SyncAllQueues, ReturnNextFrame, ReturnToEnd, Receive, Dispatch,
     FrameDone, CancelEvents, CancelMsgs, FramePcs

(* Every step keeps that the frames before the current one are through.     *)
LEMMA BehindStep ==
  /\ FrameOK /\ ControlOK /\ PcOK /\ SyncInv /\ QueueOK
  /\ CurrentInv /\ BehindInv /\ ReturnInv /\ EndInv /\ [Next]_vars
  => BehindInv'
<1> SUFFICES ASSUME FrameOK, ControlOK, PcOK, SyncInv, QueueOK,
                    CurrentInv, BehindInv, ReturnInv, EndInv, [Next]_vars
             PROVE  BehindInv'
  OBVIOUS
<1>0. demo' = demo /\ Through \subseteq Through' /\ frame \in Nat
  <2>1. Len(demo.frames) \in Nat
    BY DemosAssumption DEF FrameOK
  <2> QED
    BY <2>1, SentGrows DEF FrameOK
<1>1. CASE UNCHANGED <<frame, ppc, ret>>
  BY <1>0, <1>1 DEF BehindInv, Fr
<1>2. CASE frame' = frame /\ ppc' \notin {"header", "frame", "idle"}
  BY <1>0, <1>2 DEF BehindInv
<1>3. ASSUME NEW c \in {"next", "toEnd"}, Call(c) PROVE BehindInv'
  BY <1>0, <1>3 DEF Call, BehindInv, Fr
<1>4. CASE ParseHeader
  BY <1>0, <1>4 DEF ParseHeader, BehindInv, Fr
<1>5. CASE BeginFrame
  <2>1. CASE frame' = frame /\ ppc' = "deferred"
    BY <1>0, <2>1 DEF BehindInv
  <2>2. CASE frame' = frame + 1 /\ ppc' = "tick"
    <3>1. frame = 0 \/ (frame \in Through /\ Fr.cmd # "stop")
      BY <1>5 DEF BeginFrame, BehindInv
    <3>2. \A f \in 1 .. frame : f \in Through' /\ demo'.frames[f].cmd # "stop"
      BY <1>0, <3>1 DEF BehindInv, Fr
    <3> QED
      BY <1>0, <2>2, <3>2 DEF BehindInv
  <2> QED
    BY <1>5, <2>1, <2>2 DEF BeginFrame, Raise
<1>6. CASE EndFrame
  <2>1. frame \in Through
    BY <1>6, FrameIsThrough DEF EndFrame
  <2>2. frame' = frame /\ (ppc' = "frame" => Fr.cmd # "stop") /\ ppc' \in {"frame", "deferred"}
    BY <1>6 DEF EndFrame, GoesOn
  <2> QED
    BY <1>0, <2>1, <2>2 DEF BehindInv, Fr
<1>7. CASE ReturnNextFrame
  <2>1. /\ UNCHANGED frame /\ ppc = "finish" /\ call = "next" /\ ret'.more = more
        /\ ppc' \in {"idle", "panicked"}
    BY <1>7 DEF ReturnNextFrame
  <2>2. more => frame \in Through /\ Fr.cmd # "stop"
    BY <2>1 DEF ReturnInv
  <2> QED
    BY <1>0, <2>1, <2>2 DEF BehindInv, Fr
<1>8. CASE ReturnToEnd
  <2>1. UNCHANGED frame /\ ret'.more = FALSE /\ ppc' \in {"idle", "panicked"}
    BY <1>8 DEF ReturnToEnd
  <2> QED
    BY <1>0, <2>1 DEF BehindInv
<1>9. CASE Close
  <2>1. UNCHANGED <<frame, ppc>> /\ ppc \in {"idle", "panicked"}
    BY <1>9 DEF Close
  <2>2. ret'.more => ret.more
    BY <1>9 DEF Close
  <2> QED
    BY <1>0, <2>1, <2>2 DEF BehindInv, Fr
<1> QED
  BY <1>1, <1>2, <1>3, <1>4, <1>5, <1>6, <1>7, <1>8, <1>9
     DEF Next, UserStep, ParserStep, DispatcherStep, CancelStep, vars, parserVars,
     fieldVars, regVars, histVars, CancelOutside, SendTick, Send, ReadBody, Raise,
     LookupWarn, AfterWarn, RunWarn, SkipUnknown, SendCommand, SendTables, DecodePacket,
     SendMessage, RejectMessage, EndPacket, SendParsed, SyncAllQueues,
     Receive, Dispatch, FrameDone, CancelEvents, CancelMsgs

(* Every step keeps what a call knows of its last frame.                    *)
LEMMA ReturnStep ==
  /\ FrameOK /\ ControlOK /\ PcOK /\ SyncInv /\ QueueOK /\ CurrentInv /\ ReturnInv /\ [Next]_vars
  => ReturnInv'
<1> SUFFICES ASSUME FrameOK, ControlOK, PcOK, SyncInv, QueueOK, CurrentInv, ReturnInv, [Next]_vars
             PROVE  ReturnInv'
  OBVIOUS
<1>0. demo' = demo /\ Through \subseteq Through'
  BY SentGrows
<1>1. CASE UNCHANGED <<frame, ppc, call, more, err, raised>>
  BY <1>0, <1>1 DEF ReturnInv, Fr
<1>2. CASE ppc' \in {"idle", "panicked"}
  BY <1>2 DEF ReturnInv, FramePcs
<1>3. CASE /\ UNCHANGED <<call, more, err, raised>>
           /\ ppc \in FramePcs \cup {"header", "frame"}
           /\ ppc' \in FramePcs \cup {"header", "frame"}
  BY <1>3 DEF ReturnInv, FramePcs
<1>4. CASE /\ UNCHANGED <<call, more>> /\ raised' # "none"
           /\ ppc \in FramePcs \cup {"header", "frame"}
           /\ ppc' = "deferred"
  BY <1>4 DEF ReturnInv, FramePcs
<1>5. ASSUME NEW c \in {"next", "toEnd"}, Call(c) PROVE ReturnInv'
  BY <1>5 DEF Call, ReturnInv, FramePcs
<1>6. CASE ParseHeader
  BY <1>6 DEF ParseHeader, ReturnInv, FramePcs
<1>7. CASE EndFrame
  <2>1. frame \in Through
    BY <1>7, FrameIsThrough DEF EndFrame
  <2>2. /\ UNCHANGED <<frame, call, raised>> /\ (more' <=> Fr.cmd # "stop") /\ err' = perr
        /\ ppc' = IF call = "toEnd" /\ more' /\ perr = "none" THEN "frame" ELSE "deferred"
    BY <1>7 DEF EndFrame, GoesOn
  <2>3. raised = "none"
    BY <1>7 DEF EndFrame, ReturnInv, FramePcs
  <2>4. call \in {"next", "toEnd"}
    BY DEF ControlOK
  <2> QED
    BY <1>0, <2>1, <2>2, <2>3, <2>4 DEF ReturnInv, Fr, FramePcs
<1>8. CASE SyncAllQueues
  BY <1>0, <1>8 DEF SyncAllQueues, ReturnInv, Fr, FramePcs
<1> QED
  BY <1>1, <1>2, <1>3, <1>4, <1>5, <1>6, <1>7, <1>8
     DEF Next, UserStep, ParserStep, DispatcherStep, CancelStep, vars, parserVars,
     fieldVars, regVars, histVars, Close, CancelOutside, BeginFrame, SendTick, Send,
     ReadBody, Raise, LookupWarn, AfterWarn, RunWarn, SkipUnknown, SendCommand, SendTables,
     DecodePacket, SendMessage, RejectMessage, EndPacket, SendParsed, ReturnNextFrame,
     ReturnToEnd, Receive, Dispatch, FrameDone, CancelEvents, CancelMsgs, FramePcs

(* Every step keeps that handlers are not taken away without an error.      *)
LEMMA MutedStep == ControlOK /\ ErrInv /\ MutedInv /\ [Next]_vars => MutedInv'
<1> SUFFICES ASSUME ControlOK, ErrInv, MutedInv, [Next]_vars PROVE MutedInv'
  OBVIOUS
<1>1. CASE UNCHANGED <<perr, msgReg>>
  BY <1>1 DEF MutedInv
<1>2. CASE msgReg' = msgReg /\ (perr # "none" => perr' # "none")
  BY <1>2 DEF MutedInv
<1>3. CASE CancelOutside
  BY <1>2, <1>3, HandlerEffect DEF CancelOutside, regVars, Goroutines, AllOutcomes
<1>4. ASSUME NEW outcome \in Outcomes, RunWarn(outcome) PROVE MutedInv'
  BY <1>2, <1>4, HandlerEffect DEF RunWarn, regVars, Goroutines, AllOutcomes
<1>5. ASSUME NEW outcome \in Outcomes, Dispatch(outcome) PROVE MutedInv'
  BY <1>2, <1>5, HandlerEffect DEF Dispatch, regVars, Goroutines, AllOutcomes
<1>6. ASSUME NEW outcome \in Outcomes, FrameDone(outcome) PROVE MutedInv'
  BY <1>2, <1>6, HandlerEffect DEF FrameDone, regVars, Goroutines, AllOutcomes
<1>7. ASSUME NEW g \in Goroutines, CancelMsgs(g) PROVE MutedInv'
  BY <1>7 DEF CancelMsgs, ErrInv, MutedInv, fieldVars
<1> QED
  BY <1>1, <1>3, <1>4, <1>5, <1>6, <1>7
     DEF Next, UserStep, ParserStep, DispatcherStep, CancelStep, vars, parserVars,
     fieldVars, regVars, histVars, Call, Close, ParseHeader, BeginFrame, SendTick, Send,
     ReadBody, Raise, LookupWarn, SkipUnknown, SendCommand, SendTables,
     DecodePacket, SendMessage, RejectMessage, EndPacket, SendParsed, EndFrame, SyncAllQueues,
     ReturnNextFrame, ReturnToEnd, Receive, CancelEvents

(* After a clean end no item moves.                                         *)
LEMMA EndIsStill ==
  ASSUME ControlOK, FrameOK, PcOK, SyncInv, EndInv, [Next]_vars, CleanEnd
  PROVE  UNCHANGED <<frame, sent, log>>
<1>1. ppc = "idle" /\ ~ret.more /\ queue = << >> /\ cpc \in {"recv", "gone"}
  BY DEF CleanEnd, EndInv, ReturnedFrom, SyncInv, Drained
<1> QED
  BY <1>1, ZenonT(40)
     DEF Next, UserStep, ParserStep, DispatcherStep, CancelStep, vars, parserVars,
     fieldVars, regVars, histVars, Call, Close, CancelOutside, ParseHeader, BeginFrame,
     SendTick, ReadBody, LookupWarn, RunWarn, SkipUnknown, SendCommand, SendTables,
     DecodePacket, SendMessage, RejectMessage, EndPacket, SendParsed, EndFrame, SyncAllQueues,
     ReturnNextFrame, ReturnToEnd, Receive, Dispatch, FrameDone, CancelEvents, CancelMsgs

(* ParseToEnd returns no error only if its last frame is the stop command   *)
(* and everything sent has been handled.                                    *)
LEMMA CleanReturn ==
  ASSUME LostInv, ReturnToEnd, FinalError = "none"
  PROVE  frame \in Through /\ Fr.cmd = "stop" /\ log = sent
<1>0. ControlOK /\ SyncInv /\ ppc = "finish" /\ call = "toEnd"
  BY DEF LostInv, IndInv, TypeOK, ReturnToEnd
<1>1. err = "none" /\ raised = "none" /\ perr = "none"
  BY <1>0 DEF FinalError, Recovered, ControlOK
<1>2. frame \in Through /\ Fr.cmd = "stop"
  BY <1>0, <1>1 DEF LostInv, ReturnInv
<1>3. msgReg
  BY <1>1 DEF LostInv, MutedInv
<1>4. Drained
  BY <1>0 DEF SyncInv
<1> QED
  BY <1>2, <1>3, <1>4, DrainedIsHandled DEF LostInv

(* Every step keeps what a clean end says.                                  *)
LEMMA EndStep == LostInv /\ [Next]_vars => EndInv'
<1> SUFFICES ASSUME LostInv, [Next]_vars PROVE EndInv'
  OBVIOUS
<1>0. /\ ControlOK /\ ErrorsOK /\ FrameOK /\ QueueOK /\ PcOK /\ SyncInv /\ EndInv
      /\ demo' = demo /\ Through \subseteq Through'
  BY SentGrows DEF LostInv, IndInv, TypeOK
<1>1. CASE UNCHANGED <<ppc, ret>>
  <2>1. CleanEnd => UNCHANGED <<frame, sent, log>>
    BY <1>0, EndIsStill
  <2> QED
    BY <1>0, <1>1, <2>1 DEF EndInv, CleanEnd, ReturnedFrom, Fr
<1>2. CASE ppc' # "idle"
  BY <1>2 DEF EndInv, CleanEnd, ReturnedFrom
<1>3. CASE ReturnNextFrame
  BY <1>3 DEF ReturnNextFrame, EndInv, CleanEnd, ReturnedFrom
<1>4. CASE ReturnToEnd
  <2>1. /\ ret' = [call |-> "toEnd", more |-> FALSE, err |-> FinalError]
        /\ UNCHANGED <<frame, sent, log>>
    BY <1>4 DEF ReturnToEnd, histVars
  <2>2. FinalError = "none" => frame \in Through /\ Fr.cmd = "stop" /\ log = sent
    BY <1>4, CleanReturn
  <2> QED
    BY <1>0, <2>1, <2>2 DEF EndInv, CleanEnd, ReturnedFrom, Fr
<1>5. CASE Close
  <2>1. /\ UNCHANGED <<ppc, frame, sent, log>>
        /\ ret'.call = ret.call /\ ret'.err = ret.err /\ ret'.more = FALSE
    BY <1>0, <1>5 DEF Close, ErrorsOK, histVars
  <2> QED
    BY <1>0, <2>1 DEF EndInv, CleanEnd, ReturnedFrom, Fr
<1> QED
  BY <1>1, <1>2, <1>3, <1>4, <1>5
     DEF Next, UserStep, ParserStep, DispatcherStep, CancelStep, vars, parserVars,
     fieldVars, regVars, histVars, Call, CancelOutside, ParseHeader, BeginFrame,
     SendTick, Send, ReadBody, Raise, LookupWarn, AfterWarn, RunWarn, SkipUnknown,
     SendCommand, SendTables, DecodePacket, SendMessage, RejectMessage, EndPacket,
     SendParsed, EndFrame, SyncAllQueues, Receive, Dispatch, FrameDone, CancelEvents,
     CancelMsgs

(* Every step keeps the invariant.                                          *)
LEMMA LostStep == LostInv /\ [Next]_vars => LostInv'
<1> SUFFICES ASSUME LostInv, [Next]_vars PROVE LostInv'
  OBVIOUS
<1>1. /\ ControlOK /\ FrameOK /\ QueueOK /\ PcOK /\ SyncInv /\ ErrInv
  BY DEF LostInv, IndInv, TypeOK
<1>2. IndInv'
  BY NextInv DEF LostInv
<1>3. BranchInv' /\ CurrentInv'
  BY <1>1, BranchStep, CurrentStep DEF LostInv
<1>4. BehindInv' /\ ReturnInv'
  BY <1>1, BehindStep, ReturnStep DEF LostInv
<1>5. MutedInv'
  BY <1>1, MutedStep DEF LostInv
<1> QED
  BY <1>2, <1>3, <1>4, <1>5, EndStep DEF LostInv

(* Nothing is lost at first.                                                *)
LEMMA LostInit == Init => LostInv
<1> SUFFICES ASSUME Init PROVE LostInv
  OBVIOUS
<1>1. /\ ppc = "idle" /\ frame = 0 /\ ret = [call |-> "next", more |-> TRUE, err |-> "none"]
      /\ msgReg = TRUE
  BY DEF Init
<1>2. \A f \in 1 .. frame - 1 : FALSE
  BY <1>1
<1> QED
  BY <1>1, <1>2, InitInv DEF LostInv, BranchInv, CurrentInv, BehindInv, ReturnInv, EndInv,
     CleanEnd, ReturnedFrom, MutedInv, FramePcs

(* What parseFrame reads is sent, and after a clean end all of it has been  *)
(* handled.                                                                 *)
THEOREM NothingIsSkipped == Spec => []LostInv
  BY LostInit, LostStep, PTL DEF Spec

(* When ParseToEnd returns without an error, the handlers have had every    *)
(* decodable message of every frame, and the demo ended with its stop       *)
(* command.                                                                 *)
THEOREM NothingIsLost == Spec => []NothingLost
<1>1. LostInv => NothingLost
  <2> SUFFICES ASSUME LostInv, CleanEnd
               PROVE  /\ demo.frames[frame].cmd = "stop"
                      /\ \A f \in 1 .. frame : \A item \in Required(f) :
                           \E i \in 1 .. Len(log) : log[i] = item
    BY DEF NothingLost
  <2>1. frame \in Through /\ Fr.cmd = "stop" /\ log = sent
    BY DEF LostInv, EndInv
  <2>2. frame \in Nat
    BY <2>1, DemosAssumption DEF LostInv, IndInv, TypeOK, FrameOK
  <2>3. \A f \in 1 .. frame : f \in Through
    BY <2>1, <2>2 DEF LostInv, BehindInv
  <2>4. \A f \in 1 .. frame : \A item \in Required(f) : item \in SentSet
    BY <2>3 DEF Through
  <2> QED
    BY <2>1, <2>4 DEF SentSet, Fr
<1> QED
  BY <1>1, NothingIsSkipped, PTL

-------------------------------------------------------------------------------
(* The playback values.                                                     *)

(* The items given to handlers.                                             *)
LogSet == {log[i] : i \in 1 .. Len(log)}

(* The frames whose end has been handled.                                   *)
Ended == {f \in 1 .. Len(demo.frames) : Item(f, "frameParsed") \in LogSet}

(* The frames up to the current one that have an end to be handled.         *)
Known == {f \in 1 .. frame : demo.frames[f].cmd # "unknown"}

InfoLogged == \E item \in LogSet : item.kind = "fileInfo"

(* Only frames of a known command have an end that is handled.              *)
KnownInv ==
  \A item \in SentSet :
    item.kind = "frameParsed"
      => /\ item = Item(item.frame, "frameParsed")
         /\ item.frame \in Known

(* Without an error, every end of a frame that was handled is counted, or   *)
(* will be by the handler that runs.                                        *)
CountedInv ==
  perr = "none" => Cardinality(Ended) = IF cpc = "frameDone" THEN currentFrame + 1
                                                             ELSE currentFrame

(* Without an error, a CDemoFileInfo that was handled has been stored.      *)
StoredInv ==
  perr = "none" /\ ~ReturnedFrom("toEnd")
    => playbackFrames = IF InfoLogged THEN InfoFrames ELSE 0

(* The inductive invariant of PlaybackValuesSet.                            *)
PlaybackInv == LostInv /\ KnownInv /\ CountedInv /\ StoredInv /\ PlaybackValuesSet

(* Frames are never unread.                                                 *)
LEMMA KnownGrows ==
  ASSUME FrameOK, PcOK, SyncInv, QueueOK, [Next]_vars
  PROVE  Known \subseteq Known'
<1>1. demo' = demo /\ frame \in Nat
  <2>1. Len(demo.frames) \in Nat
    BY DemosAssumption DEF FrameOK
  <2> QED
    BY <2>1, SentGrows DEF FrameOK
<1>2. frame' \in {frame, frame + 1}
  BY ZenonT(40) DEF Next, UserStep, ParserStep, DispatcherStep, CancelStep, vars, Send,
     parserVars, Call, Close, CancelOutside, ParseHeader, BeginFrame, SendTick, ReadBody,
     LookupWarn, RunWarn, SkipUnknown, SendCommand, SendTables, DecodePacket, SendMessage,
     RejectMessage, EndPacket, SendParsed, EndFrame, SyncAllQueues, ReturnNextFrame,
     ReturnToEnd, Receive, Dispatch, FrameDone, CancelEvents, CancelMsgs
<1> QED
  BY <1>1, <1>2 DEF Known

(* A send adds its item to what is sent, every other step nothing.          *)
LEMMA SentSetOf ==
  ASSUME QueueOK
  PROVE  /\ \A item \in Items : Send(item) => SentSet' = SentSet \cup {item}
         /\ UNCHANGED sent => SentSet' = SentSet
<1>1. ASSUME NEW item \in Items, Send(item) PROVE SentSet' = SentSet \cup {item}
  <2>1. /\ Len(sent) \in Nat /\ Len(sent') = Len(sent) + 1 /\ sent'[Len(sent) + 1] = item
        /\ \A i \in 1 .. Len(sent) : sent'[i] = sent[i]
    BY <1>1, AppendProperties DEF Send, QueueOK
  <2>2. 1 .. Len(sent') = (1 .. Len(sent)) \cup {Len(sent) + 1}
    BY <2>1
  <2> QED
    BY <2>1, <2>2 DEF SentSet
<1> QED
  BY <1>1 DEF SentSet

(* Every step keeps that the ends sent are those of known frames.           *)
LEMMA KnownStep ==
  FrameOK /\ PcOK /\ SyncInv /\ QueueOK /\ BranchInv /\ KnownInv /\ [Next]_vars => KnownInv'
<1> SUFFICES ASSUME FrameOK, PcOK, SyncInv, QueueOK, BranchInv, KnownInv, [Next]_vars
             PROVE  KnownInv'
  OBVIOUS
<1>0. Known \subseteq Known' /\ demo' = demo
  BY KnownGrows, SentGrows
<1>1. CASE UNCHANGED sent
  BY <1>0, <1>1, SentSetOf DEF KnownInv, Item
<1>2. ASSUME NEW item \in Items, Send(item), item.kind # "frameParsed" PROVE KnownInv'
  BY <1>0, <1>2, SentSetOf DEF KnownInv, Item
<1>3. CASE SendParsed
  <2>1. Item(frame, "frameParsed") \in Items /\ frame \in 1 .. Len(demo.frames)
    BY <1>3, ItemType, FrameType DEF SendParsed, PcOK, FramePcs, Kinds
  <2>2. frame \in Known
    BY <1>3, <2>1 DEF SendParsed, BranchInv, Known, Fr
  <2>3. SentSet' = SentSet \cup {Item(frame, "frameParsed")}
    BY <1>3, <2>1, SentSetOf DEF SendParsed
  <2> QED
    BY <1>0, <2>2, <2>3 DEF KnownInv, Item
<1>4. CASE SendTick
  <2>1. Item(frame, "tick") \in Items
    BY <1>4, ItemType DEF SendTick, PcOK, FramePcs, Kinds
  <2> QED
    BY <1>2, <1>4, <2>1 DEF SendTick, Item
<1>5. CASE SendCommand
  <2>1. Item(frame, IF Fr.cmd = "fileInfo" THEN "fileInfo" ELSE "command") \in Items
    BY <1>5, ItemType DEF SendCommand, PcOK, FramePcs, Kinds
  <2> QED
    BY <1>2, <1>5, <2>1 DEF SendCommand, Item
<1>6. CASE SendTables
  <2>1. Item(frame, "stringTable") \in Items
    BY <1>6, ItemType DEF SendTables, PcOK, FramePcs, Kinds
  <2> QED
    BY <1>2, <1>6, <2>1 DEF SendTables, Item
<1>7. ASSUME NEW k \in pending, SendMessage(k) PROVE KnownInv'
  <2>1. MessageItem(frame, k, Fr.msgs[k]) \in Items
    BY <1>7, ItemType DEF SendMessage, PcOK, FramePcs
  <2> QED
    BY <1>2, <1>7, <2>1 DEF SendMessage, MessageItem
<1> QED
  BY <1>1, <1>3, <1>4, <1>5, <1>6, <1>7
     DEF Next, UserStep, ParserStep, DispatcherStep, CancelStep, vars, parserVars,
     fieldVars, regVars, histVars, Call, Close, CancelOutside, ParseHeader, BeginFrame,
     ReadBody, LookupWarn, RunWarn, SkipUnknown, DecodePacket, RejectMessage, EndPacket,
     EndFrame, SyncAllQueues, ReturnNextFrame, ReturnToEnd, Receive, Dispatch, FrameDone,
     CancelEvents, CancelMsgs

(* No item is before itself.                                                *)
LEMMA NotBeforeItself == \A item \in Items : ~Before(item, item)
<1> SUFFICES ASSUME NEW item \in Items PROVE ~Before(item, item)
  OBVIOUS
<1>1. item.frame \in Nat /\ item.kind \in Kinds /\ item.pos \in Nat /\ item.type \in Types
  BY DEF Items
<1>2. Stage(item.kind) \in Nat /\ Urgency(item.type) \in Nat
  BY <1>1 DEF Kinds, Stage, Urgency
<1> QED
  BY <1>1, <1>2 DEF Before

(* The item being dispatched has been sent and not been handled.            *)
LEMMA CurIsNew ==
  ASSUME IndInv, cpc = "dispatch"
  PROVE  cur \in Items /\ cur \in SentSet /\ cur \notin LogSet
<1>1. /\ taken \in Nat /\ taken > 0 /\ cur = sent[taken] /\ Len(log) <= taken - 1
      /\ taken <= Len(sent) /\ cur \in Items /\ Len(log) \in Nat /\ Len(sent) \in Nat
  BY DEF IndInv, TypeOK, FifoInv, QueueOK, CountersOK
<1>2. \A i \in 1 .. Len(log) : i \in 1 .. Len(sent) /\ i < taken /\ log[i] = sent[i]
  BY <1>1 DEF IndInv, FifoInv
<1>3. \A i \in 1 .. Len(log) : Before(log[i], cur)
  BY <1>1, <1>2 DEF IndInv, OrderInv, SentOrdered
<1>4. cur \notin LogSet
  BY <1>1, <1>3, NotBeforeItself DEF LogSet
<1>5. taken \in 1 .. Len(sent)
  BY <1>1
<1> QED
  BY <1>1, <1>4, <1>5 DEF SentSet

(* Dispatching an item to registered handlers adds it to what is handled,   *)
(* every other step nothing.                                                *)
LEMMA LogSetOf ==
  ASSUME QueueOK
  PROVE  /\ UNCHANGED log => LogSet' = LogSet
         /\ log' = Append(log, cur) => LogSet' = LogSet \cup {cur}
<1>1. ASSUME log' = Append(log, cur) PROVE LogSet' = LogSet \cup {cur}
  <2>1. /\ Len(log) \in Nat /\ Len(log') = Len(log) + 1 /\ log'[Len(log) + 1] = cur
        /\ \A i \in 1 .. Len(log) : log'[i] = log[i]
    BY <1>1, AppendProperties DEF QueueOK
  <2>2. 1 .. Len(log') = (1 .. Len(log)) \cup {Len(log) + 1}
    BY <2>1
  <2> QED
    BY <2>1, <2>2 DEF LogSet
<1> QED
  BY <1>1 DEF LogSet

(* The frames whose end has been handled are finitely many.                 *)
LEMMA EndedFinite ==
  ASSUME FrameOK
  PROVE  IsFiniteSet(Ended) /\ Cardinality(Ended) \in Nat
<1>1. Len(demo.frames) \in Nat
  BY DemosAssumption DEF FrameOK
<1>2. IsFiniteSet(1 .. Len(demo.frames))
  BY <1>1, FS_Interval
<1>3. Ended \subseteq 1 .. Len(demo.frames)
  BY DEF Ended
<1>4. IsFiniteSet(Ended)
  BY <1>2, <1>3, FS_Subset
<1> QED
  BY <1>4, FS_CardinalityType

(* Every step keeps the count of the frames handled.                        *)
LEMMA CountedStep == LostInv /\ KnownInv /\ CountedInv /\ [Next]_vars => CountedInv'
<1> SUFFICES ASSUME LostInv, KnownInv, CountedInv, [Next]_vars PROVE CountedInv'
  OBVIOUS
<1>0. /\ IndInv /\ ControlOK /\ FrameOK /\ QueueOK /\ CountersOK /\ PcOK /\ SyncInv
      /\ demo' = demo
  BY SentGrows DEF LostInv, IndInv, TypeOK
<1> DEFINE Counted == UNCHANGED <<log, currentFrame>> /\ (perr' = "none" => perr = "none")
                      /\ (cpc' = "frameDone" <=> cpc = "frameDone")
<1>1. CASE Counted
  <2>1. Ended' = Ended
    BY <1>0, <1>1, LogSetOf DEF Ended
  <2> QED
    BY <1>1, <2>1 DEF CountedInv
<1>2. CASE CancelOutside
  BY <1>0, <1>1, <1>2, HandlerEffect DEF CancelOutside, Goroutines, AllOutcomes
<1>3. ASSUME NEW outcome \in Outcomes, RunWarn(outcome) PROVE CountedInv'
  BY <1>0, <1>1, <1>3, HandlerEffect DEF RunWarn, Goroutines, AllOutcomes
<1>4. ASSUME NEW outcome \in Outcomes, Dispatch(outcome) PROVE CountedInv'
  <2>1. CASE ~msgReg
    BY <1>4, <2>1 DEF Dispatch, LostInv, MutedInv, CountedInv
  <2>2. CASE msgReg
    <3>1. /\ log' = Append(log, cur) /\ HandlerRuns("dispatcher", outcome)
          /\ currentFrame' = currentFrame /\ cpc = "dispatch"
          /\ cpc' \in IF cur.kind # "frameParsed" THEN {"recv"}
                      ELSE IF outcome = "panic" THEN {"recv", "frameDone"}
                      ELSE {"frameDone"}
      BY <1>4, <2>2 DEF Dispatch
    <3>2. (perr' = "none" => perr = "none" /\ outcome # "panic")
      BY <1>0, <3>1, HandlerEffect DEF HandlerRuns, SetError, Goroutines, AllOutcomes
    <3>3. LogSet' = LogSet \cup {cur}
      BY <1>0, <3>1, LogSetOf
    <3>4. cur \in SentSet /\ cur \notin LogSet
      BY <1>0, <3>1, CurIsNew
    <3>5. CASE cur.kind # "frameParsed"
      <4>1. Ended' = Ended
        BY <1>0, <3>3, <3>5 DEF Ended, Item
      <4> QED
        BY <3>1, <3>2, <3>5, <4>1 DEF CountedInv
    <3>6. CASE cur.kind = "frameParsed"
      <4>1. cur = Item(cur.frame, "frameParsed") /\ cur.frame \in Known
        BY <3>4, <3>6 DEF KnownInv
      <4>2. cur.frame \in 1 .. Len(demo.frames)
        <5>1. frame \in 0 .. Len(demo.frames) /\ Len(demo.frames) \in Nat
          BY <1>0, DemosAssumption DEF FrameOK
        <5> QED
          BY <4>1, <5>1 DEF Known
      <4>3. Ended' = Ended \cup {cur.frame} /\ cur.frame \notin Ended
        <5>1. \A f : Item(f, "frameParsed") = cur <=> f = cur.frame
          BY <4>1 DEF Item
        <5> QED
          BY <1>0, <3>3, <3>4, <4>2, <5>1 DEF Ended
      <4>4. Cardinality(Ended') = Cardinality(Ended) + 1
        BY <1>0, <4>3, EndedFinite, FS_AddElement
      <4> QED
        BY <1>0, <3>1, <3>2, <3>6, <4>4 DEF CountedInv, CountersOK
    <3> QED
      BY <3>5, <3>6
  <2> QED
    BY <2>1, <2>2
<1>5. ASSUME NEW outcome \in Outcomes, FrameDone(outcome) PROVE CountedInv'
  <2>1. /\ UNCHANGED log /\ cpc = "frameDone" /\ cpc' = "recv"
        /\ currentFrame' = currentFrame + 1
        /\ perr' = perr \/ HandlerRuns("dispatcher", outcome)
    BY <1>5 DEF FrameDone
  <2>2. perr' = "none" => perr = "none"
    BY <1>0, <2>1, HandlerEffect DEF Goroutines, AllOutcomes
  <2>3. Ended' = Ended
    BY <1>0, <2>1, LogSetOf DEF Ended
  <2> QED
    BY <2>1, <2>2, <2>3 DEF CountedInv
<1>7. CASE Close \/ ReturnNextFrame \/ ReturnToEnd
  <2>1. /\ UNCHANGED <<log, currentFrame, perr>> /\ cpc' \in {cpc, "gone"}
        /\ ppc \in {"idle", "panicked", "finish"}
    BY <1>7 DEF Close, ReturnNextFrame, ReturnToEnd, RemoveAndClose, fieldVars, histVars
  <2>2. cpc # "frameDone"
    BY <1>0, <2>1 DEF SyncInv, Drained
  <2> QED
    BY <1>1, <2>1, <2>2
<1>8. CASE ParseHeader
  <2>1. /\ UNCHANGED <<log, currentFrame, perr>> /\ ppc = "header"
        /\ cpc' \in {cpc, "recv"}
    BY <1>8 DEF ParseHeader, histVars
  <2>2. cpc # "frameDone"
    BY <1>0, <2>1 DEF SyncInv, Drained
  <2> QED
    BY <1>1, <2>1, <2>2
<1>9. CASE Receive
  BY <1>1, <1>9 DEF Receive
<1>10. CASE UNCHANGED <<log, currentFrame, perr, cpc>>
  BY <1>1, <1>10
<1> QED
  BY <1>2, <1>3, <1>4, <1>5, <1>7, <1>8, <1>9, <1>10, ZenonT(40)
     DEF Next, UserStep, ParserStep, DispatcherStep, CancelStep, vars, parserVars,
     fieldVars, regVars, histVars, Call, BeginFrame, SendTick, Send, ReadBody, LookupWarn,
     SkipUnknown, SendCommand, SendTables, DecodePacket, SendMessage, RejectMessage,
     EndPacket, SendParsed, EndFrame, SyncAllQueues, CancelEvents, CancelMsgs

(* Every step keeps that a CDemoFileInfo that was handled has been stored.  *)
LEMMA StoredStep == LostInv /\ StoredInv /\ [Next]_vars => StoredInv'
<1> SUFFICES ASSUME LostInv, StoredInv, [Next]_vars PROVE StoredInv'
  OBVIOUS
<1>0. /\ ControlOK /\ FrameOK /\ QueueOK /\ PcOK /\ SyncInv
  BY DEF LostInv, IndInv, TypeOK
<1> DEFINE Stored == UNCHANGED <<log, playbackFrames>> /\ (perr' = "none" => perr = "none")
                     /\ (ReturnedFrom("toEnd") => ReturnedFrom("toEnd")')
<1>1. CASE Stored
  <2>1. InfoLogged' <=> InfoLogged
    BY <1>0, <1>1, LogSetOf DEF InfoLogged
  <2> QED
    BY <1>1, <2>1 DEF StoredInv
<1>2. CASE CancelOutside
  BY <1>0, <1>1, <1>2, HandlerEffect DEF CancelOutside, Goroutines, AllOutcomes, ReturnedFrom,
     parserVars
<1>3. ASSUME NEW outcome \in Outcomes, RunWarn(outcome) PROVE StoredInv'
  BY <1>0, <1>1, <1>3, HandlerEffect DEF RunWarn, Goroutines, AllOutcomes, ReturnedFrom
<1>4. ASSUME NEW outcome \in Outcomes, FrameDone(outcome) PROVE StoredInv'
  BY <1>0, <1>1, <1>4, HandlerEffect DEF FrameDone, Goroutines, AllOutcomes, ReturnedFrom,
     parserVars
<1>5. ASSUME NEW outcome \in Outcomes, Dispatch(outcome) PROVE StoredInv'
  <2>0. UNCHANGED <<ppc, ret>>
    BY <1>5 DEF Dispatch, parserVars
  <2>1. CASE ~msgReg
    BY <1>5, <2>1 DEF Dispatch, LostInv, MutedInv, StoredInv
  <2>2. CASE msgReg
    <3>1. /\ log' = Append(log, cur) /\ HandlerRuns("dispatcher", outcome)
          /\ playbackFrames' = IF cur.kind = "fileInfo" /\ outcome # "panic"
                               THEN InfoFrames ELSE playbackFrames
      BY <1>5, <2>2 DEF Dispatch
    <3>2. (perr' = "none" => perr = "none" /\ outcome # "panic")
      BY <1>0, <3>1, HandlerEffect DEF HandlerRuns, SetError, Goroutines, AllOutcomes
    <3>3. InfoLogged' <=> InfoLogged \/ cur.kind = "fileInfo"
      BY <1>0, <3>1, LogSetOf DEF InfoLogged
    <3> QED
      BY <2>0, <3>1, <3>2, <3>3 DEF StoredInv, ReturnedFrom
  <2> QED
    BY <2>1, <2>2
<1>6. CASE ReturnToEnd
  <2>1. /\ UNCHANGED <<log, perr>> /\ ret'.call = "toEnd" /\ ppc = "finish"
        /\ ppc' = IF Recovered = "corrupt" THEN "panicked" ELSE "idle"
        /\ playbackFrames' = PlaybackFrames
    BY <1>6 DEF ReturnToEnd, histVars
  <2>2. CASE Recovered = "corrupt"
    <3>1. playbackFrames' = playbackFrames
      BY <2>1, <2>2 DEF PlaybackFrames, FinalError
    <3> QED
      BY <1>1, <2>1, <3>1 DEF ReturnedFrom
  <2>3. CASE Recovered # "corrupt"
    BY <2>1, <2>3 DEF StoredInv, ReturnedFrom
  <2> QED
    BY <2>2, <2>3
<1>7. ASSUME NEW c \in {"next", "toEnd"}, Call(c) PROVE StoredInv'
  <2>1. ~ReturnedFrom("toEnd") /\ UNCHANGED <<log, perr, playbackFrames>>
    BY <1>7 DEF Call, LostInv, EndInv, ReturnedFrom, fieldVars
  <2> QED
    BY <1>1, <2>1
<1>8. CASE Close
  <2>1. UNCHANGED <<log, perr, playbackFrames, ppc>> /\ ret'.call = ret.call
    BY <1>8 DEF Close, LostInv, IndInv, TypeOK, ErrorsOK, fieldVars, histVars
  <2> QED
    BY <1>1, <2>1 DEF ReturnedFrom
<1>9. CASE UNCHANGED <<log, perr, playbackFrames>> /\ ppc # "idle"
  BY <1>1, <1>9 DEF ReturnedFrom
<1>10. CASE UNCHANGED <<log, perr, playbackFrames, ppc, ret>>
  BY <1>1, <1>10 DEF ReturnedFrom
<1> QED
  BY <1>2, <1>3, <1>4, <1>5, <1>6, <1>7, <1>8, <1>9, <1>10, ZenonT(40)
     DEF Next, UserStep, ParserStep, DispatcherStep, CancelStep, vars, parserVars,
     fieldVars, regVars, histVars, ParseHeader, BeginFrame, SendTick, Send, ReadBody, LookupWarn,
     SkipUnknown, SendCommand, SendTables, DecodePacket, SendMessage, RejectMessage,
     EndPacket, SendParsed, EndFrame, SyncAllQueues, ReturnNextFrame, Receive, CancelEvents,
     CancelMsgs

(* When all is through, the frames whose end was handled are the known ones.*)
LEMMA EndedIsKnown ==
  ASSUME LostInv, KnownInv, frame \in Through, log = sent
  PROVE  Ended = Known
<1>1. frame \in Through /\ log = sent
  OBVIOUS
<1>2. frame \in 1 .. Len(demo.frames) /\ Len(demo.frames) \in Nat
  BY <1>1, DemosAssumption DEF Through, LostInv, IndInv, TypeOK, FrameOK
<1>3. LogSet = SentSet
  BY <1>1 DEF LogSet, SentSet
<1>4. ASSUME NEW f \in Ended PROVE f \in Known
  <2>1. Item(f, "frameParsed").kind = "frameParsed" /\ Item(f, "frameParsed").frame = f
    BY DEF Item
  <2> QED
    BY <1>3, <2>1 DEF Ended, KnownInv
<1>5. ASSUME NEW f \in Known PROVE f \in Ended
  <2>1. f \in Through /\ f \in 1 .. Len(demo.frames)
    BY <1>1, <1>2 DEF Known, LostInv, BehindInv
  <2>2. Item(f, "frameParsed") \in Required(f)
    BY DEF Required, Known
  <2> QED
    BY <1>3, <2>1, <2>2 DEF Through, Ended
<1> QED
  BY <1>4, <1>5

(* Every step keeps the playback values of a clean end.                     *)
LEMMA PlaybackStep == PlaybackInv /\ [Next]_vars => PlaybackValuesSet'
<1> SUFFICES ASSUME PlaybackInv, [Next]_vars, CleanEnd'
             PROVE  playbackFrames' = IF InfoLogged' /\ InfoFrames # 0
                                      THEN InfoFrames ELSE Cardinality(Known')
  BY DEF PlaybackValuesSet, InfoLogged, LogSet, Known
<1>0. /\ ControlOK /\ ErrorsOK /\ FrameOK /\ QueueOK /\ PcOK /\ SyncInv /\ EndInv
      /\ demo' = demo
  BY SentGrows DEF PlaybackInv, LostInv, IndInv, TypeOK
<1>1. CASE CleanEnd
  <2>1. UNCHANGED <<frame, sent, log>>
    BY <1>0, <1>1, EndIsStill
  <2>2. playbackFrames' = playbackFrames
    <3>1. ppc = "idle" /\ queue = << >> /\ cpc \in {"recv", "gone"}
      BY <1>0, <1>1 DEF CleanEnd, ReturnedFrom, SyncInv, Drained
    <3> QED
      BY <3>1, ZenonT(40)
         DEF Next, UserStep, ParserStep, DispatcherStep, CancelStep, vars, parserVars,
         fieldVars, regVars, histVars, Call, Close, CancelOutside, ParseHeader, BeginFrame,
         SendTick, Send, ReadBody, LookupWarn, RunWarn, SkipUnknown, SendCommand, SendTables,
         DecodePacket, SendMessage, RejectMessage, EndPacket, SendParsed, EndFrame,
         SyncAllQueues, ReturnNextFrame, ReturnToEnd, Receive, Dispatch, FrameDone,
         CancelEvents, CancelMsgs
  <2>3. Known' = Known /\ (InfoLogged' <=> InfoLogged)
    BY <1>0, <2>1, LogSetOf DEF Known, InfoLogged
  <2>4. playbackFrames = IF InfoLogged /\ InfoFrames # 0 THEN InfoFrames ELSE Cardinality(Known)
    BY <1>1 DEF PlaybackInv, PlaybackValuesSet, InfoLogged, LogSet, Known
  <2> QED
    BY <2>2, <2>3, <2>4
<1>2. CASE ReturnToEnd
  <2>1. /\ UNCHANGED <<log, frame, sent, perr, currentFrame>> /\ ppc = "finish"
        /\ FinalError = "none" /\ playbackFrames' = PlaybackFrames
    BY <1>2 DEF ReturnToEnd, CleanEnd, ReturnedFrom, histVars
  <2>2. perr = "none"
    BY <2>1 DEF FinalError
  <2>3. playbackFrames = IF InfoLogged THEN InfoFrames ELSE 0
    BY <2>1, <2>2 DEF PlaybackInv, StoredInv, ReturnedFrom
  <2>4. cpc # "frameDone"
    BY <1>0, <2>1 DEF SyncInv, Drained
  <2>5. Cardinality(Ended) = currentFrame
    BY <2>2, <2>4 DEF PlaybackInv, CountedInv
  <2>6. Ended' = Ended /\ (InfoLogged' <=> InfoLogged)
    BY <1>0, <2>1, LogSetOf DEF Ended, InfoLogged
  <2>7. Ended = Known
    BY <1>2, <2>1, CleanReturn, EndedIsKnown DEF PlaybackInv
  <2>8. Known' = Known
    BY <1>0, <2>1 DEF Known
  <2> QED
    BY <2>1, <2>3, <2>5, <2>6, <2>7, <2>8 DEF PlaybackFrames
<1>3. CASE Close
  BY <1>0, <1>1, <1>3 DEF Close, CleanEnd, ReturnedFrom, ErrorsOK
<1>4. CASE ReturnNextFrame
  BY <1>4 DEF ReturnNextFrame, CleanEnd, ReturnedFrom
<1>5. CASE UNCHANGED <<ppc, ret>>
  BY <1>1, <1>5 DEF CleanEnd, ReturnedFrom
<1>6. CASE ppc' # "idle"
  BY <1>6 DEF CleanEnd, ReturnedFrom
<1> QED
  BY <1>2, <1>3, <1>4, <1>5, <1>6, ZenonT(40)
     DEF Next, UserStep, ParserStep, DispatcherStep, CancelStep, vars, parserVars,
     fieldVars, regVars, histVars, Call, CancelOutside, ParseHeader, BeginFrame,
     SendTick, Send, ReadBody, Raise, LookupWarn, AfterWarn, RunWarn, SkipUnknown,
     SendCommand, SendTables, DecodePacket, SendMessage, RejectMessage, EndPacket,
     SendParsed, EndFrame, SyncAllQueues, Receive, Dispatch, FrameDone, CancelEvents,
     CancelMsgs

(* The frames of a demo are counted as they are handled to their end.       *)
THEOREM FramesAreCounted == Spec => []PlaybackInv
<1>1. Init => PlaybackInv
  <2> SUFFICES ASSUME Init PROVE PlaybackInv
    OBVIOUS
  <2>1. /\ ppc = "idle" /\ ret = [call |-> "next", more |-> TRUE, err |-> "none"]
        /\ sent = << >> /\ log = << >> /\ currentFrame = 0 /\ playbackFrames = 0
        /\ cpc # "frameDone"
    BY DEF Init
  <2>2. SentSet = {} /\ LogSet = {}
    BY <2>1 DEF SentSet, LogSet
  <2>3. Ended = {} /\ ~InfoLogged
    BY <2>2 DEF Ended, InfoLogged
  <2>4. Cardinality(Ended) = 0
    BY <2>3, FS_EmptySet
  <2>5. ~ReturnedFrom("toEnd")
    BY <2>1 DEF ReturnedFrom
  <2>6. LostInv
    BY LostInit
  <2>7. CountedInv
    BY <2>1, <2>4 DEF CountedInv
  <2> QED
    BY <2>1, <2>2, <2>3, <2>5, <2>6, <2>7
       DEF PlaybackInv, KnownInv, StoredInv, PlaybackValuesSet, CleanEnd
<1>2. PlaybackInv /\ [Next]_vars => PlaybackInv'
  <2> SUFFICES ASSUME PlaybackInv, [Next]_vars PROVE PlaybackInv'
    OBVIOUS
  <2>1. LostInv' /\ CountedInv' /\ StoredInv'
    BY LostStep, CountedStep, StoredStep DEF PlaybackInv
  <2>2. KnownInv'
    BY KnownStep DEF PlaybackInv, LostInv, IndInv, TypeOK
  <2> QED
    BY <2>1, <2>2, PlaybackStep DEF PlaybackInv
<1> QED
  BY <1>1, <1>2, PTL DEF Spec

(* After a clean end the playback values are the announced ones or count    *)
(* the frames of the demo.                                                  *)
THEOREM PlaybackValuesAreSet == Spec => []PlaybackValuesSet
<1>1. PlaybackInv => PlaybackValuesSet
  BY DEF PlaybackInv
<1> QED
  BY <1>1, FramesAreCounted, PTL

===============================================================================
