------------------------------ MODULE DemoFrames ------------------------------
(***************************************************************************)
(* The demo stream as the parsing goroutine sees it: frames (demo          *)
(* commands), the net-messages packed in them, the items that parseFrame   *)
(* and handleDemoPacket make of them for msgQueue, and the order in which  *)
(* the items belong.  Bytes, compression and protobuf decoding are         *)
(* abstracted to whether decoding succeeds.                                *)
(***************************************************************************)
EXTENDS Naturals, Integers, Sequences

(* Demo commands parseFrame tells apart: "other" is any command that has a *)
(* creator and no packet in it, "unknown" any command without a creator.   *)
Commands == {"stop", "packet", "full", "fileInfo", "other", "unknown"}

(* How reading a command's bytes ends.  "short": the stream or the packet  *)
(* data ends early, a panic with io.EOF or io.ErrUnexpectedEOF;            *)
(* "corrupt": decoding fails with any other error and panics; "snappy":    *)
(* snappy.ErrCorrupt, reported as a warning, decoding goes on without data.*)
Bodies == {"ok", "short", "shortPacket", "corrupt", "snappy"}

(* Net-message types that priority() tells apart.                          *)
Types == {"net_Tick", "svc_CreateStringTable", "svc_UpdateStringTable",
          "net_SpawnGroup_Load", "svc_PacketEntities", "user", "unknown"}

(* pendingMessage: unmarshalling a "bad" one panics.                       *)
PendingMessages == [type : Types, bad : BOOLEAN]

Frames == [cmd : Commands, body : Bodies, msgs : Seq(PendingMessages)]

(* pendingMessage.priority: lower is more important.                       *)
Priority(m) ==
  CASE m.type \in {"net_Tick", "svc_CreateStringTable",
                   "svc_UpdateStringTable", "net_SpawnGroup_Load"} -> -10
    [] m.type = "svc_PacketEntities" -> 5
    [] OTHER -> 0

-------------------------------------------------------------------------------

(* The order slices.SortStableFunc brings a packet's messages into: by     *)
(* priority, equal priorities as in the packet.                            *)
Ahead(msgs, j, k) ==
  \/ Priority(msgs[j]) < Priority(msgs[k])
  \/ Priority(msgs[j]) = Priority(msgs[k]) /\ j < k

(* What goes through msgQueue: the tick, the command itself, the string    *)
(* tables of a full packet, a message of a packet, frameParsedToken.       *)
Kinds == {"tick", "command", "fileInfo", "stringTable", "message", "frameParsed"}

Items == [frame : Nat, kind : Kinds, pos : Nat, type : Types]

Item(f, kind) == [frame |-> f, kind |-> kind, pos |-> 0, type |-> "user"]

MessageItem(f, k, m) == [frame |-> f, kind |-> "message", pos |-> k, type |-> m.type]

-------------------------------------------------------------------------------

(* The order in which the items of a demo belong: by frame; in a frame the *)
(* tick, the command, the string tables, the messages, the end of frame;   *)
(* among messages by priority, then as in the packet.                      *)
Stage(kind) ==
  CASE kind = "tick" -> 0
    [] kind \in {"command", "fileInfo"} -> 1
    [] kind = "stringTable" -> 2
    [] kind = "message" -> 3
    [] kind = "frameParsed" -> 4

Urgency(type) ==
  CASE type \in {"net_Tick", "svc_CreateStringTable", "svc_UpdateStringTable",
                 "net_SpawnGroup_Load"} -> 0
    [] type = "svc_PacketEntities" -> 2
    [] OTHER -> 1

Before(a, b) ==
  \/ a.frame < b.frame
  \/ a.frame = b.frame /\ Stage(a.kind) < Stage(b.kind)
  \/ /\ a.frame = b.frame /\ a.kind = "message" /\ b.kind = "message"
     /\ \/ Urgency(a.type) < Urgency(b.type)
        \/ Urgency(a.type) = Urgency(b.type) /\ a.pos < b.pos
===============================================================================
