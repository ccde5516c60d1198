------------------------------- MODULE ParsingMC -------------------------------
(***************************************************************************)
(* Small demos for Parsing, and its refinement of SequentialParsing.       *)
(***************************************************************************)
EXTENDS Parsing

Msg(t)  == [type |-> t, bad |-> FALSE]
BadMsg(t) == [type |-> t, bad |-> TRUE]
Cmd(cmd, body, msgs) == [cmd |-> cmd, body |-> body, msgs |-> msgs]
Other(stamp) == [stamp |-> stamp, frames |-> << >>]
Demo(frames) == [stamp |-> "PBDEMS2", frames |-> frames]

Stop == Cmd("stop", "ok", << >>)
Plain == Cmd("other", "ok", << >>)

(* A packet whose messages arrive in the opposite of their priorities.     *)
Mixed == Cmd("packet", "ok", <<Msg("svc_PacketEntities"), Msg("user"), Msg("net_Tick")>>)

(* Equal priorities, and an unknown message.                               *)
Stable == Cmd("packet", "ok", <<Msg("user"), Msg("unknown"), Msg("user")>>)

(* A full packet: string tables, then the packet.                          *)
Full == Cmd("full", "ok", <<Msg("svc_PacketEntities"), Msg("svc_CreateStringTable")>>)

CompleteDemos ==
  {Demo(<<Mixed, Stop>>), Demo(<<Plain, Stable, Stop>>), Demo(<<Full, Stop>>),
   Demo(<<Cmd("unknown", "ok", << >>), Plain, Stop>>),
   Demo(<<Cmd("fileInfo", "ok", << >>), Cmd("packet", "snappy", << >>), Stop>>)}

BrokenDemos ==
  {Other("HL2DEMO"), Other("other"), Other("short"),
   Demo(<<Plain, Plain>>), Demo(<<Mixed>>),
   Demo(<<Plain, Cmd("packet", "short", << >>)>>),
   Demo(<<Plain, Cmd("packet", "shortPacket", << >>)>>),
   Demo(<<Plain, Cmd("other", "corrupt", << >>)>>),
   Demo(<<Cmd("unknown", "short", << >>)>>),
   Demo(<<Cmd("packet", "ok", <<Msg("user"), BadMsg("user"), Msg("user")>>), Stop>>)}

(* With the queue that parseHeader makes, and with MsgQueueBufferSize 0.   *)
WithBuffer(demos, sizes) ==
  {[stamp |-> d.stamp, frames |-> d.frames, buffer |-> b] : d \in demos, b \in sizes}

AllDemos == WithBuffer(CompleteDemos \cup BrokenDemos, {-1})
              \cup WithBuffer(BrokenDemos \cup {Demo(<<Plain, Stable, Stop>>)}, {0})

TruncatedDemos == WithBuffer(BrokenDemos, {-1})
===============================================================================
