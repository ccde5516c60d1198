--------------------------- MODULE SequentialParsing ---------------------------
(***************************************************************************)
(* What ParseNextFrame and ParseToEnd promise a user, without goroutines   *)
(* or a queue: while a call is in progress the demo is read on and its     *)
(* items are given to the handlers one at a time, in the order they were   *)
(* read, each once; nothing is handled outside a call; a call returns only *)
(* when everything read so far has been handled, unless the handlers were  *)
(* unregistered (Cancel); and after the last call nothing happens.         *)
(***************************************************************************)
EXTENDS Naturals, Sequences

CONSTANT Elements      (* whatever the parser may put in its queue           *)

VARIABLES
  stream,            (* the items read from the demo so far                *)
  handled,           (* the items given to handlers so far                 *)
  calling,           (* a parsing call is in progress                      *)
  muted,             (* the handlers have been unregistered                *)
  ended              (* no further call is allowed                         *)

vars == <<stream, handled, calling, muted, ended>>

Init ==
  /\ stream = << >>
  /\ handled = << >>
  /\ calling = FALSE
  /\ muted = FALSE
  /\ ended = FALSE

Call ==
  /\ ~calling
  /\ ~ended
  /\ calling' = TRUE
  /\ UNCHANGED <<stream, handled, muted, ended>>

Read ==
  /\ calling
  /\ Len(stream') = Len(stream) + 1
  /\ stream'[Len(stream')] \in Elements
  /\ stream' = Append(stream, stream'[Len(stream')])
  /\ UNCHANGED <<handled, calling, muted, ended>>

Handle ==
  /\ calling
  /\ ~muted
  /\ Len(handled) < Len(stream)
  /\ handled' = Append(handled, stream[Len(handled) + 1])
  /\ UNCHANGED <<stream, calling, muted, ended>>

Mute ==
  /\ muted' = TRUE
  /\ UNCHANGED <<stream, handled, calling, ended>>

Return ==
  /\ calling
  /\ muted \/ handled = stream
  /\ calling' = FALSE
  /\ ended' \in BOOLEAN
  /\ UNCHANGED <<stream, handled, muted>>

(* Parser.Close between two calls, or giving up the parser.                *)
Close ==
  /\ ~calling
  /\ ended' = TRUE
  /\ UNCHANGED <<stream, handled, calling, muted>>

Next == Call \/ Read \/ Handle \/ Mute \/ Return \/ Close

Spec == Init /\ [][Next]_vars
===============================================================================
