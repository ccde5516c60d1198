------------------------------- MODULE CSTVReader -------------------------------
(***************************************************************************)
(* cstv.Reader: an io.Reader over a live CSTV broadcast, which the server  *)
(* publishes as numbered delta fragments.  A Read that finds the buffer    *)
(* empty requests fragments until it has filled the caller's slice,        *)
(* sleeping between requests the server does not answer with 200.          *)
(***************************************************************************)
EXTENDS Naturals, Sequences

CONSTANTS
  Opening,           (* the bytes of the start and the full fragment       *)
  Deltas,            (* the bytes of the delta fragments, in order         *)
  Timeout,           (* CSTVTimeout, in sixteenths of a second             *)
  Sizes              (* the sizes of slice that Read is called with        *)

Bytes == {Opening[i] : i \in 1 .. Len(Opening)}
         \cup UNION {{Deltas[d][i] : i \in 1 .. Len(Deltas[d])} : d \in 1 .. Len(Deltas)}

ASSUME ReaderAssumption ==
  /\ Opening \in Seq(Bytes) /\ Deltas \in Seq(Seq(Bytes))
  /\ Timeout \in Nat /\ Sizes \subseteq Nat

VARIABLES
  pc,                (* "outside" or "fetching", in the loop of Read       *)
  frag,              (* deltas copied into the buffer                      *)
  buf,               (* the buffer                                         *)
  size,              (* len(p) of the Read in progress                     *)
  p,                 (* the bytes written to p so far                      *)
  nFails, backoff,   (* the locals of Read                                 *)
  ret,               (* what the last Read returned                        *)
  published,         (* deltas the server has                              *)
  delivered,         (* history: the bytes returned by Read                *)
  torn               (* history: the body of a fragment was cut off        *)

vars == <<pc, frag, buf, size, p, nFails, backoff, ret, published, delivered, torn>>

Second == 16

(* NewReader, with the server having the fragments its sync announces.     *)
Init ==
  /\ pc = "outside" /\ frag = 0 /\ buf = Opening
  /\ size = 0 /\ p = << >> /\ nFails = 0 /\ backoff = Second
  /\ ret = [n |-> 0, err |-> "nil"]
  /\ published = 0 /\ delivered = << >> /\ torn = FALSE

Publish ==
  /\ published < Len(Deltas)
  /\ published' = published + 1
  /\ UNCHANGED <<pc, frag, buf, size, p, nFails, backoff, ret, delivered, torn>>

Return(bytes, err) ==
  /\ pc' = "outside"
  /\ ret' = [n |-> Len(bytes), err |-> err]
  /\ delivered' = delivered \o bytes

(* bytes.Buffer.Read takes what there is and is at EOF only when empty.    *)
Take(n) == SubSeq(buf, 1, IF n < Len(buf) THEN n ELSE Len(buf))

Drop(n) == SubSeq(buf, (IF n < Len(buf) THEN n ELSE Len(buf)) + 1, Len(buf))

Read(n) ==
  /\ pc = "outside"
  /\ size' = n /\ nFails' = 0 /\ backoff' = Second
  /\ IF buf = << >> /\ n > 0
     THEN pc' = "fetching" /\ p' = << >> /\ UNCHANGED <<buf, ret, delivered>>
     ELSE p' = Take(n) /\ buf' = Drop(n) /\ Return(p', "nil")
  /\ UNCHANGED <<frag, published, torn>>

(* http.Get fails.                                                         *)
GetFails ==
  /\ pc = "fetching"
  /\ Return(p, "error")
  /\ UNCHANGED <<frag, buf, size, p, nFails, backoff, published, torn>>

(* Any status but 200: the server lacks the fragment, or is in trouble.    *)
NotOK ==
  /\ pc = "fetching"
  /\ pc' = "sleeping"
  /\ UNCHANGED <<frag, buf, size, p, nFails, backoff, ret, published, delivered, torn>>

(* Values beyond Timeout are all the same to the code and the properties.  *)
Cap(time) == IF time > Timeout THEN Timeout + 1 ELSE time

GivesUp_Both == nFails' = 5 /\ backoff' > Timeout

GivesUp == nFails' = 5 \/ backoff' > Timeout

EndOfStream == "EOF"

(* After the sleep, the fifth failure of this Read or too long a backoff   *)
(* is the end; a success in between resets the backoff only.               *)
Wake ==
  /\ pc = "sleeping"
  /\ backoff' = Cap((backoff * 3) \div 2)
  /\ nFails' = IF nFails > 5 THEN nFails ELSE nFails + 1
  /\ IF GivesUp THEN Return(p, EndOfStream)
                ELSE pc' = "fetching" /\ UNCHANGED <<ret, delivered>>
  /\ UNCHANGED <<frag, buf, size, p, published, torn>>

Advance_UnlessFull == frag' = IF Len(p') = size THEN frag ELSE frag + 1

Advance == frag' = frag + 1

Space_Whole == size

Space == size - Len(p)

(* The loop goes on until p is full: the err of its body is not the one it *)
(* tests (a Read that shared them would return what the fragment has).     *)
Filled_Some == p' # << >>

Filled == Len(p') = size

(* 200: the fragment is copied into the buffer, and from there to p.       *)
Fetched ==
  /\ pc = "fetching" /\ frag < published
  /\ LET all == buf \o Deltas[frag + 1]
         n == IF Space < Len(all) THEN Space ELSE Len(all)
     IN  p' = p \o SubSeq(all, 1, n) /\ buf' = SubSeq(all, n + 1, Len(all))
  /\ Advance
  /\ backoff' = Second
  /\ IF Filled THEN Return(p', "nil") ELSE UNCHANGED <<pc, ret, delivered>>
  /\ UNCHANGED <<size, nFails, published, torn>>

(* The connection breaks while the body is copied: its bytes so far stay   *)
(* in the buffer.  Bound: once in a behaviour.                             *)
CutOff ==
  /\ pc = "fetching" /\ frag < published /\ ~torn
  /\ \E n \in 0 .. Len(Deltas[frag + 1]) - 1 :
       buf' = buf \o SubSeq(Deltas[frag + 1], 1, n) /\ torn' = (n > 0)
  /\ Return(p, "error")
  /\ UNCHANGED <<frag, size, p, nFails, backoff, published>>

Response == GetFails \/ NotOK \/ Fetched \/ CutOff

Next == Publish \/ (\E n \in Sizes : Read(n)) \/ Response \/ Wake

(* Every request is answered or fails, and every sleep ends.               *)
Spec == Init /\ [][Next]_vars /\ WF_vars(Response) /\ WF_vars(Wake)

-------------------------------------------------------------------------------
(* Properties.                                                             *)

(* The types; a Read stays within its slice.                               *)
TypeOK ==
  /\ pc \in {"outside", "fetching", "sleeping"}
  /\ frag \in 0 .. published /\ published \in 0 .. Len(Deltas)
  /\ {buf, p, delivered} \subseteq Seq(Bytes)
  /\ Len(p) <= size /\ nFails \in 0 .. 6 /\ backoff \in Nat
  /\ ret \in [n : Nat, err : {"nil", "EOF", "error"}] /\ torn \in BOOLEAN

(* The broadcast up to a delta.                                            *)
Broadcast[d \in 0 .. Len(Deltas)] ==
  IF d = 0 THEN Opening ELSE Broadcast[d - 1] \o Deltas[d]

(* What has been read and what is buffered are together the broadcast up   *)
(* to the fragment copied last: whatever the sizes of the slices, the      *)
(* retries and the Reads that failed half-way, no byte is lost, repeated   *)
(* or out of place - unless a body was cut off.                            *)
Contiguous ==
  ~torn => delivered \o (IF pc = "outside" THEN << >> ELSE p) \o buf = Broadcast[frag]

(* A Read that reports no error has read something (the caller would       *)
(* otherwise spin), and all of its slice if it had to fetch.               *)
Progress ==
  [][pc' = "outside" /\ ret'.err = "nil" /\ size' > 0 =>
       /\ ret'.n > 0
       /\ pc # "outside" => ret'.n = size']_vars

(* Every Read returns, though fragments may be empty or never come.        *)
ReadReturns == pc # "outside" ~> pc = "outside"
===============================================================================
