------------------------------- MODULE PlayersMC -------------------------------
(* How often people join, for Players.                                     *)
EXTENDS Players

(* A bot that came back under its name would leave two raw players of it.  *)
BotsOnce == [w \in People |-> IF w \in Bots THEN 1 ELSE 2]

Twice == [w \in People |-> 2]
===============================================================================
