------------------------------ MODULE GrenadesMC ------------------------------
(* Who controls whom, for Grenades.                                        *)
EXTENDS Grenades

(* A person who controls a bot, and demo data that has it the other way    *)
(* round too.                                                              *)
Takeover == [p \in Players |-> IF p = "h" THEN "b" ELSE "h"]

(* Grenades of different families have no state in common.                 *)
Families == {{"HE", "Flash"}, {"Smoke", "Decoy"}, {"Molotov", "Incendiary"}}

NoTakeover == [p \in Players |-> Nil]
===============================================================================
