----------------------------- MODULE EntityTableMC -----------------------------
(* One class, whose created handler binds the first property, for          *)
(* EntityTable.                                                            *)
EXTENDS EntityTable, TLC

CONSTANTS Player

OneBound == Player :> {1}
===============================================================================
