-------------------------------- MODULE BombMC --------------------------------
(* The demos of Bomb: of a server, and of the points of view of two players *)
EXTENDS Bomb

AllPovs == {{}, {"a"}, {"c"}}
===============================================================================
