------------------------------- MODULE WeaponsMC -------------------------------
(* The types of two weapons, for Weapons: an entity ID may get another type.*)
EXTENDS Weapons

TwoTypes == [v |-> {"Ak47"}, w |-> {"Ak47", "Awp"}]
===============================================================================
