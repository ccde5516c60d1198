--------------------------- MODULE StringTablesMC ---------------------------
(***************************************************************************)
(* Keys for StringTables: the classes 4 and 42 and a variant of 4, written *)
(* as sequences of digits, 10 standing for the colon.                      *)
(***************************************************************************)
EXTENDS StringTables

FewClassKeys == {<<4>>, <<4, 2>>}
FewOtherKeys == {<<4, 10, 1>>}
=============================================================================
