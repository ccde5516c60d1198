---------------------------- MODULE EntityFieldsMC ----------------------------
(***************************************************************************)
(* A small class for EntityFields: a table <0> with a scalar and an array  *)
(* of scalars, and an array <2> of tables with one scalar. <1> is never    *)
(* written; the indexes are such that a slice has to grow where set        *)
(* reaches it.                                                             *)
(***************************************************************************)
EXTENDS EntityFields

SmallScalars ==
    {<<0, 0>>} \cup {<<0, 1, i>> : i \in 0..(MaxLength - 1)}
               \cup {<<2, i, 0>> : i \in 0..(MaxLength - 1)}
SmallFlags == {<<0>>}
SmallCollections == {<<0, 1>>, <<2>>}
=============================================================================
