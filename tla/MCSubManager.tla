---------------------------- MODULE MCSubManager ----------------------------
(***************************************************************************)
(* An instance of SubManager for TLC: more names than slots, and a filter  *)
(* list longer than a slot holds.                                          *)
(***************************************************************************)
EXTENDS SubManager, TLC

CONSTANTS f, g

ShortAndLong == {<<>>, <<f>>, <<f, g>>}

Symmetric == Permutations(Conns) \cup Permutations(SubIds)

=============================================================================
