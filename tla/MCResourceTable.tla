-------------------------- MODULE MCResourceTable --------------------------
(* Instances of ResourceTable for TLC. *)
EXTENDS ResourceTable, TLC

CONSTANTS o1, o2

Lists == {<<o1>>, <<o1, o2>>, <<o2, o2>>}

\* The host hands out any free index.
AnyIndex == Permutations(Indices)
=============================================================================
