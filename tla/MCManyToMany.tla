---------------------------- MODULE MCManyToMany ----------------------------
(***************************************************************************)
(* Argument lists for ManyToMany: none, one, two, one twice, a bad one.    *)
(***************************************************************************)
EXTENDS ManyToMany, TLC

CONSTANTS r1, r2

MCRights   == {r1, r2}
MCArgLists == {<<>>, <<r1>>, <<r2>>, <<r1, r2>>, <<r1, r1>>, <<r1, Bad>>}

Symmetry == Permutations(Sessions) \cup Permutations(Lefts)
=============================================================================
