----------------------------- MODULE MCRegistry -----------------------------
(***************************************************************************)
(* The schema of MCTableRegistry, for the readers of its tables and with   *)
(* the ranks of the types that lead into no cycle.                         *)
(***************************************************************************)
EXTENDS MCTableRegistry, KeyChains, TableRegistryAcyclic

MCRank == [T1 |-> 0, T2 |-> 1, T3 |-> 2, T4 |-> 2, T7 |-> 3,
           Memo |-> 1, Band |-> 3, Twin |-> 0, Gone |-> 0]
=============================================================================
