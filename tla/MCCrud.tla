------------------------------- MODULE MCCrud -------------------------------
(***************************************************************************)
(* Two clients with the contents c and d; argument lists for Select and    *)
(* Update: none, one column included, the auto_now column excluded, one    *)
(* that is not found, the relation to many.                                *)
(***************************************************************************)
EXTENDS Crud, TLC

CONSTANTS a, b, c, d

MCClients == {a, b}
MCData    == (a :> c) @@ (b :> d)

MCSelections ==
  {[exclude |-> FALSE, names |-> {}],
   [exclude |-> FALSE, names |-> {"data"}],
   [exclude |-> FALSE, names |-> {"ref", "added"}],
   [exclude |-> TRUE,  names |-> {"now"}],
   [exclude |-> FALSE, names |-> {"unknown"}],
   [exclude |-> TRUE,  names |-> {"data", "many"}]}

MCStartRows ==
  {[data |-> c, ref |-> Null, added |-> 0, now |-> 0],
   [data |-> d, ref |-> 1, added |-> 0, now |-> 0]}
=============================================================================
