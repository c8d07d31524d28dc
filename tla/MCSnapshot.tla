----------------------------- MODULE MCSnapshot -----------------------------
(* Constants for Snapshot. *)
EXTENDS Snapshot, TLC

CONSTANTS c1, c2
MCClients == {c1, c2}
Symmetry  == Permutations(MCClients)

(* Zero and one other value of each type, the largest for Int8.            *)
Other(t) == CASE t = "String" -> Text("word", 1)
              [] t \in Floats -> Number(3)
              [] t = "Int8"   -> Number(254)
              [] OTHER        -> Number(2)

MCStructs ==
  [t \in ZeroTypes |-> {[Z |-> ZeroOf(t), Doc |-> "d1", Ref |-> 1],
                        [Z |-> Other(t), Doc |-> "d2", Ref |-> NoRef]}]

(* What does not fit Int8, is no integer, is NULL.                         *)
MCForeign == {Driver("int64", Number(256)), Driver("float64", Number(3)), NilValue}

MCSelections == {<<>>, <<"Doc">>, <<"-", "Ref">>, <<"Many">>}
=============================================================================
