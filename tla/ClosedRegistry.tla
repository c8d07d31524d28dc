--------------------------- MODULE ClosedRegistry ---------------------------
(***************************************************************************)
(* What a metadata registry promises for types whose relations lead into   *)
(* no cycle: a type becomes known only once every type it refers to is     *)
(* known, so whoever finds a table can follow its relations to the end,    *)
(* and a type that is known stays known.                                   *)
(***************************************************************************)
CONSTANTS Types, Targets   \* Targets[t]: the types that t refers to

VARIABLE known

Init == known = {}

Learn(t) ==
  /\ t \notin known
  /\ Targets[t] \subseteq known
  /\ known' = known \cup {t}

Next == \E t \in Types : Learn(t)

Spec == Init /\ [][Next]_known
=============================================================================
