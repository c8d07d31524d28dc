------------------------------- MODULE MCRows -------------------------------
(***************************************************************************)
(* What a destination holds at first, one element, and a row half written. *)
(***************************************************************************)
EXTENDS Rows

MCOld == <<0>>
MCPart == <<0, 1>>
=============================================================================
