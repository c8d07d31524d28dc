------------------------- MODULE ManyToManyRelation -------------------------
(***************************************************************************)
(* What a many to many field promises to a session that uses it inside a   *)
(* transaction: each operation happens at one instant, entirely or not at  *)
(* all, on the set of related objects.                                     *)
(***************************************************************************)

CONSTANTS Sessions, Lefts, Rights,
          Requests,   \* what a session may ask for
          None        \* no request

VARIABLES
  links,    \* the objects related to each left object
  request,  \* what each session asks for
  reply     \* "idle", "pending", "ok", "true", "false" or "error"

vars == <<links, request, reply>>

Listed(q) == {q.data[k] : k \in DOMAIN q.data} \cap Rights

Effect(q, S) ==
  CASE q.op = "Set"    -> Listed(q)
    [] q.op = "Add"    -> S \cup Listed(q)
    [] q.op = "Remove" -> S \ Listed(q)
    [] q.op = "Empty"  -> {}
    [] q.op = "Has"    -> S

Init ==
  /\ links \in [Lefts -> SUBSET Rights]
  /\ request = [m \in Sessions |-> None]
  /\ reply = [m \in Sessions |-> "idle"]

Invoke(m, q) ==
  /\ reply[m] = "idle"
  /\ request' = [request EXCEPT ![m] = q]
  /\ reply' = [reply EXCEPT ![m] = "pending"]
  /\ UNCHANGED links

Perform(m) ==
  LET q == request[m] IN
  /\ reply[m] = "pending"
  /\ links' = [links EXCEPT ![q.left] = Effect(q, @)]
  /\ reply' = [reply EXCEPT ![m] =
                 IF q.op # "Has" THEN "ok"
                 ELSE IF Listed(q) \subseteq links[q.left] THEN "true" ELSE "false"]
  /\ UNCHANGED request

Refuse(m) ==
  /\ reply[m] = "pending"
  /\ reply' = [reply EXCEPT ![m] = "error"]
  /\ UNCHANGED <<links, request>>

Next ==
  \E m \in Sessions :
    \/ \E q \in Requests : Invoke(m, q)
    \/ Perform(m)
    \/ Refuse(m)

Spec == Init /\ [][Next]_vars
=============================================================================
