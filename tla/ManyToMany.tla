----------------------------- MODULE ManyToMany -----------------------------
(***************************************************************************)
(* The manager of a many to many field (many_to_many.go).  The relation is *)
(* kept in a join table, or a through table, of which only the two columns *)
(* that the manager names matter: a bag of pairs <<left, right>>.          *)
(*                                                                         *)
(* Sessions are goroutines, each with a manager of its own.  A manager     *)
(* computes every argument before it runs a statement; it runs at most two *)
(* of them, and between two statements other sessions may run theirs.      *)
(* With InTx each session wraps its operation in a transaction, which it   *)
(* commits when the operation returns nil and rolls back otherwise; the    *)
(* transactions are serialised by the database.                            *)
(***************************************************************************)
EXTENDS Integers, Sequences, FiniteSets

CONSTANTS
  Sessions,   \* goroutines that use a manager of the field
  Lefts,      \* primary keys of the field's struct
  Rights,     \* primary keys of the related struct
  Bad,        \* an argument that is nil or of another type
  None,       \* no session, no request
  ArgLists,   \* the data arguments that the operations are called with
  UniqueKey,  \* the join table has a unique key on the pair
  InTx,       \* the sessions use transactions
  Reliable    \* no statement fails for a reason outside the library

Pairs == Lefts \X Rights

ASSUME ArgListsAssumption == ArgLists \subseteq Seq(Rights \cup {Bad})
ASSUME ManyToManyConstants ==
  /\ {UniqueKey, InTx, Reliable} \subseteq BOOLEAN
  /\ Bad \notin Rights
  /\ None \notin Sessions

Ops == {"Set", "Add", "Remove", "Empty", "Has"}
Requests ==
  {q \in [op : Ops, left : Lefts, data : ArgLists] :
     /\ q.op = "Empty" => q.data = <<>>
     /\ q.op = "Has" => Len(q.data) = 1}
ASSUME NoneAssumption == None \notin Requests

VARIABLES
  join,     \* how many rows the table holds of each pair
  tx,       \* the session whose transaction is open
  saved,    \* the table as it was when that transaction began
  request,  \* the operation of each session
  pc,       \* the next statement of each session, or how its operation ended
  before,   \* the table when the operation began (history)
  alone     \* no other session has written since then (history)

vars == <<join, tx, saved, request, pc, before, alone>>

Ended == {"ok", "true", "false", "error"}
Statements == {"empty", "insert", "remove", "count"}

Init ==
  /\ join \in [Pairs -> 0..(IF UniqueKey THEN 1 ELSE 2)]
  /\ tx = None
  /\ saved = join
  /\ request = [m \in Sessions |-> None]
  /\ pc = [m \in Sessions |-> "idle"]
  /\ before = [m \in Sessions |-> join]
  /\ alone = [m \in Sessions |-> TRUE]

Goto(m, s) == pc' = [pc EXCEPT ![m] = s]

-----------------------------------------------------------------------------
(* The values of a statement that were computed from the arguments.        *)
Occurs(q, r) == Cardinality({k \in 1..Len(q.data) : q.data[k] = r})
Valid(q)     == \A k \in 1..Len(q.data) : q.data[k] \in Rights

(* Bug: a DELETE without the left key.                                     *)
EmptiedAll(q) == [p \in Pairs |-> 0]

(* Bug: one row is deleted for each argument.                              *)
RemovedOne(q) == [p \in Pairs |-> IF p[1] = q.left THEN join[p] - Occurs(q, p[2]) ELSE join[p]]

(* The four statements.  A DELETE or COUNT is restricted to the left key   *)
(* of the manager; Has is true when exactly one row is counted.            *)
Emptied(q)  == [p \in Pairs |-> IF p[1] = q.left THEN 0 ELSE join[p]]
Removed(q)  == [p \in Pairs |-> IF p[1] = q.left /\ Occurs(q, p[2]) > 0 THEN 0 ELSE join[p]]
Inserted(q) == [p \in Pairs |-> IF p[1] = q.left THEN join[p] + Occurs(q, p[2]) ELSE join[p]]
Has(q)      == join[<<q.left, q.data[1]>>] = 1

(* The database refuses a violation of the unique key, and an IN list that *)
(* is empty; an INSERT without values is refused before it is sent.        *)
Refused(q, s) ==
  \/ s = "insert" /\ Len(q.data) = 0
  \/ s = "insert" /\ UniqueKey /\ \E p \in Pairs : Inserted(q)[p] > 1
  \/ s = "remove" /\ Len(q.data) = 0

(* A session may run a statement unless another's transaction is open.     *)
MayRun(m) == tx = (IF InTx THEN m ELSE None)

(* Bug: Set does not empty the relation first.                             *)
FirstStatementInsert(q) ==
  CASE q.op = "Empty"          -> "empty"
    [] q.op \in {"Set", "Add"} -> "insert"
    [] q.op = "Remove"         -> "remove"
    [] q.op = "Has"            -> "count"

FirstStatement(q) ==
  CASE q.op \in {"Set", "Empty"} -> "empty"
    [] q.op = "Add"    -> "insert"
    [] q.op = "Remove" -> "remove"
    [] q.op = "Has"    -> "count"

(* Bug: Set empties the relation before it looks at its arguments.         *)
BeginUnchecked(m, q) ==
  /\ pc[m] = "idle"
  /\ InTx => tx = None
  /\ tx' = IF InTx THEN m ELSE None
  /\ saved' = IF InTx THEN join ELSE saved
  /\ request' = [request EXCEPT ![m] = q]
  /\ before' = [before EXCEPT ![m] = join]
  /\ alone' = [alone EXCEPT ![m] = TRUE]
  /\ Goto(m, FirstStatement(q))
  /\ UNCHANGED join

(* The session begins an operation, in a transaction of its own if it uses *)
(* them: the manager fails at once on a bad argument.                      *)
Begin(m, q) ==
  /\ pc[m] = "idle"
  /\ InTx => tx = None
  /\ tx' = IF InTx THEN m ELSE None
  /\ saved' = IF InTx THEN join ELSE saved
  /\ request' = [request EXCEPT ![m] = q]
  /\ before' = [before EXCEPT ![m] = join]
  /\ alone' = [alone EXCEPT ![m] = TRUE]
  /\ Goto(m, IF Valid(q) THEN FirstStatement(q) ELSE "error")
  /\ UNCHANGED join

(* Statement s of the session leaves the rows as "rows", and the operation *)
(* goes on to "next".                                                      *)
Write(m, rows) ==
  /\ join' = rows
  /\ alone' = [n \in Sessions |-> alone[n] /\ (n = m \/ join' = join)]

Statement(m, s, rows, next) ==
  /\ pc[m] = s
  /\ MayRun(m)
  /\ ~Refused(request[m], s)
  /\ Write(m, rows)
  /\ Goto(m, next)
  /\ UNCHANGED <<tx, saved, request, before>>

Empty(m) ==
  Statement(m, "empty", Emptied(request[m]),
            IF request[m].op = "Set" THEN "insert" ELSE "ok")

Insert(m) == Statement(m, "insert", Inserted(request[m]), "ok")
Remove(m) == Statement(m, "remove", Removed(request[m]), "ok")
Count(m)  == Statement(m, "count", join, IF Has(request[m]) THEN "true" ELSE "false")

(* Bug: a refused statement is tried again.                                *)
StatementRetried(m) ==
  /\ pc[m] \in Statements
  /\ MayRun(m)
  /\ Refused(request[m], pc[m])
  /\ UNCHANGED vars

(* A statement fails and the operation returns the error at once; what the *)
(* first statement of a Set did stays done.                                *)
StatementRefused(m) ==
  /\ pc[m] \in Statements
  /\ MayRun(m)
  /\ Refused(request[m], pc[m])
  /\ Goto(m, "error")
  /\ UNCHANGED <<join, tx, saved, request, before, alone>>

(* The connection breaks before the statement runs, or after.              *)
StatementLost(m) ==
  /\ ~Reliable
  /\ pc[m] \in Statements
  /\ MayRun(m)
  /\ ~Refused(request[m], pc[m])
  /\ \/ Write(m, join)
     \/ pc[m] = "empty"  /\ Write(m, Emptied(request[m]))
     \/ pc[m] = "insert" /\ Write(m, Inserted(request[m]))
     \/ pc[m] = "remove" /\ Write(m, Removed(request[m]))
  /\ Goto(m, "error")
  /\ UNCHANGED <<tx, saved, request, before>>

(* Bug: the transaction is committed although the operation failed.        *)
EndTxCommitting(m) ==
  /\ tx = m
  /\ pc[m] \in Ended
  /\ tx' = None
  /\ UNCHANGED <<join, saved, request, pc, before, alone>>

(* The operation has ended: the session ends its transaction.              *)
EndTx(m) ==
  /\ tx = m
  /\ pc[m] \in Ended
  /\ tx' = None
  /\ Write(m, IF pc[m] = "error" THEN saved ELSE join)
  /\ UNCHANGED <<saved, request, pc, before>>

Step(m) ==
  \/ Empty(m)
  \/ Insert(m)
  \/ Remove(m)
  \/ Count(m)
  \/ StatementRefused(m)
  \/ StatementLost(m)
  \/ EndTx(m)

Next == \E m \in Sessions : Step(m) \/ \E q \in Requests : Begin(m, q)

Spec == Init /\ [][Next]_vars

(* A session that has begun goes on; a database gives every session that   *)
(* asks for a transaction its turn.                                        *)
FairSpec == Spec /\ \A m \in Sessions : WF_vars(Step(m))

-----------------------------------------------------------------------------
TypeOK ==
  /\ join \in [Pairs -> Nat]
  /\ saved \in [Pairs -> Nat]
  /\ tx \in Sessions \cup {None}
  /\ request \in [Sessions -> Requests \cup {None}]
  /\ pc \in [Sessions -> {"idle"} \cup Statements \cup Ended]
  /\ before \in [Sessions -> [Pairs -> Nat]]
  /\ alone \in [Sessions -> BOOLEAN]
  /\ \A m \in Sessions : pc[m] # "idle" => request[m] # None

(* What an operation on rows "old" leaves when every statement succeeds.   *)
Result(q, old) ==
  [p \in Pairs |->
     IF p[1] # q.left \/ q.op = "Has" THEN old[p]
     ELSE CASE q.op = "Set"    -> Occurs(q, p[2])
            [] q.op = "Add"    -> old[p] + Occurs(q, p[2])
            [] q.op = "Remove" -> IF Occurs(q, p[2]) > 0 THEN 0 ELSE old[p]
            [] q.op = "Empty"  -> 0]

(* An operation that returned nil, with no other writer since it began,    *)
(* has replaced, added, removed or emptied exactly what it was asked to:   *)
(* Set leaves no other pair of the object, Remove deletes every copy.      *)
Postcondition ==
  \A m \in Sessions :
    pc[m] = "ok" /\ alone[m] => join = Result(request[m], before[m])

(* Has answers whether the pair is in the relation, however often it was   *)
(* added: "check relation", as the package comment says of it.             *)
HasCorrect ==
  \A m \in Sessions :
    pc[m] \in {"true", "false"} /\ alone[m] =>
      (pc[m] = "true" <=> join[<<request[m].left, request[m].data[1]>>] > 0)

(* An operation that returned an error has left the relation as it was or  *)
(* carried it all out (the answer was lost), except that a Set may have    *)
(* lost the old pairs without having added the new.  An argument that is   *)
(* nil or of another type costs nothing: set and Remove look at all of     *)
(* them before they send a statement.                                      *)
ErrorLeaves ==
  \A m \in Sessions :
    LET q == request[m] IN
    pc[m] = "error" /\ alone[m] =>
      \/ join = before[m]
      \/ Valid(q) /\ ~Reliable /\ join = Result(q, before[m])
      \/ Valid(q) /\ q.op = "Set" /\ join = Result([q EXCEPT !.op = "Empty"], before[m])

(* When only Sets ran on an object and all of them returned nil, at least  *)
(* one is there entirely, and nothing is there that none of them listed:   *)
(* two Sets may add up, but neither undoes half of the other, and no old   *)
(* pair survives.                                                          *)
Related(l)  == {r \in Rights : join[<<l, r>>] > 0}
Listed(q)   == {q.data[k] : k \in 1..Len(q.data)}
On(l)       == {m \in Sessions : pc[m] # "idle" /\ request[m].left = l}
ConcurrentSets ==
  \A l \in Lefts :
    On(l) # {} /\ (\A m \in On(l) : request[m].op = "Set" /\ pc[m] = "ok") =>
      /\ \E m \in On(l) : Listed(request[m]) \subseteq Related(l)
      /\ Related(l) \subseteq UNION {Listed(request[m]) : m \in On(l)}

(* A session changes only the rows of the object that its manager is for.  *)
OtherObjectsKept ==
  [][\A p \in Pairs : join'[p] # join[p] =>
       \E m \in Sessions : /\ pc'[m] # pc[m] \/ tx' # tx
                           /\ request[m] # None /\ request[m].left = p[1]]_vars

(* Every operation ends, with InTx even its transaction, in whatever order *)
(* the sessions run.                                                       *)
Termination ==
  \A m \in Sessions : pc[m] # "idle" ~> pc[m] \in Ended /\ tx # m

-----------------------------------------------------------------------------
(* In transactions the manager is an atomic relation: an operation happens *)
(* when its transaction commits.                                           *)
Committed == IF tx = None THEN join ELSE saved

Relation == INSTANCE ManyToManyRelation WITH
  links   <- [l \in Lefts |-> {r \in Rights : Committed[<<l, r>>] > 0}],
  request <- request,
  reply   <- [m \in Sessions |->
                IF tx = m \/ pc[m] \in Statements THEN "pending" ELSE pc[m]]

(* No other session sees a relation half changed, and an error means that  *)
(* nothing was changed.                                                    *)
RefinesRelation == Relation!Spec
=============================================================================
