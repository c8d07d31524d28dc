-------------------------------- MODULE Rows --------------------------------
(***************************************************************************)
(* Fetch and the Rows it returns (scrud.go, rows.go): consumers run a      *)
(* query on a pool of connections and read the result with one call of     *)
(* One, All, MapOne, MapAll or Row.  From the query until it is closed a   *)
(* Rows keeps its connection; the pool serves waiting consumers in order   *)
(* of arrival.  A result is broken when the connection fails after some    *)
(* rows: Next then returns false and Rows.Err tells why.                   *)
(***************************************************************************)
EXTENDS Integers, Sequences, FiniteSets

CONSTANTS
  Consumers,
  MaxOpen,    \* connections that the pool may open
  MaxRows,    \* bound on the rows of a result
  MaxCalls,   \* bound on the fetches of one consumer
  Old,        \* what a destination holds before the call
  Part        \* a destination with some fields of a row that failed

ASSUME RowsConstants == MaxOpen \in Nat \ {0} /\ {MaxRows, MaxCalls} \subseteq Nat

Collecting == {"All", "MapAll"}
Methods    == {"One", "MapOne", "Row"} \cup Collecting

(* A fetch: whether its query can be expanded, the method that reads it,   *)
(* and the destination given to it: fit, unfit (of a wrong kind, or        *)
(* without a column of the result), or a nil pointer to what would fit,    *)
(* which the Map methods take for a request of strings.                    *)
Fetches ==
  {f \in [expands : BOOLEAN, method : Methods, dest : {"fit", "unfit", "nil"}] :
     f.dest = "nil" => f.method \notin {"MapOne", "MapAll"}}

(* A result: its rows, the first of them that the destination cannot hold  *)
(* (0: none), and whether the connection fails after the last.             *)
Results == {r \in [rows : 0..MaxRows, odd : 0..MaxRows, broken : BOOLEAN] : r.odd <= r.rows}
Whole(r) == [k \in 1..r.rows |-> k]

(* The rows before the one that the destination cannot hold.               *)
Fitting(r) == IF r.odd = 0 THEN Whole(r) ELSE [k \in 1..(r.odd - 1) |-> k]

VARIABLES
  queue,    \* the consumers that wait for a connection
  holders,  \* the consumers whose Rows is not closed
  pc,       \* "idle", "queued", "open", "next" or "done"
  fetch,    \* the fetch of each consumer
  result,   \* what its query yields
  out,      \* the rows delivered to its destination
  err,      \* what its method returned
  calls     \* fetches it has begun

vars == <<queue, holders, pc, fetch, result, out, err, calls>>

NoFetch  == [expands |-> TRUE, method |-> "Row", dest |-> "fit"]
NoResult == [rows |-> 0, odd |-> 0, broken |-> FALSE]

Init ==
  /\ queue = <<>>
  /\ holders = {}
  /\ pc = [c \in Consumers |-> "idle"]
  /\ fetch = [c \in Consumers |-> NoFetch]
  /\ result = [c \in Consumers |-> NoResult]
  /\ out = [c \in Consumers |-> Old]
  /\ err = [c \in Consumers |-> "nil"]
  /\ calls = [c \in Consumers |-> 0]

Goto(c, s) == pc' = [pc EXCEPT ![c] = s]

Deliver(c, rows) == out' = [out EXCEPT ![c] = rows]

(* Bug: an error returns without closing.                                  *)
ReturnsUnclosed(c, e) ==
  /\ Goto(c, "done")
  /\ err' = [err EXCEPT ![c] = e]
  /\ holders' = IF e = "error" THEN holders ELSE holders \ {c}

(* The method returns e, and its deferred Close has released the           *)
(* connection unless Next did when it returned false.                      *)
Returns(c, e) ==
  /\ Goto(c, "done")
  /\ err' = [err EXCEPT ![c] = e]
  /\ holders' = holders \ {c}

-----------------------------------------------------------------------------
(* Fetch.  A query that cannot be expanded gives a Rows that only holds    *)
(* the error, which its methods return.                                    *)
Fetch(c, f) ==
  /\ pc[c] \in {"idle", "done"}
  /\ calls[c] < MaxCalls
  /\ calls' = [calls EXCEPT ![c] = @ + 1]
  /\ fetch' = [fetch EXCEPT ![c] = f]
  /\ Deliver(c, Old)
  /\ IF f.expands
     THEN Goto(c, "queued") /\ queue' = Append(queue, c) /\ UNCHANGED err
     ELSE Goto(c, "done") /\ err' = [err EXCEPT ![c] = "error"] /\ UNCHANGED queue
  /\ UNCHANGED <<holders, result>>

(* Bug: the pool has no limit.                                             *)
ConnectUnlimited(c) ==
  /\ queue # <<>> /\ Head(queue) = c
  /\ queue' = Tail(queue)
  /\ \/ \E r \in Results : result' = [result EXCEPT ![c] = r]
     \/ UNCHANGED result
  /\ holders' = holders \cup {c}
  /\ Goto(c, "open")
  /\ UNCHANGED <<fetch, out, err, calls>>

(* The pool serves the first consumer in the queue, and its query yields a *)
(* result or fails.  Rows.Columns fails only once the sql.Rows is closed,  *)
(* so its error too leaves the connection with the pool.                   *)
Connect(c) ==
  /\ queue # <<>> /\ Head(queue) = c
  /\ Cardinality(holders) < MaxOpen
  /\ queue' = Tail(queue)
  /\ \/ /\ \E r \in Results : result' = [result EXCEPT ![c] = r]
        /\ holders' = holders \cup {c}
        /\ Goto(c, "open")
        /\ UNCHANGED err
     \/ /\ Returns(c, "error")
        /\ UNCHANGED result
  /\ UNCHANGED <<fetch, out, calls>>

(* Scanning row k into the destination.                                    *)
Scan(c, k) ==
  IF fetch[c].dest = "nil" /\ fetch[c].method = "One" THEN "panic"
  ELSE IF fetch[c].dest # "fit" \/ result[c].odd = k THEN "error" ELSE "nil"

(* The scan writes column after column, straight into what Row was given   *)
(* and, once its columns are found, into the struct of One: it may fail    *)
(* after the first.  MapOne scans into values of its own.                  *)
HalfWritten(c) ==
  \/ fetch[c].method = "Row"
  \/ fetch[c].method = "One" /\ fetch[c].dest = "fit"

(* One, MapOne and Row: the first Next, and when it finds a row the scan,  *)
(* which is where the destination is looked at.                            *)
ReadOne(c) ==
  /\ pc[c] = "open"
  /\ fetch[c].method \notin Collecting
  /\ IF result[c].rows = 0
     THEN Returns(c, "no rows") /\ UNCHANGED out
     ELSE /\ Returns(c, Scan(c, 1))
          /\ IF Scan(c, 1) = "nil"
             THEN Deliver(c, <<1>>)
             ELSE UNCHANGED out \/ (HalfWritten(c) /\ Deliver(c, Part))
  /\ UNCHANGED <<queue, fetch, result, calls>>

(* Bug: All empties the slice before it looks at the columns.              *)
CheckAllLate(c) ==
  /\ pc[c] = "open"
  /\ fetch[c].method \in Collecting
  /\ Deliver(c, <<>>)
  /\ IF fetch[c].dest = "fit" THEN Goto(c, "next") /\ UNCHANGED <<holders, err>>
                              ELSE Returns(c, "error")
  /\ UNCHANGED <<queue, fetch, result, calls>>

(* All and MapAll look at the destination first; then All empties the      *)
(* slice it was given, and MapAll starts with an empty one.                *)
CheckAll(c) ==
  /\ pc[c] = "open"
  /\ fetch[c].method \in Collecting
  /\ IF fetch[c].dest = "fit"
     THEN Goto(c, "next") /\ Deliver(c, <<>>) /\ UNCHANGED <<holders, err>>
     ELSE Returns(c, "error") /\ UNCHANGED out
  /\ UNCHANGED <<queue, fetch, result, calls>>

(* One turn of their loop: a row is appended, or cannot be scanned.  After *)
(* an error MapAll returns nothing, All leaves what it has.                *)
NextRow(c) ==
  LET k == Len(out[c]) + 1 IN
  /\ pc[c] = "next"
  /\ k <= result[c].rows
  /\ IF result[c].odd = k
     THEN /\ Returns(c, "error")
          /\ IF fetch[c].method = "MapAll" THEN Deliver(c, Old) ELSE UNCHANGED out
     ELSE Deliver(c, Append(out[c], k)) /\ UNCHANGED <<pc, holders, err>>
  /\ UNCHANGED <<queue, fetch, result, calls>>

(* Bug: the loop ends without asking Rows.Err.                             *)
NextEndsUnasked(c) ==
  /\ pc[c] = "next"
  /\ Len(out[c]) = result[c].rows
  /\ Returns(c, "nil")
  /\ UNCHANGED <<queue, fetch, result, out, calls>>

(* Next returns false, at the end or where the connection failed.          *)
NextEnds(c) ==
  /\ pc[c] = "next"
  /\ Len(out[c]) = result[c].rows
  /\ Returns(c, IF result[c].broken THEN "error" ELSE "nil")
  /\ IF result[c].broken /\ fetch[c].method = "MapAll" THEN Deliver(c, Old) ELSE UNCHANGED out
  /\ UNCHANGED <<queue, fetch, result, calls>>

Step(c) ==
  \/ Connect(c)
  \/ ReadOne(c)
  \/ CheckAll(c)
  \/ NextRow(c)
  \/ NextEnds(c)

Next == \E c \in Consumers : Step(c) \/ \E f \in Fetches : Fetch(c, f)

Spec == Init /\ [][Next]_vars

(* The pool hands a free connection to the first in its queue, and a       *)
(* method that has started does not wait for anything but its connection.  *)
FairSpec == Spec /\ \A c \in Consumers : WF_vars(Step(c))

-----------------------------------------------------------------------------
TypeOK ==
  /\ queue \in Seq(Consumers)
  /\ \A j, k \in DOMAIN queue : queue[j] = queue[k] => j = k
  /\ holders \subseteq Consumers /\ Cardinality(holders) <= MaxOpen
  /\ pc \in [Consumers -> {"idle", "queued", "open", "next", "done"}]
  /\ fetch \in [Consumers -> Fetches]
  /\ result \in [Consumers -> Results]
  /\ out \in [Consumers -> {Old, Part} \cup Seq(Nat)]
  /\ err \in [Consumers -> {"nil", "error", "no rows", "panic"}]
  /\ calls \in [Consumers -> 0..MaxCalls]

(* Whatever way a method returns, an error or a panic too, the connection  *)
(* is back in the pool, and nobody who waits holds one.                    *)
ClosedOnReturn ==
  \A c \in Consumers : pc[c] \in {"queued", "done"} => c \notin holders

(* A method that returned nil has delivered what the query yielded: All    *)
(* and MapAll every row in order, of a result that was not cut short; the  *)
(* others the first row.                                                   *)
NilMeansAll ==
  \A c \in Consumers :
    pc[c] = "done" /\ err[c] = "nil" =>
      IF fetch[c].method \in Collecting
      THEN out[c] = Whole(result[c]) /\ ~result[c].broken
      ELSE out[c] = <<1>>

(* What a method that did not return nil leaves in the destination: what   *)
(* it held; of All, whose loop has begun, the rows before the one that     *)
(* does not fit, or all that came before the connection failed; of One and *)
(* Row perhaps a piece of a row, but One only where every column has its   *)
(* field.  In particular a slice whose struct lacks a column of the result *)
(* keeps its contents, and so does whatever is given for no rows.          *)
ErrorLeft(c) ==
  \/ out[c] = Old
  \/ /\ fetch[c].method = "All" /\ fetch[c].dest = "fit"
     /\ result[c].odd # 0 \/ result[c].broken
     /\ out[c] = Fitting(result[c])
  \/ /\ HalfWritten(c)
     /\ err[c] = "error"
     /\ out[c] = Part

ErrorKeepsRows == \A c \in Consumers : pc[c] = "done" /\ err[c] # "nil" => ErrorLeft(c)

(* Every fetch gets its connection and returns, however many consumers     *)
(* share the pool: a method holds no connection while it waits for one.    *)
Served == \A c \in Consumers : pc[c] = "queued" ~> pc[c] = "done"
=============================================================================
