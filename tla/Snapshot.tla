------------------------------ MODULE Snapshot ------------------------------
(***************************************************************************)
(* The snapshot manager (snapshot.go).  Insert stores the columns of a     *)
(* struct and the time as a new row of the snapshot table; Select reads    *)
(* some of them back, by the number of the row; Delete removes the row.    *)
(*                                                                         *)
(* Every client has one struct and runs its operations one after another.  *)
(* An operation is two steps: what happens until its statement is sent,    *)
(* and the statement with all that follows.  Between the two other clients *)
(* run, and any other program may write to column Z of a row.  The clients *)
(* also copy structs through StructToMap and MapToStruct.                  *)
(***************************************************************************)
EXTENDS StructColumns

CONSTANTS
  Clients,
  TypesOfZ,    \* the zero types that column Z may have
  Structs,     \* Structs[type]: the structs that the clients start with
  Foreign,     \* what another program writes to column Z of a row
  Selections,  \* the lists of columns of Select and StructToMap
  Broken,      \* what a row's Doc holds when it cannot be decoded
  None,        \* no statement, no row, no result
  Postgres,    \* the driver is that of postgres
  Reliable,    \* no statement and no answer is lost
  Ids,         \* bound on the rows: 1..n
  MaxOps,      \* bound on the operations
  MaxClock     \* bound on the clock

(* The rows of the snapshot table.                                         *)
Row == [time : Nat, Z : DriverValues, Doc : Docs \cup {Broken}, Ref : Keys \cup {Null}]

ASSUME SnapshotConstants ==
  /\ TypesOfZ \subseteq ZeroTypes
  /\ {Postgres, Reliable} \subseteq BOOLEAN
  /\ \A t \in TypesOfZ : \A s \in Structs[t] :
       s \in Struct /\ IsValue(t, s.Z)
  /\ \A d \in Foreign : IsDriver(d) /\ d.kind \notin {"bool", "time"}
  /\ Broken \notin Docs /\ None \notin Row
  /\ \A n \in Ids : n \in Nat \ {0} /\ 1..n \subseteq Ids

VARIABLES
  type,     \* the zero type of column Z
  now,      \* the clock
  structs,  \* the struct of each client
  rows,     \* the snapshot table
  stored,   \* history: the rows as Insert stored them
  stmt,     \* the operation of each client whose statement is under way
  res,      \* how the last operation of each client ended
  ops       \* operations so far

vars == <<type, now, structs, rows, stored, stmt, res, ops>>

Init ==
  /\ type \in TypesOfZ
  /\ now = 1
  /\ structs \in [Clients -> Structs[type]]
  /\ rows = [n \in Ids |-> None]
  /\ stored = rows
  /\ stmt = [c \in Clients |-> None]
  /\ res = [c \in Clients |-> None]
  /\ ops = 0

Tick ==
  /\ now < MaxClock
  /\ now' = now + 1
  /\ UNCHANGED <<type, structs, rows, stored, stmt, res, ops>>

(* A client may operate on its struct.                                     *)
Free(c) == stmt[c] = None
MayOperate(c) == Free(c) /\ ops < MaxOps /\ ops' = ops + 1

(* The statement of such an operation is carried out, or lost.             *)
Runs(c, op) == ~Free(c) /\ stmt[c].op = op /\ ops' = ops

(* How an operation ends; "at" tells one end from the next.                *)
End(c, op, n, t, err) ==
  /\ res' = [res EXCEPT ![c] = [op |-> op, n |-> n, time |-> t, err |-> err, at |-> ops']]
  /\ stmt' = [stmt EXCEPT ![c] = None]

Send(c, s) ==
  /\ stmt' = [stmt EXCEPT ![c] = s]
  /\ res' = [res EXCEPT ![c] = None]

-----------------------------------------------------------------------------
(* What the time column of a row keeps of a time: whole seconds, that is   *)
(* every second tick, unless the driver is postgres.                       *)
Kept(t) == IF Postgres THEN t ELSE t - (t % 2)

(* Insert takes the time, as exact as the clock has it, and the values,    *)
(* and makes the statement.                                                *)
BeginInsert(c) ==
  /\ MayOperate(c)
  /\ Send(c, [op |-> "insert", n |-> 0, columns |-> <<>>,
              row |-> [time |-> now, Z |-> Value(type, structs[c].Z),
                       Doc |-> structs[c].Doc, Ref |-> RefValue(structs[c])]])
  /\ UNCHANGED <<type, now, structs, rows, stored>>

Unused == {n \in Ids : stored[n] = None /\ n - 1 \in {0} \cup {k \in Ids : stored[k] # None}}

Stored(c, n) ==
  /\ rows' = [rows EXCEPT ![n] = [stmt[c].row EXCEPT !.time = Kept(@)]]
  /\ stored' = [stored EXCEPT ![n] = rows'[n]]

Insert(c) ==
  /\ Runs(c, "insert")
  /\ \E n \in Unused : Stored(c, n) /\ End(c, "insert", n, stmt[c].row.time, "")
  /\ UNCHANGED <<type, now, structs>>

(* Bug: the error is dropped for every driver.                             *)
InsertLostDropped(c) ==
  /\ ~Reliable
  /\ Runs(c, "insert")
  /\ UNCHANGED <<rows, stored>> \/ \E n \in Unused : Stored(c, n)
  /\ End(c, "insert", 0, stmt[c].row.time, "")
  /\ UNCHANGED <<type, now, structs>>

(* The statement or its answer is lost.  For postgres the error is that of *)
(* an inner err, and the outer one, which is returned, is nil.             *)
InsertLost(c) ==
  /\ ~Reliable
  /\ Runs(c, "insert")
  /\ UNCHANGED <<rows, stored>> \/ \E n \in Unused : Stored(c, n)
  /\ IF Postgres THEN End(c, "insert", 0, stmt[c].row.time, "") ELSE End(c, "insert", 0, 0, "lost")
  /\ UNCHANGED <<type, now, structs>>

-----------------------------------------------------------------------------
(* Select looks its columns up, and allocates a nil Ref that it will scan. *)
BeginSelect(c, n, columns) ==
  /\ MayOperate(c)
  /\ \/ /\ Wrong(columns)
        /\ End(c, "select", n, 0, "columns")
        /\ UNCHANGED structs
     \/ /\ ~Wrong(columns)
        /\ structs' = [structs EXCEPT ![c] = Allocated(@, Chosen(columns))]
        /\ Send(c, [op |-> "select", n |-> n, columns |-> columns, row |-> None])
  /\ UNCHANGED <<type, now, rows, stored>>

(* What a driver may give for a stored value: the value, the text of it,   *)
(* and for a truth value a number.                                         *)
Given(d) ==
  {d} \cup (IF d.kind \in {"int64", "float64"} THEN {Driver("text", AsText(d))} ELSE {})
      \cup (IF d.kind = "bool" THEN {Driver("int64", d.v), Driver("text", Text("int", d.v.n))} ELSE {})

(* The columns are scanned in order, up to the first that refuses: Z       *)
(* through Scan, Ref into the key of its struct, Doc as bytes.  Doc is     *)
(* decoded and set when all are scanned.                                   *)
Read(s, row, chosen, d) ==
  LET z    == IF "Z" \in chosen THEN ConvertAssign(type, d)
              ELSE [ok |-> TRUE, set |-> FALSE, v |-> s.Z]
      refs == "Ref" \notin chosen \/ row.Ref # Null
      docs == "Doc" \notin chosen \/ row.Doc # Broken
  IN  [err |-> IF ~z.ok \/ ~refs THEN "scan" ELSE IF ~docs THEN "decode" ELSE "",
       s   |-> [Z   |-> IF z.set THEN z.v ELSE s.Z,
                Ref |-> IF z.ok /\ refs /\ "Ref" \in chosen THEN row.Ref ELSE s.Ref,
                Doc |-> IF z.ok /\ refs /\ docs /\ "Doc" \in chosen THEN row.Doc ELSE s.Doc]]

Select(c) ==
  /\ Runs(c, "select")
  /\ LET n == stmt[c].n IN
       \/ /\ rows[n] = None
          /\ End(c, "select", n, 0, "no rows")
          /\ UNCHANGED structs
       \/ /\ rows[n] # None
          /\ \E d \in Given(rows[n].Z) :
               LET e == Read(structs[c], rows[n], Chosen(stmt[c].columns), d)
               IN  /\ structs' = [structs EXCEPT ![c] = e.s]
                   /\ End(c, "select", n, IF e.err = "" THEN rows[n].time ELSE 0, e.err)
  /\ UNCHANGED <<type, now, rows, stored>>

SelectLost(c) ==
  /\ ~Reliable
  /\ Runs(c, "select")
  /\ End(c, "select", stmt[c].n, 0, "lost")
  /\ UNCHANGED <<type, now, structs, rows, stored>>

-----------------------------------------------------------------------------
BeginDelete(c, n) ==
  /\ MayOperate(c)
  /\ Send(c, [op |-> "delete", n |-> n, columns |-> <<>>, row |-> None])
  /\ UNCHANGED <<type, now, structs, rows, stored>>

(* Its LIMIT is refused by postgres.  There may be no row to delete.       *)
Delete(c) ==
  /\ Runs(c, "delete")
  /\ IF Postgres
     THEN rows' = rows /\ End(c, "delete", stmt[c].n, 0, "refused")
     ELSE rows' = [rows EXCEPT ![stmt[c].n] = None] /\ End(c, "delete", stmt[c].n, 0, "")
  /\ UNCHANGED <<type, now, structs, stored>>

DeleteLost(c) ==
  /\ ~Reliable
  /\ Runs(c, "delete")
  /\ rows' = rows \/ rows' = [rows EXCEPT ![stmt[c].n] = None]
  /\ End(c, "delete", stmt[c].n, 0, "lost")
  /\ UNCHANGED <<type, now, structs, stored>>

-----------------------------------------------------------------------------
(* A client takes over some columns of another client's struct.            *)
Copy(c, d, columns) ==
  /\ MayOperate(c)
  /\ c # d
  /\ \/ /\ Wrong(columns)
        /\ End(c, "copy", 0, 0, "columns")
        /\ UNCHANGED structs
     \/ /\ ~Wrong(columns)
        /\ LET e == MapToStruct(structs[c], StructToMap(structs[d], columns))
           IN  /\ structs' = [structs EXCEPT ![c] = e.s]
               /\ End(c, "copy", 0, 0, IF e.ok THEN "" ELSE "set")
  /\ UNCHANGED <<type, now, rows, stored>>

(* Another program writes to a row, once.                                  *)
Overwrite(n) ==
  /\ rows[n] # None /\ rows[n] = stored[n]
  /\ \/ \E d \in Foreign : rows' = [rows EXCEPT ![n].Z = d]
     \/ rows' = [rows EXCEPT ![n].Doc = Broken]
  /\ UNCHANGED <<type, now, structs, stored, stmt, res, ops>>

Operation(c) ==
  \/ BeginInsert(c) \/ Insert(c) \/ InsertLost(c)
  \/ \E n \in Ids, columns \in Selections : BeginSelect(c, n, columns)
  \/ Select(c) \/ SelectLost(c)
  \/ \E n \in Ids : BeginDelete(c, n)
  \/ Delete(c) \/ DeleteLost(c)
  \/ \E d \in Clients, columns \in Selections : Copy(c, d, columns)

Next == Tick \/ (\E c \in Clients : Operation(c)) \/ (\E n \in Ids : Overwrite(n))

Spec == Init /\ [][Next]_vars

-----------------------------------------------------------------------------
(* Client c's operation op ends in this step.                              *)
Ends(c, op) == res'[c] # res[c] /\ res'[c] # None /\ res'[c].op = op

(* The values of Z that a row may stand for, however the driver gives it.  *)
Means(d) == UNION {Denotes(type, e) : e \in Given(d)}

(* A Select without an error gives the struct what the row holds in the    *)
(* chosen columns, leaves the others alone, and returns the row's time:    *)
(* no number is cut, no NULL taken for something, no column mixed up,      *)
(* whatever others wrote to the row.  (snapshot.go:90-149, zero.go)        *)
SelectRestores ==
  [][\A c \in Clients : Ends(c, "select") /\ res'[c].err = "" =>
       LET row    == rows[stmt[c].n]
           chosen == Chosen(stmt[c].columns)
           s      == structs'[c]
       IN  /\ row # None
           /\ res'[c].time = row.time
           /\ IF "Z" \in chosen THEN s.Z \in Means(row.Z) ELSE s.Z = structs[c].Z
           /\ s.Doc = IF "Doc" \in chosen THEN row.Doc ELSE structs[c].Doc
           /\ s.Ref = IF "Ref" \in chosen THEN row.Ref ELSE structs[c].Ref]_vars

(* A row that nobody else has written to can be read back: Select fails to *)
(* scan or decode it only for a Ref that was nil, which is stored as NULL  *)
(* and which no key can hold.  (snapshot.go:139-146; Value and Scan of     *)
(* zero.go)                                                                *)
Restorable ==
  [][\A c \in Clients : Ends(c, "select") /\ res'[c].err \in {"scan", "decode"} =>
       \/ rows[stmt[c].n] # stored[stmt[c].n]
       \/ "Ref" \in Chosen(stmt[c].columns) /\ rows[stmt[c].n].Ref = Null]_vars

(* When Insert returns no error there is a row of the number it returned,  *)
(* with the time it returned (or what the column keeps of it: unlike the   *)
(* other inserts this one does not cut the time) and what the struct held. *)
(* (snapshot.go:39-87)                                                     *)
SnapshotStored ==
  \A c \in Clients : res[c] # None /\ res[c].op = "insert" /\ res[c].err = "" =>
    /\ res[c].n \in Ids /\ stored[res[c].n] # None
    /\ stored[res[c].n].time = Kept(res[c].time)
    /\ Denotes(type, stored[res[c].n].Z) = {structs[c].Z}
    /\ stored[res[c].n].Doc = structs[c].Doc
    /\ stored[res[c].n].Ref = RefValue(structs[c])

(* The chosen columns of struct o taken over into s.  A nil Ref of o is    *)
(* refused: Ref keeps its key, and if nil becomes a struct with key zero.  *)
Refused(o, chosen) == "Ref" \in chosen /\ o.Ref = NoRef
TakenOver(s, o, chosen) ==
  [f \in DOMAIN s |->
     IF f \notin chosen THEN s[f]
     ELSE IF f # "Ref" \/ o.Ref # NoRef THEN o[f]
     ELSE IF s.Ref = NoRef THEN 0 ELSE s.Ref]

(* MapToStruct of StructToMap's map gives a struct what the other has in   *)
(* the columns that this copy asks for, and leaves its own in the rest.    *)
(* It is an error only when the other's Ref is nil and asked for, and then *)
(* the columns before Ref are taken over all the same.  (map.go)           *)
MapRestores ==
  [][\A c, d \in Clients, columns \in Selections :
       Copy(c, d, columns) /\ res'[c].err # "columns" =>
         /\ res'[c].err = IF Refused(structs[d], Chosen(columns)) THEN "set" ELSE ""
         /\ structs'[c] = TakenOver(structs[c], structs[d], Chosen(columns))]_vars
=============================================================================
