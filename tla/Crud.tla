-------------------------------- MODULE Crud --------------------------------
(***************************************************************************)
(* Insert, Load, Select, Update and Delete of scrud.go, on one table that  *)
(* several clients share.  A client is a goroutine with two struct values  *)
(* of its own; a batch insert takes both, every other operation the first. *)
(*                                                                         *)
(* The struct has a primary key, a plain column "data", a nullable         *)
(* many_to_one "ref" kept in a pointer field, the time columns "added"     *)
(* (auto_now_add) and "now" (auto_now), and a relation "many", which is no *)
(* column of the row.  An operation is built from the struct and the       *)
(* clock, and then runs a single statement; Insert and Update write the    *)
(* clock into the struct while they are built, so other clients and the    *)
(* clock go on between the two.  Select and Delete read nothing shared     *)
(* while they are built and are one step.                                  *)
(***************************************************************************)
EXTENDS Integers, FiniteSets

CONSTANTS
  Clients,
  Ids,        \* primary keys that rows may have, a bound: subset of Nat \ {0}
  MaxClock,   \* bound on the clock, in half seconds
  MaxOps,     \* bound on the operations of all clients together
  Values,     \* contents of the data column
  Null,       \* NULL in a row, a nil pointer in a struct
  Absent,     \* no row
  Automatic,  \* the automatic columns: a subset of {"id", "added", "now"}
  Postgres,   \* the driver keeps fractions of a second
  Selections, \* the columns arguments that Select and Update are called with
  Reliable,   \* no statement fails for a reason outside the library
  StartRows,  \* what a row may hold at first
  StartKeys,  \* the keys in a client's first struct at first
  SecondKey,  \* the key in its second
  Data        \* Data[m]: what the structs of client m hold at first

Zero    == 0      \* the key of a related struct that was just allocated
Times   == {"added", "now"} \cap Automatic
Columns == {"data", "ref", "added", "now"}
Refs    == {Null, Zero} \cup Ids

Clock   == 0..MaxClock
Object  == [id : Ids \cup {Zero}, data : Values, ref : Refs, added : Clock, now : Clock]
Row     == [data : Values, ref : Refs, added : Clock, now : Clock]

ASSUME CrudConstants ==
  /\ Ids \subseteq Nat \ {Zero}
  /\ {MaxClock, MaxOps} \subseteq Nat
  /\ Automatic \subseteq {"id", "added", "now"}
  /\ {Postgres, Reliable} \subseteq BOOLEAN
  /\ StartRows \subseteq Row
  /\ StartKeys \cup {SecondKey} \subseteq Ids \cup {Zero}
  /\ Data \in [Clients -> Values]
  /\ Selections \subseteq [exclude : BOOLEAN, names : SUBSET (Columns \cup {"id", "many", "unknown"})]

VARIABLES
  rows,    \* the table
  clock,
  obj,     \* the two structs of each client
  pc,      \* "idle", or the statement that a built operation is about to run
  call,    \* the arguments of an insert
  chosen,  \* the columns that an Update sets
  ops,     \* operations begun
  agreed,  \* the columns that struct and row agree on, by that operation
           \* and by every other client's since (history)
  misread  \* the clients of which a Select failed (history)

vars == <<rows, clock, obj, pc, call, chosen, ops, agreed, misread>>

Inserts == [op : {"Insert", "Load"}, many : BOOLEAN, byValue : BOOLEAN, nil : BOOLEAN]
Idle    == [op |-> "none", many |-> FALSE, byValue |-> FALSE, nil |-> FALSE]

Init ==
  /\ rows \in [Ids -> {Absent} \cup StartRows]
  /\ clock = 0
  /\ \E key \in [Clients -> StartKeys] :
       obj = [m \in Clients |-> [k \in 1..2 |->
                [id |-> IF k = 1 THEN key[m] ELSE SecondKey, data |-> Data[m],
                 ref |-> Null, added |-> 0, now |-> 0]]]
  /\ pc = [m \in Clients |-> "idle"]
  /\ call = [m \in Clients |-> Idle]
  /\ chosen = [m \in Clients |-> {}]
  /\ ops = 0
  /\ agreed = [m \in Clients |-> {}]
  /\ misread = {}

-----------------------------------------------------------------------------
(* Bug: the time is rounded up.                                            *)
GetTimeRoundedUp(t) == IF Postgres THEN t ELSE t + (t % 2)
(* Bug: the fraction of a second is kept for every driver.                 *)
GetTimeExact(t) == t

(* The time an operation writes: whole seconds unless the driver is        *)
(* postgres.                                                               *)
GetTime(t) == IF Postgres THEN t ELSE t - (t % 2)

(* What a time column of the database keeps of the time it is sent.        *)
Kept(t) == IF Postgres THEN t ELSE t - (t % 2)

(* NULL is not a key and no row is not a row.  A row that is there at the  *)
(* start holds times that a column of the database can hold, and refers to *)
(* a row or to none.                                                       *)
ASSUME StoredAssumption ==
  /\ Null # Zero
  /\ Absent \notin Row
  /\ \A r \in StartRows :
       Kept(r.added) = r.added /\ Kept(r.now) = r.now /\ r.ref # Zero

(* Bug: the nil pointer of a relation is followed.                         *)
RefValueZero(o) == IF o.ref = Null THEN Zero ELSE o.ref

(* GetValue of the relation column: a nil pointer is NULL.                 *)
RefValue(o) == o.ref

AsRow(o) == [data |-> o.data, ref |-> RefValue(o), added |-> Kept(o.added), now |-> Kept(o.now)]

(* The columns argument, for those of "columns" that an operation may use. *)
(* One that the struct does not have, or the relation to many, is refused. *)
Wrong(sel) == sel.names \cap {"unknown", "many"} # {}
Chosen(sel, columns) ==
  IF sel.names = {} THEN columns
  ELSE IF sel.exclude THEN columns \ sel.names ELSE columns \cap sel.names

(* The time columns of struct o as an operation stamps them.               *)
Stamped(o, times) ==
  [o EXCEPT !.added = IF "added" \in times THEN GetTime(clock) ELSE @,
            !.now   = IF "now" \in times THEN GetTime(clock) ELSE @]

(* Client m has written columns cols of row k: whoever had them may not    *)
(* have them any more.                                                     *)
Overwritten(m, k, cols) ==
  [n \in Clients |-> IF n # m /\ obj[n][1].id = k THEN agreed[n] \ cols ELSE agreed[n]]

InTable(o) == o.id # Zero /\ rows[o.id] # Absent

Start(m) ==
  /\ pc[m] = "idle"
  /\ ops < MaxOps
  /\ ops' = ops + 1

(* The operation returns, with an error or without.                        *)
End(m) ==
  /\ pc' = [pc EXCEPT ![m] = "idle"]
  /\ call' = [call EXCEPT ![m] = Idle]
  /\ chosen' = [chosen EXCEPT ![m] = {}]

(* Whether the answer of a statement that was carried out is lost.         *)
Losses == IF Reliable THEN {FALSE} ELSE BOOLEAN

Tick ==
  /\ clock < MaxClock
  /\ clock' = clock + 1
  /\ UNCHANGED <<rows, obj, pc, call, chosen, ops, agreed, misread>>

-----------------------------------------------------------------------------
(* Insert and Load build the values of every struct in turn.  Insert       *)
(* stamps the struct while it does; a struct that is not behind a pointer  *)
(* cannot be stamped.  A nil pointer stops a batch at its second struct,   *)
(* when the first has been stamped already.                                *)
AutoOf(q) == IF q.op = "Insert" THEN Automatic ELSE {}

BeginInsert(m, q) ==
  LET times   == AutoOf(q) \cap {"added", "now"}
      fails   == q.nil \/ (q.byValue /\ times # {})
      stamped == {k \in 1..2 : (k = 1 \/ q.many) /\ ~(k = 2 /\ q.nil) /\ ~q.byValue}
  IN
  /\ Start(m)
  /\ q.nil => q.many
  /\ q.many => ~q.byValue
  /\ "id" \notin AutoOf(q) => \A k \in 1..2 : obj[m][k].id # Zero \/ (k = 2 /\ ~q.many)
  /\ obj' = [obj EXCEPT ![m] =
               [k \in 1..2 |-> IF k \in stamped THEN Stamped(@[k], times) ELSE @[k]]]
  /\ agreed' = [agreed EXCEPT ![m] = @ \ times]
  /\ IF fails THEN End(m)
     ELSE /\ pc' = [pc EXCEPT ![m] = "insert"]
          /\ call' = [call EXCEPT ![m] = q]
          /\ UNCHANGED chosen
  /\ UNCHANGED <<rows, clock, misread>>

Unused(f) ==
  \A j, k \in DOMAIN f : rows[f[k]] = Absent /\ (f[j] = f[k] => j = k)

(* The keys the structs are stored under: their own, or ones that the      *)
(* database generates.                                                     *)
Keys(m, q) ==
  LET count == IF q.many THEN 2 ELSE 1 IN
  {f \in [1..count -> Ids] :
     IF "id" \in AutoOf(q) THEN Unused(f)
     ELSE \A k \in 1..count : f[k] = obj[m][k].id}

(* Bug: the last generated key is set after a batch insert too.            *)
KeySetAlways(m, q, f) ==
  IF "id" \in AutoOf(q) /\ ~q.byValue THEN [obj[m] EXCEPT ![1].id = f[1]] ELSE obj[m]

(* The structs after the statement: only a single Insert sets the key.     *)
KeySet(m, q, f) ==
  IF "id" \in AutoOf(q) /\ ~q.many /\ ~q.byValue
  THEN [obj[m] EXCEPT ![1].id = f[1]] ELSE obj[m]

(* The INSERT stores the rows, and then the generated key is set, which    *)
(* fails for a struct that is not behind a pointer: an error, though the   *)
(* row is stored.                                                          *)
Insert(m) ==
  LET q == call[m] IN
  /\ pc[m] = "insert"
  /\ \E f \in Keys(m, q) :
       /\ Unused(f)
       /\ rows' = [id \in Ids |->
                     IF \E k \in DOMAIN f : f[k] = id
                     THEN AsRow(obj[m][CHOOSE k \in DOMAIN f : f[k] = id]) ELSE rows[id]]
       /\ \E lost \in Losses :
            /\ obj' = IF lost THEN obj ELSE [obj EXCEPT ![m] = KeySet(m, q, f)]
            /\ agreed' = [agreed EXCEPT ![m] =
                           IF obj'[m][1].id = f[1] /\ ~lost THEN Columns ELSE {}]
  /\ End(m)
  /\ UNCHANGED <<clock, ops, misread>>

(* The key is taken, or the statement is lost before it is carried out.    *)
InsertFails(m) ==
  /\ pc[m] = "insert"
  /\ \/ ~Reliable
     \/ \E f \in Keys(m, call[m]) : ~Unused(f)
  /\ End(m)
  /\ UNCHANGED <<rows, clock, obj, ops, agreed, misread>>

-----------------------------------------------------------------------------
(* A SELECT is scanned into the struct column by column.  The relation's   *)
(* pointer is allocated before the query runs; a NULL cannot be scanned    *)
(* into it and ends the scan there, with "data" already set.               *)
Allocated(o, cols) == [o EXCEPT !.ref = IF "ref" \in cols /\ @ = Null THEN Zero ELSE @]
Scanned(o, r, cols) ==
  [id    |-> o.id,
   data  |-> IF "data" \in cols THEN r.data ELSE o.data,
   ref   |-> IF "ref" \in cols THEN r.ref ELSE o.ref,
   added |-> IF "added" \in cols THEN r.added ELSE o.added,
   now   |-> IF "now" \in cols THEN r.now ELSE o.now]

Found(m, cols) ==
  /\ InTable(obj[m][1])
  /\ "ref" \in cols => rows[obj[m][1].id].ref # Null

SelectRefused(m, sel) ==
  /\ Start(m)
  /\ Wrong(sel) \/ Chosen(sel, Columns) = {}
  /\ End(m)
  /\ UNCHANGED <<rows, clock, obj, agreed, misread>>

Select(m, sel) ==
  LET o    == obj[m][1]
      cols == Chosen(sel, Columns)
  IN
  /\ Start(m)
  /\ ~Wrong(sel) /\ cols # {}
  /\ Found(m, cols)
  /\ obj' = [obj EXCEPT ![m][1] = Scanned(o, rows[o.id], cols)]
  /\ agreed' = [agreed EXCEPT ![m] = @ \cup cols]
  /\ End(m)
  /\ UNCHANGED <<rows, clock, misread>>

SelectFails(m, sel) ==
  LET o    == obj[m][1]
      cols == Chosen(sel, Columns)
      null == InTable(o) /\ ~Found(m, cols)
  IN
  /\ Start(m)
  /\ ~Wrong(sel) /\ cols # {}
  /\ Reliable => ~Found(m, cols)
  /\ obj' = [obj EXCEPT ![m][1] =
               IF null THEN Scanned(Allocated(o, cols), rows[o.id], cols \cap {"data"})
               ELSE Allocated(o, cols)]
  /\ agreed' = [agreed EXCEPT ![m] = @ \ cols]
  /\ misread' = misread \cup {m}
  /\ End(m)
  /\ UNCHANGED <<rows, clock>>

-----------------------------------------------------------------------------
(* Bug: the columns argument also selects the auto_now_add column.         *)
SetColumnsAdded(sel) == Chosen(sel, Columns) \cup (Times \cap {"now"})

(* An Update sets the chosen columns but never the auto_now_add column,    *)
(* and always the auto_now column.                                         *)
SetColumns(sel) == Chosen(sel, Columns \ Times) \cup (Times \cap {"now"})

BeginUpdate(m, sel, byValue) ==
  LET fails == Wrong(sel) \/ SetColumns(sel) = {} \/ (byValue /\ "now" \in Times)
  IN
  /\ Start(m)
  /\ IF Wrong(sel) \/ byValue THEN UNCHANGED <<obj, agreed>>
     ELSE /\ obj' = [obj EXCEPT ![m][1] = Stamped(@, Times \cap {"now"})]
          /\ agreed' = [agreed EXCEPT ![m] = @ \ (Times \cap {"now"})]
  /\ IF fails THEN End(m)
     ELSE /\ pc' = [pc EXCEPT ![m] = "update"]
          /\ chosen' = [chosen EXCEPT ![m] = SetColumns(sel)]
          /\ UNCHANGED call
  /\ UNCHANGED <<rows, clock, misread>>

(* The UPDATE: no error when there is no such row.                         *)
Update(m) ==
  LET o == obj[m][1] IN
  /\ pc[m] = "update"
  /\ IF ~InTable(o)
     THEN UNCHANGED <<rows, agreed>>
     ELSE /\ rows' = [rows EXCEPT ![o.id] =
                        [c \in Columns |-> IF c \in chosen[m] THEN AsRow(o)[c] ELSE @[c]]]
          /\ agreed' = [Overwritten(m, o.id, chosen[m]) EXCEPT ![m] = @ \cup chosen[m]]
  /\ End(m)
  /\ UNCHANGED <<clock, obj, ops, misread>>

UpdateFails(m) ==
  /\ pc[m] = "update"
  /\ ~Reliable
  /\ End(m)
  /\ UNCHANGED <<rows, clock, obj, ops, agreed, misread>>

DeleteFails(m) ==
  /\ Start(m)
  /\ ~Reliable
  /\ End(m)
  /\ UNCHANGED <<rows, clock, obj, agreed, misread>>

(* The DELETE: no error when there is no such row.                         *)
Delete(m) ==
  LET k == obj[m][1].id IN
  /\ Start(m)
  /\ rows' = [id \in Ids |-> IF id = k THEN Absent ELSE rows[id]]
  /\ agreed' = [n \in Clients |-> IF obj[n][1].id = k THEN {} ELSE agreed[n]]
  /\ End(m)
  /\ UNCHANGED <<clock, obj, misread>>

Next ==
  \/ Tick
  \/ \E m \in Clients :
       \/ \E q \in Inserts : BeginInsert(m, q)
       \/ Insert(m)
       \/ InsertFails(m)
       \/ \E sel \in Selections :
            \/ SelectRefused(m, sel)
            \/ Select(m, sel)
            \/ SelectFails(m, sel)
            \/ \E byValue \in BOOLEAN : BeginUpdate(m, sel, byValue)
       \/ Update(m)
       \/ UpdateFails(m)
       \/ Delete(m)
       \/ DeleteFails(m)

Spec == Init /\ [][Next]_vars

-----------------------------------------------------------------------------
TypeOK ==
  /\ rows \in [Ids -> Row \cup {Absent}]
  /\ clock \in Clock
  /\ obj \in [Clients -> [1..2 -> Object]]
  /\ pc \in [Clients -> {"idle", "insert", "update"}]
  /\ call \in [Clients -> Inserts \cup {Idle}]
  /\ chosen \in [Clients -> SUBSET Columns]
  /\ ops \in 0..MaxOps
  /\ agreed \in [Clients -> SUBSET Columns]
  /\ misread \subseteq Clients

(* After an operation that returned nil the struct and its row hold the    *)
(* same, in every column that the operation is about and that no other     *)
(* client has set since, however operations interleave: the times written  *)
(* into the struct are the ones a database without fractions of a second   *)
(* keeps, and an Update leaves the columns alone that another set.         *)
Agreement ==
  \A m \in Clients : agreed[m] # {} =>
    LET o == obj[m][1] IN
    InTable(o) /\ \A c \in agreed[m] : rows[o.id][c] = o[c]

(* A row keeps the time at which it was added as long as it exists.        *)
AddedKept ==
  [][\A id \in Ids : "added" \in Automatic /\ rows[id] # Absent /\ rows'[id] # Absent =>
       rows'[id].added = rows[id].added]_vars

(* A nil relation is stored as NULL: a row refers to key zero only when a  *)
(* Select failed and left an allocated struct behind in the pointer field, *)
(* which a later Insert or Update then stored.                             *)
NilStaysNull ==
  (\E id \in Ids : rows[id] # Absent /\ rows[id].ref = Zero) => misread # {}

(* A struct gets a key from the library only by a single Insert, and then  *)
(* the key of a row that was not there before: batch insert is documented  *)
(* not to set the auto increment column.                                   *)
KeySetOnce ==
  [][\A m \in Clients : \A k \in 1..2 : obj'[m][k].id # obj[m][k].id =>
       /\ call[m].op = "Insert" /\ ~call[m].many
       /\ rows[obj'[m][k].id] = Absent
       /\ rows'[obj'[m][k].id] # Absent]_vars
=============================================================================
