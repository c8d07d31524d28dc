----------------------------- MODULE CrudProofs -----------------------------
(***************************************************************************)
(* Proofs about Crud, for every number of clients, keys, values and        *)
(* operations, every choice of automatic columns, and drivers with and     *)
(* without fractions of a second.                                          *)
(***************************************************************************)
EXTENDS Crud, TLAPS

-----------------------------------------------------------------------------
(* The inductive invariant.                                                *)

(* The times of struct or row x are ones that the database keeps as they   *)
(* are.                                                                    *)
Storable(x) == Kept(x.added) = x.added /\ Kept(x.now) = x.now

StoredTimes ==
  /\ \A m \in Clients : \A k \in 1..2 : Storable(obj[m][k])
  /\ \A id \in Ids : rows[id] # Absent => Storable(rows[id])

(* No struct and no row refers to key zero before a Select failed.         *)
NoZero ==
  misread = {} =>
    /\ \A m \in Clients : \A k \in 1..2 : obj[m][k].ref # Zero
    /\ \A id \in Ids : rows[id] # Absent => rows[id].ref # Zero

(* An Update never sets the time at which a row was added.                 *)
NeverAdded ==
  \A m \in Clients : "added" \in Automatic => "added" \notin chosen[m]

IInv ==
  /\ TypeOK
  /\ StoredTimes
  /\ NoZero
  /\ NeverAdded
  /\ Agreement

-----------------------------------------------------------------------------
(* Structs and rows.                                                       *)
LEMMA WholeSeconds ==
  ASSUME NEW M \in Nat, NEW t \in 0..M
  PROVE  /\ t - (t % 2) \in 0..M
         /\ (t - (t % 2)) - ((t - (t % 2)) % 2) = t - (t % 2)
  OBVIOUS

LEMMA TimeFacts ==
  ASSUME NEW t \in Clock
  PROVE  /\ GetTime(t) \in Clock
         /\ Kept(t) \in Clock
         /\ Kept(GetTime(t)) = GetTime(t)
         /\ Kept(Kept(t)) = Kept(t)
<1>1. MaxClock \in Nat
  BY CrudConstants
<1> QED
  BY <1>1, WholeSeconds DEF GetTime, Kept, Clock

LEMMA StampedFacts ==
  ASSUME clock \in Clock, NEW o \in Object, Storable(o), NEW times
  PROVE  /\ Stamped(o, times) \in Object
         /\ Storable(Stamped(o, times))
         /\ Stamped(o, times).id = o.id
         /\ Stamped(o, times).ref = o.ref
         /\ \A c \in Columns \ times : Stamped(o, times)[c] = o[c]
<1>1. GetTime(clock) \in Clock /\ Kept(GetTime(clock)) = GetTime(clock)
  BY TimeFacts
<1>2. Stamped(o, times) \in Object
  BY <1>1 DEF Stamped, Object
<1>3. Storable(Stamped(o, times))
  BY <1>1 DEF Stamped, Object, Storable
<1>4. Stamped(o, times).id = o.id /\ Stamped(o, times).ref = o.ref
  BY DEF Stamped, Object
<1>5. \A c \in Columns \ times : Stamped(o, times)[c] = o[c]
  BY DEF Stamped, Object, Columns
<1> QED
  BY <1>2, <1>3, <1>4, <1>5

LEMMA AsRowFacts ==
  ASSUME NEW o \in Object
  PROVE  /\ AsRow(o) \in Row
         /\ AsRow(o) # Absent
         /\ Storable(AsRow(o))
         /\ AsRow(o).ref = o.ref
         /\ Storable(o) => \A c \in Columns : AsRow(o)[c] = o[c]
<1>1. o.added \in Clock /\ o.now \in Clock
  BY DEF Object
<1>2. Kept(o.added) \in Clock /\ Kept(Kept(o.added)) = Kept(o.added)
  BY <1>1, TimeFacts
<1>3. Kept(o.now) \in Clock /\ Kept(Kept(o.now)) = Kept(o.now)
  BY <1>1, TimeFacts
<1>4. AsRow(o) \in Row
  BY <1>2, <1>3 DEF AsRow, RefValue, Row, Object
<1>5. Storable(AsRow(o))
  BY <1>2, <1>3 DEF AsRow, Storable
<1>6. Storable(o) => \A c \in Columns : AsRow(o)[c] = o[c]
  BY DEF AsRow, Storable, Columns, RefValue
<1> QED
  BY <1>4, <1>5, <1>6, StoredAssumption DEF AsRow, RefValue

LEMMA ScannedFacts ==
  ASSUME NEW o \in Object, NEW r \in Row, NEW cols
  PROVE  /\ Scanned(o, r, cols) \in Object
         /\ Scanned(o, r, cols).id = o.id
         /\ \A c \in Columns : Scanned(o, r, cols)[c] = IF c \in cols THEN r[c] ELSE o[c]
         /\ Storable(o) /\ Storable(r) => Storable(Scanned(o, r, cols))
         /\ o.ref # Zero /\ r.ref # Zero => Scanned(o, r, cols).ref # Zero
<1>1. Scanned(o, r, cols) \in Object
  BY DEF Scanned, Object, Row
<1>2. \A c \in Columns : Scanned(o, r, cols)[c] = IF c \in cols THEN r[c] ELSE o[c]
  BY DEF Scanned, Columns
<1>3. Storable(o) /\ Storable(r) => Storable(Scanned(o, r, cols))
  BY DEF Scanned, Storable
<1> QED
  BY <1>1, <1>2, <1>3 DEF Scanned

LEMMA AllocatedFacts ==
  ASSUME NEW o \in Object, NEW cols
  PROVE  /\ Allocated(o, cols) \in Object
         /\ Allocated(o, cols).id = o.id
         /\ \A c \in Columns \ cols : Allocated(o, cols)[c] = o[c]
         /\ Storable(o) => Storable(Allocated(o, cols))
<1>1. Allocated(o, cols) \in Object
  BY DEF Allocated, Object, Refs
<1>2. \A c \in Columns \ cols : Allocated(o, cols)[c] = o[c]
  BY DEF Allocated, Object, Columns
<1>3. Storable(o) => Storable(Allocated(o, cols))
  BY DEF Allocated, Object, Storable
<1> QED
  BY <1>1, <1>2, <1>3 DEF Allocated, Object

LEMMA ChosenFacts ==
  ASSUME NEW sel, NEW columns
  PROVE  Chosen(sel, columns) \subseteq columns
  BY DEF Chosen

LEMMA SetColumnsFacts ==
  ASSUME NEW sel
  PROVE  /\ SetColumns(sel) \subseteq Columns
         /\ "added" \in Automatic => "added" \notin SetColumns(sel)
<1>1. Chosen(sel, Columns \ Times) \subseteq Columns \ Times
  BY ChosenFacts
<1>2. "now" \in Columns
  BY DEF Columns
<1>3. SetColumns(sel) \subseteq (Columns \ Times) \cup {"now"}
  BY <1>1 DEF SetColumns
<1>4. "added" \in Automatic => "added" \in Times
  BY DEF Times
<1>5. SetColumns(sel) \subseteq Columns
  BY <1>2, <1>3
<1>6. "added" \in Automatic => "added" \notin SetColumns(sel)
  BY <1>3, <1>4
<1> QED
  BY <1>5, <1>6

LEMMA ObjectType ==
  ASSUME TypeOK, NEW m \in Clients, NEW k \in 1..2
  PROVE  obj[m][k] \in Object
  BY DEF TypeOK
-----------------------------------------------------------------------------
(* Steps that leave the table alone and change the structs of one client.  *)
LEMMA TableKept ==
  ASSUME IInv, TypeOK', NEW m \in Clients,
         rows' = rows,
         \A n \in Clients \ {m} : obj'[n] = obj[n] /\ agreed'[n] = agreed[n],
         \A k \in 1..2 : /\ Storable(obj'[m][k])
                         /\ obj'[m][k].id = obj[m][k].id
                         /\ misread' = {} => misread = {} /\ obj'[m][k].ref # Zero,
         agreed'[m] # {} => InTable(obj[m][1]),
         \A c \in agreed'[m] : rows[obj[m][1].id][c] = obj'[m][1][c]
  PROVE  StoredTimes' /\ NoZero' /\ Agreement'
<1>1. StoredTimes'
  BY DEF IInv, StoredTimes
<1>2. NoZero'
  BY DEF IInv, NoZero
<1>3. Agreement'
  <2> SUFFICES ASSUME NEW n \in Clients, agreed'[n] # {}
               PROVE  /\ obj'[n][1].id # Zero /\ rows'[obj'[n][1].id] # Absent
                      /\ \A c \in agreed'[n] : rows'[obj'[n][1].id][c] = obj'[n][1][c]
    BY DEF Agreement, InTable
  <2>0. 1 \in 1..2
    OBVIOUS
  <2>1. CASE n = m
    BY <2>0, <2>1 DEF InTable
  <2>2. CASE n # m
    BY <2>2 DEF IInv, Agreement, InTable
  <2> QED
    BY <2>1, <2>2
<1> QED
  BY <1>1, <1>2, <1>3

(* Steps that leave the table, the structs and what is agreed alone.       *)
LEMMA StateKept ==
  ASSUME IInv, UNCHANGED <<rows, obj, agreed, misread>>
  PROVE  StoredTimes' /\ NoZero' /\ Agreement'
  BY DEF IInv, StoredTimes, NoZero, Agreement, InTable

(* The end of an operation.                                                *)
LEMMA EndKept ==
  ASSUME TypeOK, NeverAdded, NEW m \in Clients, End(m)
  PROVE  /\ pc' \in [Clients -> {"idle", "insert", "update"}]
         /\ call' \in [Clients -> Inserts \cup {Idle}]
         /\ chosen' \in [Clients -> SUBSET Columns]
         /\ NeverAdded'
  BY DEF TypeOK, NeverAdded, End

LEMMA StartKept ==
  ASSUME TypeOK, NEW m \in Clients, Start(m)
  PROVE  ops' \in 0..MaxOps
<1>1. MaxOps \in Nat
  BY CrudConstants
<1> QED
  BY <1>1 DEF TypeOK, Start

LEMMA InitInvariant == Init => IInv
<1> SUFFICES ASSUME Init PROVE IInv
  OBVIOUS
<1>1. MaxClock \in Nat /\ MaxOps \in Nat
  BY CrudConstants
<1>2. PICK key \in [Clients -> StartKeys] :
        obj = [m \in Clients |-> [k \in 1..2 |->
                 [id |-> IF k = 1 THEN key[m] ELSE SecondKey, data |-> Data[m],
                  ref |-> Null, added |-> 0, now |-> 0]]]
  BY DEF Init
<1>3. \A m \in Clients : \A k \in 1..2 :
        /\ obj[m][k] \in Object
        /\ obj[m][k].ref = Null /\ obj[m][k].added = 0 /\ obj[m][k].now = 0
  <2> TAKE m \in Clients, k \in 1..2
  <2>1. key[m] \in Ids \cup {Zero} /\ SecondKey \in Ids \cup {Zero} /\ Data[m] \in Values
    BY CrudConstants
  <2>2. 0 \in Clock
    BY <1>1 DEF Clock
  <2> QED
    BY <1>2, <2>1, <2>2 DEF Object, Refs
<1>4. TypeOK
  <2>1. rows \in [Ids -> Row \cup {Absent}]
    BY CrudConstants DEF Init
  <2>2. obj \in [Clients -> [1..2 -> Object]]
    BY <1>2, <1>3
  <2>3. /\ call \in [Clients -> Inserts \cup {Idle}]
        /\ pc \in [Clients -> {"idle", "insert", "update"}]
        /\ chosen \in [Clients -> SUBSET Columns]
        /\ agreed \in [Clients -> SUBSET Columns]
        /\ misread \subseteq Clients
    BY DEF Init
  <2>4. clock \in Clock /\ ops \in 0..MaxOps
    BY <1>1 DEF Init, Clock
  <2> QED
    BY <2>1, <2>2, <2>3, <2>4 DEF TypeOK
<1>5. Kept(0) = 0
  <2>1. 0 - (0 % 2) = 0
    OBVIOUS
  <2> QED
    BY <2>1 DEF Kept
<1>6. \A id \in Ids : rows[id] # Absent => Storable(rows[id]) /\ rows[id].ref # Zero
  BY StoredAssumption DEF Init, Storable
<1>7. StoredTimes
  BY <1>3, <1>5, <1>6 DEF StoredTimes, Storable
<1>8. NoZero
  BY <1>3, <1>6, StoredAssumption DEF NoZero
<1>9. NeverAdded /\ Agreement
  BY DEF Init, NeverAdded, Agreement
<1> QED
  BY <1>4, <1>7, <1>8, <1>9 DEF IInv
-----------------------------------------------------------------------------
(* The operations, one by one.                                             *)
Preserves ==
  /\ TypeOK'
  /\ StoredTimes'
  /\ NoZero'
  /\ NeverAdded'
  /\ Agreement'

LEMMA TickStep ==
  ASSUME IInv, Tick
  PROVE  Preserves
<1>1. clock' \in Clock
  BY CrudConstants DEF Tick, IInv, TypeOK, Clock
<1>2. TypeOK'
  BY <1>1 DEF Tick, IInv, TypeOK
<1>3. StoredTimes' /\ NoZero' /\ Agreement'
  BY StateKept DEF Tick
<1>4. NeverAdded'
  BY DEF Tick, IInv, NeverAdded
<1> QED
  BY <1>2, <1>3, <1>4 DEF Preserves

(* An operation that is refused or fails, and leaves all but itself alone. *)
LEMMA RefusedStep ==
  ASSUME IInv, NEW m \in Clients, End(m), ops' \in 0..MaxOps,
         UNCHANGED <<rows, clock, obj, agreed, misread>>
  PROVE  Preserves
<1>1. NeverAdded'
  BY EndKept DEF IInv
<1>2. TypeOK'
  BY EndKept DEF IInv, TypeOK
<1>3. StoredTimes' /\ NoZero' /\ Agreement'
  BY StateKept
<1> QED
  BY <1>1, <1>2, <1>3 DEF Preserves

LEMMA BeginInsertStep ==
  ASSUME IInv, NEW m \in Clients, NEW q \in Inserts, BeginInsert(m, q)
  PROVE  Preserves
<1> DEFINE times == AutoOf(q) \cap {"added", "now"}
           stamped == {k \in 1..2 : (k = 1 \/ q.many) /\ ~(k = 2 /\ q.nil) /\ ~q.byValue}
<1>1. /\ obj' = [obj EXCEPT ![m] =
                  [k \in 1..2 |-> IF k \in stamped THEN Stamped(@[k], times) ELSE @[k]]]
      /\ agreed' = [agreed EXCEPT ![m] = @ \ times]
      /\ UNCHANGED <<rows, clock, misread>>
      /\ Start(m)
  BY DEF BeginInsert
<1>2. \/ End(m)
      \/ /\ pc' = [pc EXCEPT ![m] = "insert"]
         /\ call' = [call EXCEPT ![m] = q]
         /\ UNCHANGED chosen
  BY DEF BeginInsert
<1>3. TypeOK
  BY DEF IInv
<1>4. obj'[m] = [k \in 1..2 |-> IF k \in stamped THEN Stamped(obj[m][k], times) ELSE obj[m][k]]
  BY <1>1, <1>3 DEF TypeOK
<1>5. clock \in Clock /\ \A k \in 1..2 : obj[m][k] \in Object /\ Storable(obj[m][k])
  BY <1>3 DEF TypeOK, IInv, StoredTimes
<1> HIDE DEF times, stamped
<1>6. \A k \in 1..2 :
        /\ obj'[m][k] \in Object
        /\ Storable(obj'[m][k])
        /\ obj'[m][k].id = obj[m][k].id
        /\ obj'[m][k].ref = obj[m][k].ref
        /\ \A c \in Columns \ times : obj'[m][k][c] = obj[m][k][c]
  BY <1>4, <1>5, StampedFacts
<1>7. /\ pc' \in [Clients -> {"idle", "insert", "update"}]
      /\ call' \in [Clients -> Inserts \cup {Idle}]
      /\ chosen' \in [Clients -> SUBSET Columns]
      /\ NeverAdded'
  <2>1. NeverAdded
    BY DEF IInv
  <2>2. CASE End(m)
    BY <1>3, <2>1, <2>2, EndKept
  <2>3. CASE ~End(m)
    BY <1>2, <1>3, <2>1, <2>3 DEF TypeOK, NeverAdded
  <2> QED
    BY <2>2, <2>3
<1>8. TypeOK'
  <2>1. obj'[m] \in [1..2 -> Object]
    BY <1>4, <1>6
  <2>2. obj' \in [Clients -> [1..2 -> Object]]
    BY <1>1, <1>3, <2>1 DEF TypeOK
  <2>3. agreed' \in [Clients -> SUBSET Columns]
    BY <1>1, <1>3 DEF TypeOK
  <2>4. ops' \in 0..MaxOps
    BY <1>1, <1>3, StartKept
  <2> QED
    BY <1>1, <1>3, <1>7, <2>2, <2>3, <2>4 DEF TypeOK
<1>9. StoredTimes' /\ NoZero' /\ Agreement'
  <2>1. \A n \in Clients \ {m} : obj'[n] = obj[n] /\ agreed'[n] = agreed[n]
    BY <1>1, <1>3 DEF TypeOK
  <2>2. agreed'[m] = agreed[m] \ times /\ agreed[m] \subseteq Columns
    BY <1>1, <1>3 DEF TypeOK
  <2>3. \A k \in 1..2 : misread' = {} => misread = {} /\ obj'[m][k].ref # Zero
    BY <1>1, <1>6 DEF IInv, NoZero
  <2>4. agreed'[m] # {} => InTable(obj[m][1])
    BY <2>2 DEF IInv, Agreement
  <2>5. \A c \in agreed'[m] : rows[obj[m][1].id][c] = obj'[m][1][c]
    BY <1>6, <2>2 DEF IInv, Agreement
  <2> QED
    BY <1>1, <1>6, <1>8, <2>1, <2>3, <2>4, <2>5, TableKept
<1> QED
  BY <1>7, <1>8, <1>9 DEF Preserves

(* Steps that change only the first struct of a client and leave its key.  *)
LEMMA StructStep ==
  ASSUME IInv, NEW m \in Clients, NEW o, o \in Object, Storable(o),
         o.id = obj[m][1].id,
         misread' = {} => misread = {} /\ o.ref # Zero,
         NEW cols, cols \subseteq Columns,
         cols # {} => InTable(obj[m][1]),
         \A c \in cols : rows[obj[m][1].id][c] = o[c],
         obj' = [obj EXCEPT ![m][1] = o],
         agreed' = [agreed EXCEPT ![m] = cols],
         ops' \in 0..MaxOps, misread' \subseteq Clients,
         pc' \in [Clients -> {"idle", "insert", "update"}],
         call' \in [Clients -> Inserts \cup {Idle}],
         chosen' \in [Clients -> SUBSET Columns],
         NeverAdded',
         UNCHANGED <<rows, clock>>
  PROVE  Preserves
<1>1. TypeOK
  BY DEF IInv
<1>2. obj'[m] = [obj[m] EXCEPT ![1] = o] /\ obj[m] \in [1..2 -> Object]
  BY <1>1 DEF TypeOK
<1>3. obj'[m] \in [1..2 -> Object] /\ obj'[m][1] = o /\ obj'[m][2] = obj[m][2]
  <2>1. 1 \in 1..2 /\ 2 \in 1..2 /\ 1 # 2
    OBVIOUS
  <2> QED
    BY <1>2, <2>1
<1>4. TypeOK'
  <2>1. obj' \in [Clients -> [1..2 -> Object]]
    BY <1>1, <1>3 DEF TypeOK
  <2>2. agreed' \in [Clients -> SUBSET Columns]
    BY <1>1 DEF TypeOK
  <2>3. rows' \in [Ids -> Row \cup {Absent}] /\ clock' \in Clock
    BY <1>1 DEF TypeOK
  <2> QED
    BY <2>1, <2>2, <2>3 DEF TypeOK
<1>5. StoredTimes' /\ NoZero' /\ Agreement'
  <2>1. \A n \in Clients \ {m} : obj'[n] = obj[n] /\ agreed'[n] = agreed[n]
    BY <1>1 DEF TypeOK
  <2>2. agreed'[m] = cols
    BY <1>1 DEF TypeOK
  <2>3. \A k \in 1..2 : /\ Storable(obj'[m][k])
                        /\ obj'[m][k].id = obj[m][k].id
                        /\ misread' = {} => misread = {} /\ obj'[m][k].ref # Zero
    <3> SUFFICES ASSUME NEW k \in 1..2
                 PROVE  /\ Storable(obj'[m][k])
                        /\ obj'[m][k].id = obj[m][k].id
                        /\ misread' = {} => misread = {} /\ obj'[m][k].ref # Zero
      OBVIOUS
    <3>1. CASE k = 1
      BY <1>3, <3>1
    <3>2. CASE k = 2
      <4>1. Storable(obj[m][2]) /\ (misread = {} => obj[m][2].ref # Zero)
        BY <3>2 DEF IInv, StoredTimes, NoZero
      <4> QED
        BY <1>3, <3>2, <4>1
    <3> QED
      BY <3>1, <3>2
  <2> QED
    BY <1>3, <1>4, <2>1, <2>2, <2>3, TableKept
<1> QED
  BY <1>4, <1>5 DEF Preserves

(* The row of a struct that is in the table.                               *)
LEMMA RowFacts ==
  ASSUME IInv, NEW m \in Clients, InTable(obj[m][1])
  PROVE  LET o == obj[m][1] IN
         /\ o.id \in Ids
         /\ rows[o.id] \in Row
         /\ Storable(rows[o.id])
         /\ misread = {} => rows[o.id].ref # Zero
<1>1. 1 \in 1..2
  OBVIOUS
<1>2. obj[m][1] \in Object
  BY <1>1, ObjectType DEF IInv
<1>3. obj[m][1].id \in Ids
  BY <1>2 DEF InTable, Object
<1> QED
  BY <1>3 DEF InTable, IInv, TypeOK, StoredTimes, NoZero

LEMMA SelectStep ==
  ASSUME IInv, NEW m \in Clients, NEW sel \in Selections, Select(m, sel)
  PROVE  Preserves
<1> DEFINE o    == obj[m][1]
           cols == Chosen(sel, Columns)
           s    == Scanned(o, rows[o.id], cols)
<1>1. /\ Start(m) /\ End(m)
      /\ Found(m, cols)
      /\ obj' = [obj EXCEPT ![m][1] = s]
      /\ agreed' = [agreed EXCEPT ![m] = @ \cup cols]
      /\ UNCHANGED <<rows, clock, misread>>
  BY DEF Select
<1>2. InTable(o)
  BY <1>1 DEF Found
<1>3. rows[o.id] \in Row /\ Storable(rows[o.id]) /\ (misread = {} => rows[o.id].ref # Zero)
  BY <1>2, RowFacts
<1>4. 1 \in 1..2
  OBVIOUS
<1>5. o \in Object /\ Storable(o) /\ (misread = {} => o.ref # Zero)
  BY <1>4, ObjectType DEF IInv, StoredTimes, NoZero
<1>6. cols \subseteq Columns
  BY ChosenFacts
<1> HIDE DEF cols
<1>7. /\ s \in Object
      /\ s.id = o.id
      /\ \A c \in Columns : s[c] = IF c \in cols THEN rows[o.id][c] ELSE o[c]
      /\ Storable(s)
      /\ misread = {} => s.ref # Zero
  BY <1>3, <1>5, ScannedFacts
<1>8. agreed[m] \subseteq Columns /\ misread \subseteq Clients
  BY DEF IInv, TypeOK
<1> HIDE DEF s
<1>9. \A c \in agreed[m] \cup cols : rows[o.id][c] = s[c]
  BY <1>6, <1>7, <1>8 DEF IInv, Agreement
<1>10. /\ ops' \in 0..MaxOps
       /\ pc' \in [Clients -> {"idle", "insert", "update"}]
       /\ call' \in [Clients -> Inserts \cup {Idle}]
       /\ chosen' \in [Clients -> SUBSET Columns]
       /\ NeverAdded'
  BY <1>1, StartKept, EndKept DEF IInv
<1> DEFINE both == agreed[m] \cup cols
<1>11. /\ agreed' = [agreed EXCEPT ![m] = both]
       /\ both \subseteq Columns
       /\ both # {} => InTable(o)
       /\ \A c \in both : rows[o.id][c] = s[c]
  BY <1>1, <1>2, <1>6, <1>8, <1>9
<1>12. /\ misread' = {} => misread = {} /\ s.ref # Zero
       /\ misread' \subseteq Clients
       /\ UNCHANGED <<rows, clock>>
       /\ obj' = [obj EXCEPT ![m][1] = s]
  BY <1>1, <1>7, <1>8
<1>13. s \in Object /\ Storable(s) /\ s.id = o.id
  BY <1>7
<1> HIDE DEF both
<1> QED
  BY <1>10, <1>11, <1>12, <1>13, StructStep

LEMMA SelectFailsStep ==
  ASSUME IInv, NEW m \in Clients, NEW sel \in Selections, SelectFails(m, sel)
  PROVE  Preserves
<1> DEFINE o    == obj[m][1]
           cols == Chosen(sel, Columns)
           a    == Allocated(o, cols)
           null == InTable(o) /\ ~Found(m, cols)
           s    == IF null THEN Scanned(a, rows[o.id], cols \cap {"data"}) ELSE a
<1>1. /\ Start(m) /\ End(m)
      /\ obj' = [obj EXCEPT ![m][1] = s]
      /\ agreed' = [agreed EXCEPT ![m] = @ \ cols]
      /\ misread' = misread \cup {m}
      /\ UNCHANGED <<rows, clock>>
  BY DEF SelectFails
<1>2. 1 \in 1..2
  OBVIOUS
<1>3. o \in Object /\ Storable(o)
  BY <1>2, ObjectType DEF IInv, StoredTimes
<1>4. agreed[m] \subseteq Columns /\ misread \subseteq Clients
  BY DEF IInv, TypeOK
<1> HIDE DEF cols
<1>5. /\ a \in Object /\ Storable(a)
      /\ a.id = o.id
      /\ \A c \in Columns \ cols : a[c] = o[c]
  BY <1>3, AllocatedFacts
<1> HIDE DEF a
<1>6. /\ s \in Object /\ Storable(s)
      /\ s.id = o.id
      /\ \A c \in Columns \ cols : s[c] = o[c]
  <2>1. CASE null
    <3>1. rows[o.id] \in Row /\ Storable(rows[o.id])
      BY <2>1, RowFacts
    <3> QED
      BY <1>5, <2>1, <3>1, ScannedFacts
  <2>2. CASE ~null
    BY <1>5, <2>2
  <2> QED
    BY <2>1, <2>2
<1> HIDE DEF s
<1>7. agreed[m] \ cols # {} => InTable(o)
  BY DEF IInv, Agreement
<1>8. \A c \in agreed[m] \ cols : rows[o.id][c] = s[c]
  BY <1>4, <1>6 DEF IInv, Agreement
<1>9. /\ ops' \in 0..MaxOps
      /\ pc' \in [Clients -> {"idle", "insert", "update"}]
      /\ call' \in [Clients -> Inserts \cup {Idle}]
      /\ chosen' \in [Clients -> SUBSET Columns]
      /\ NeverAdded'
  BY <1>1, StartKept, EndKept DEF IInv
<1> DEFINE rest == agreed[m] \ cols
<1>10. /\ agreed' = [agreed EXCEPT ![m] = rest]
       /\ rest \subseteq Columns
       /\ rest # {} => InTable(o)
       /\ \A c \in rest : rows[o.id][c] = s[c]
  BY <1>1, <1>4, <1>7, <1>8
<1>11. /\ misread' = {} => misread = {} /\ s.ref # Zero
       /\ misread' \subseteq Clients
       /\ UNCHANGED <<rows, clock>>
  BY <1>1, <1>4
<1> HIDE DEF rest
<1> QED
  BY <1>1, <1>6, <1>9, <1>10, <1>11, StructStep

LEMMA BeginUpdateStep ==
  ASSUME IInv, NEW m \in Clients, NEW sel \in Selections, NEW byValue \in BOOLEAN,
         BeginUpdate(m, sel, byValue)
  PROVE  Preserves
<1>1. /\ Start(m)
      /\ UNCHANGED <<rows, clock, misread>>
      /\ \/ End(m)
         \/ /\ pc' = [pc EXCEPT ![m] = "update"]
            /\ chosen' = [chosen EXCEPT ![m] = SetColumns(sel)]
            /\ UNCHANGED call
  BY DEF BeginUpdate
<1>2. TypeOK /\ NeverAdded
  BY DEF IInv
<1>3. ops' \in 0..MaxOps
  BY <1>1, <1>2, StartKept
<1>4. /\ pc' \in [Clients -> {"idle", "insert", "update"}]
      /\ call' \in [Clients -> Inserts \cup {Idle}]
      /\ chosen' \in [Clients -> SUBSET Columns]
      /\ NeverAdded'
  <2>1. CASE End(m)
    BY <1>2, <2>1, EndKept
  <2>2. CASE ~End(m)
    <3>1. /\ pc' = [pc EXCEPT ![m] = "update"]
          /\ chosen' = [chosen EXCEPT ![m] = SetColumns(sel)]
          /\ call' = call
      BY <1>1, <2>2
    <3>2. /\ pc \in [Clients -> {"idle", "insert", "update"}]
          /\ call \in [Clients -> Inserts \cup {Idle}]
          /\ chosen \in [Clients -> SUBSET Columns]
      BY <1>2 DEF TypeOK
    <3>3. /\ SetColumns(sel) \subseteq Columns
          /\ "added" \in Automatic => "added" \notin SetColumns(sel)
      BY SetColumnsFacts
    <3>4. \A k \in Clients : chosen'[k] = chosen[k] \/ chosen'[k] = SetColumns(sel)
      BY <3>1, <3>2
    <3>5. NeverAdded'
      BY <1>2, <3>3, <3>4 DEF NeverAdded
    <3>6. pc' \in [Clients -> {"idle", "insert", "update"}] /\ call' \in [Clients -> Inserts \cup {Idle}]
      BY <3>1, <3>2
    <3>7. chosen' \in [Clients -> SUBSET Columns]
      BY <3>1, <3>2, <3>3
    <3> QED
      BY <3>5, <3>6, <3>7
  <2> QED
    BY <2>1, <2>2
<1>5. CASE UNCHANGED <<obj, agreed>>
  <2>1. StoredTimes' /\ NoZero' /\ Agreement'
    BY <1>1, <1>5, StateKept
  <2>2. TypeOK'
    BY <1>1, <1>2, <1>3, <1>4, <1>5 DEF TypeOK
  <2> QED
    BY <1>4, <2>1, <2>2 DEF Preserves
<1>6. CASE ~UNCHANGED <<obj, agreed>>
  <2> DEFINE o    == obj[m][1]
             now  == Times \cap {"now"}
             s    == Stamped(o, now)
             rest == agreed[m] \ now
  <2>1. obj' = [obj EXCEPT ![m][1] = s] /\ agreed' = [agreed EXCEPT ![m] = rest]
    BY <1>6 DEF BeginUpdate
  <2>2. 1 \in 1..2
    OBVIOUS
  <2>3. o \in Object /\ Storable(o) /\ (misread = {} => o.ref # Zero)
    BY <1>2, <2>2, ObjectType DEF IInv, StoredTimes, NoZero
  <2>4. clock \in Clock /\ agreed[m] \subseteq Columns /\ misread \subseteq Clients
    BY <1>2 DEF TypeOK
  <2> HIDE DEF now
  <2>5. /\ s \in Object /\ Storable(s)
        /\ s.id = o.id /\ s.ref = o.ref
        /\ \A c \in Columns \ now : s[c] = o[c]
    BY <2>3, <2>4, StampedFacts
  <2> HIDE DEF s
  <2>6. /\ rest \subseteq Columns
        /\ rest # {} => InTable(o)
        /\ \A c \in rest : rows[o.id][c] = s[c]
    BY <2>4, <2>5 DEF IInv, Agreement
  <2>7. /\ misread' = {} => misread = {} /\ s.ref # Zero
        /\ misread' \subseteq Clients
        /\ UNCHANGED <<rows, clock>>
    BY <1>1, <2>3, <2>4, <2>5
  <2>8. s \in Object /\ Storable(s) /\ s.id = o.id
    BY <2>5
  <2> HIDE DEF rest
  <2> QED
    BY <1>3, <1>4, <2>1, <2>6, <2>7, <2>8, StructStep
<1> QED
  BY <1>5, <1>6

(* The statement that stores new rows: where it puts them, and what it     *)
(* sets in the struct.                                                     *)
Stores(m, count, f) ==
  /\ \A k \in 1..count : rows[f[k]] = Absent
  /\ \A id \in Ids :
       \/ rows'[id] = rows[id] /\ \A k \in 1..count : f[k] # id
       \/ \E k \in 1..count : f[k] = id /\ rows'[id] = AsRow(obj[m][k])
  /\ rows'[f[1]] = AsRow(obj[m][1])
  /\ rows' = [id \in Ids |-> rows'[id]]
  /\ \E cols \in SUBSET Columns :
       /\ agreed' = [agreed EXCEPT ![m] = cols]
       /\ cols # {} => obj'[m][1].id = f[1]
  /\ \/ obj' = obj
     \/ /\ obj' = [obj EXCEPT ![m] = [obj[m] EXCEPT ![1].id = f[1]]]
        /\ call[m].op = "Insert" /\ ~call[m].many

LEMMA InsertEffect ==
  ASSUME TypeOK, NEW m \in Clients, Insert(m)
  PROVE  \E count \in {1, 2} : \E f \in [1..count -> Ids] : Stores(m, count, f)
<1> DEFINE q     == call[m]
           count == IF q.many THEN 2 ELSE 1
<1>1. PICK f \in Keys(m, q) :
        /\ Unused(f)
        /\ rows' = [id \in Ids |->
                      IF \E k \in DOMAIN f : f[k] = id
                      THEN AsRow(obj[m][CHOOSE k \in DOMAIN f : f[k] = id]) ELSE rows[id]]
        /\ \E lost \in Losses :
             /\ obj' = IF lost THEN obj ELSE [obj EXCEPT ![m] = KeySet(m, q, f)]
             /\ agreed' = [agreed EXCEPT ![m] =
                            IF obj'[m][1].id = f[1] /\ ~lost THEN Columns ELSE {}]
  BY DEF Insert
<1>2. f \in [1..count -> Ids] /\ count \in {1, 2}
  BY DEF Keys
<1> HIDE DEF count
<1>3. DOMAIN f = 1..count /\ 1 \in 1..count
  BY <1>2
<1>4. \A k \in 1..count : rows[f[k]] = Absent
  BY <1>1, <1>3 DEF Unused
<1>5. \A j, k \in 1..count : f[j] = f[k] => j = k
  BY <1>1, <1>3 DEF Unused
<1>6. \A k \in 1..count : f[k] \in Ids /\ rows'[f[k]] = AsRow(obj[m][k])
  <2> TAKE k \in 1..count
  <2>1. f[k] \in Ids
    BY <1>2
  <2>2. (CHOOSE j \in DOMAIN f : f[j] = f[k]) = k
    BY <1>3, <1>5
  <2> QED
    BY <1>1, <1>3, <2>1, <2>2
<1>7. \A id \in Ids :
        \/ rows'[id] = rows[id] /\ \A k \in 1..count : f[k] # id
        \/ \E k \in 1..count : f[k] = id /\ rows'[id] = AsRow(obj[m][k])
  <2> TAKE id \in Ids
  <2>1. CASE \E k \in 1..count : f[k] = id
    BY <1>6, <2>1
  <2>2. CASE ~\E k \in 1..count : f[k] = id
    BY <1>1, <1>3, <2>2
  <2> QED
    BY <2>1, <2>2
<1>8. rows' = [id \in Ids |-> rows'[id]]
  BY <1>1
<1>9. PICK lost \in Losses :
        /\ obj' = IF lost THEN obj ELSE [obj EXCEPT ![m] = KeySet(m, q, f)]
        /\ agreed' = [agreed EXCEPT ![m] =
                       IF obj'[m][1].id = f[1] /\ ~lost THEN Columns ELSE {}]
  BY <1>1
<1>10. \E cols \in SUBSET Columns :
         /\ agreed' = [agreed EXCEPT ![m] = cols]
         /\ cols # {} => obj'[m][1].id = f[1]
  <2> DEFINE cols == IF obj'[m][1].id = f[1] /\ ~lost THEN Columns ELSE {}
  <2>1. /\ cols \in SUBSET Columns
        /\ agreed' = [agreed EXCEPT ![m] = cols]
        /\ cols # {} => obj'[m][1].id = f[1]
    BY <1>9
  <2> QED
    BY <2>1
<1>11. \/ obj' = obj
       \/ /\ obj' = [obj EXCEPT ![m] = [obj[m] EXCEPT ![1].id = f[1]]]
          /\ q.op = "Insert" /\ ~q.many
  <2>1. [obj EXCEPT ![m] = obj[m]] = obj
    BY DEF TypeOK
  <2>2. CASE "id" \in AutoOf(q) /\ ~q.many /\ ~q.byValue
    BY <1>9, <2>2 DEF KeySet, AutoOf
  <2>3. CASE ~("id" \in AutoOf(q) /\ ~q.many /\ ~q.byValue)
    BY <1>9, <2>1, <2>3 DEF KeySet
  <2> QED
    BY <2>2, <2>3
<1> QED
  <2>1. rows'[f[1]] = AsRow(obj[m][1])
    BY <1>3, <1>6
  <2>2. Stores(m, count, f)
    BY <1>4, <1>7, <1>8, <1>10, <1>11, <2>1 DEF Stores
  <2> QED
    BY <1>2, <2>2

LEMMA InsertStep ==
  ASSUME IInv, NEW m \in Clients, Insert(m)
  PROVE  Preserves
<1>1. TypeOK
  BY DEF IInv
<1>2. PICK count \in {1, 2} : \E f \in [1..count -> Ids] : Stores(m, count, f)
  BY <1>1, InsertEffect
<1>3. PICK f \in [1..count -> Ids] : Stores(m, count, f)
  BY <1>2
<1>4. 1 \in 1..count /\ f[1] \in Ids /\ \A k \in 1..count : k \in 1..2
  BY <1>2, <1>3
<1>5. \A k \in 1..2 : /\ obj[m][k] \in Object /\ Storable(obj[m][k])
                      /\ misread = {} => obj[m][k].ref # Zero
  BY <1>1, ObjectType DEF IInv, StoredTimes, NoZero
<1>6. \A id \in Ids :
        \/ /\ rows'[id] = rows[id]
           /\ rows[id] # Absent => Storable(rows[id]) /\ (misread = {} => rows[id].ref # Zero)
        \/ /\ rows'[id] \in Row /\ rows'[id] # Absent
           /\ Storable(rows'[id])
           /\ misread = {} => rows'[id].ref # Zero
           /\ rows[id] = Absent
  <2> TAKE id \in Ids
  <2>1. CASE rows'[id] = rows[id]
    BY <2>1 DEF IInv, StoredTimes, NoZero
  <2>2. CASE rows'[id] # rows[id]
    <3>1. PICK k \in 1..count : f[k] = id /\ rows'[id] = AsRow(obj[m][k])
      BY <1>3, <2>2 DEF Stores
    <3>2. rows[id] = Absent
      BY <1>3, <3>1 DEF Stores
    <3> QED
      BY <1>4, <1>5, <3>1, <3>2, AsRowFacts
  <2> QED
    BY <2>1, <2>2
<1>7. /\ obj' \in [Clients -> [1..2 -> Object]]
      /\ \A n \in Clients \ {m} : obj'[n] = obj[n]
      /\ \A k \in 1..2 : /\ Storable(obj'[m][k])
                          /\ obj'[m][k].ref = obj[m][k].ref
                          /\ \A c \in Columns : obj'[m][k][c] = obj[m][k][c]
  <2>1. CASE obj' = obj
    BY <1>1, <1>5, <2>1 DEF TypeOK
  <2>2. CASE obj' = [obj EXCEPT ![m] = [obj[m] EXCEPT ![1].id = f[1]]]
    <3> DEFINE o == [obj[m][1] EXCEPT !.id = f[1]]
    <3>1. 1 \in 1..2 /\ 2 \in 1..2
      OBVIOUS
    <3>2. o \in Object
      BY <1>4, <1>5, <3>1 DEF Object
    <3>3. \A c \in Columns : o[c] = obj[m][1][c]
      BY <1>5, <3>1 DEF Object, Columns
    <3>4. Storable(o) /\ o.ref = obj[m][1].ref
      BY <1>5, <3>1 DEF Object, Storable
    <3>5. obj'[m] = [obj[m] EXCEPT ![1] = o]
      BY <1>1, <2>2 DEF TypeOK
    <3> HIDE DEF o
    <3>6. obj[m] \in [1..2 -> Object]
      BY <1>1 DEF TypeOK
    <3>7. /\ obj'[m] \in [1..2 -> Object]
          /\ obj'[m][1] = o
          /\ \A k \in 1..2 : k # 1 => obj'[m][k] = obj[m][k]
      BY <3>1, <3>2, <3>5, <3>6
    <3>8. \A k \in 1..2 : /\ Storable(obj'[m][k])
                          /\ obj'[m][k].ref = obj[m][k].ref
                          /\ \A c \in Columns : obj'[m][k][c] = obj[m][k][c]
      BY <1>5, <3>3, <3>4, <3>7
    <3> QED
      BY <1>1, <2>2, <3>7, <3>8 DEF TypeOK
  <2> QED
    BY <1>3, <2>1, <2>2 DEF Stores
<1>8. UNCHANGED <<clock, ops, misread>> /\ End(m)
  BY DEF Insert
<1>9. PICK cols \in SUBSET Columns :
        /\ agreed' = [agreed EXCEPT ![m] = cols]
        /\ cols # {} => obj'[m][1].id = f[1]
  BY <1>3 DEF Stores
<1>10. agreed' \in [Clients -> SUBSET Columns]
  BY <1>1, <1>9 DEF TypeOK
<1>11. /\ pc' \in [Clients -> {"idle", "insert", "update"}]
       /\ call' \in [Clients -> Inserts \cup {Idle}]
       /\ chosen' \in [Clients -> SUBSET Columns]
       /\ NeverAdded'
  BY <1>8, EndKept DEF IInv
<1>12. TypeOK'
  <2>1. rows' \in [Ids -> Row \cup {Absent}]
    <3>1. \A id \in Ids : rows'[id] \in Row \cup {Absent}
      BY <1>1, <1>6 DEF TypeOK
    <3>2. rows' = [id \in Ids |-> rows'[id]]
      BY <1>3 DEF Stores
    <3> QED
      BY <3>1, <3>2
  <2> QED
    BY <1>1, <1>7, <1>8, <1>10, <1>11, <2>1 DEF TypeOK
<1>13. StoredTimes'
  BY <1>6, <1>7 DEF IInv, StoredTimes
<1>14. NoZero'
  BY <1>5, <1>6, <1>7, <1>8 DEF IInv, NoZero
<1>15. Agreement'
  <2> SUFFICES ASSUME NEW n \in Clients, agreed'[n] # {}
               PROVE  /\ obj'[n][1].id # Zero /\ rows'[obj'[n][1].id] # Absent
                      /\ \A c \in agreed'[n] : rows'[obj'[n][1].id][c] = obj'[n][1][c]
    BY DEF Agreement, InTable
  <2>1. 1 \in 1..2
    OBVIOUS
  <2>2. CASE n = m
    <3>1. agreed'[n] = cols
      BY <1>1, <1>9, <2>2 DEF TypeOK
    <3>2. obj'[n][1].id = f[1] /\ f[1] # Zero
      BY <1>4, <1>9, <2>2, <3>1, CrudConstants
    <3>3. rows'[f[1]] = AsRow(obj[m][1])
      BY <1>3 DEF Stores
    <3>4. \A c \in Columns : rows'[f[1]][c] = obj'[n][1][c]
      BY <1>5, <1>7, <2>1, <2>2, <3>3, AsRowFacts
    <3>5. rows'[f[1]] # Absent
      BY <1>5, <2>1, <3>3, AsRowFacts
    <3> QED
      BY <1>9, <3>1, <3>2, <3>4, <3>5
  <2>3. CASE n # m
    <3>1. obj'[n] = obj[n] /\ agreed'[n] = agreed[n]
      BY <1>1, <1>7, <1>9, <2>3 DEF TypeOK
    <3>2. /\ InTable(obj[n][1])
          /\ \A c \in agreed[n] : rows[obj[n][1].id][c] = obj[n][1][c]
      BY <3>1 DEF IInv, Agreement
    <3>3. obj[n][1].id \in Ids
      BY <3>2, RowFacts
    <3>4. rows'[obj[n][1].id] = rows[obj[n][1].id]
      BY <1>6, <3>2, <3>3 DEF InTable
    <3> QED
      BY <3>1, <3>2, <3>4 DEF InTable
  <2> QED
    BY <2>2, <2>3
<1> QED
  BY <1>11, <1>12, <1>13, <1>14, <1>15 DEF Preserves

(* What an Update does to the row of its struct and to what is agreed.     *)
LEMMA UpdateEffect ==
  ASSUME TypeOK, NEW m \in Clients, Update(m), InTable(obj[m][1])
  PROVE  LET o == obj[m][1]
             r == [c \in Columns |-> IF c \in chosen[m] THEN AsRow(o)[c] ELSE rows[o.id][c]]
         IN /\ rows' = [rows EXCEPT ![o.id] = r]
            /\ agreed' \in [Clients -> SUBSET Columns]
            /\ agreed'[m] = agreed[m] \cup chosen[m]
            /\ \A n \in Clients \ {m} :
                 agreed'[n] = IF obj[n][1].id = o.id THEN agreed[n] \ chosen[m] ELSE agreed[n]
<1> DEFINE o == obj[m][1]
           over == Overwritten(m, o.id, chosen[m])
<1>1. /\ rows' = [rows EXCEPT ![o.id] =
                     [c \in Columns |-> IF c \in chosen[m] THEN AsRow(o)[c] ELSE @[c]]]
      /\ agreed' = [over EXCEPT ![m] = @ \cup chosen[m]]
  BY DEF Update
<1>2. over = [n \in Clients |->
                IF n # m /\ obj[n][1].id = o.id THEN agreed[n] \ chosen[m] ELSE agreed[n]]
  BY DEF Overwritten
<1>3. over \in [Clients -> SUBSET Columns] /\ over[m] = agreed[m]
  BY <1>2 DEF TypeOK
<1>4. chosen[m] \subseteq Columns /\ agreed[m] \subseteq Columns
  BY DEF TypeOK
<1>5. \A n \in Clients \ {m} :
        over[n] = IF obj[n][1].id = o.id THEN agreed[n] \ chosen[m] ELSE agreed[n]
  BY <1>2
<1> HIDE DEF over
<1>6. agreed' = [over EXCEPT ![m] = agreed[m] \cup chosen[m]]
  BY <1>1, <1>3
<1> QED
  BY <1>1, <1>3, <1>4, <1>5, <1>6

LEMMA UpdateStep ==
  ASSUME IInv, NEW m \in Clients, Update(m)
  PROVE  Preserves
<1> DEFINE o == obj[m][1]
<1>1. TypeOK
  BY DEF IInv
<1>2. UNCHANGED <<clock, obj, ops, misread>> /\ End(m)
  BY DEF Update
<1>3. /\ pc' \in [Clients -> {"idle", "insert", "update"}]
      /\ call' \in [Clients -> Inserts \cup {Idle}]
      /\ chosen' \in [Clients -> SUBSET Columns]
      /\ NeverAdded'
  BY <1>2, EndKept DEF IInv
<1>4. CASE ~InTable(o)
  <2>1. UNCHANGED <<rows, agreed>>
    BY <1>4 DEF Update
  <2>2. StoredTimes' /\ NoZero' /\ Agreement'
    BY <1>2, <2>1, StateKept
  <2>3. TypeOK'
    BY <1>1, <1>2, <1>3, <2>1 DEF TypeOK
  <2> QED
    BY <1>3, <2>2, <2>3 DEF Preserves
<1>5. CASE InTable(o)
  <2> DEFINE r == [c \in Columns |-> IF c \in chosen[m] THEN AsRow(o)[c] ELSE rows[o.id][c]]
  <2>1. /\ rows' = [rows EXCEPT ![o.id] = r]
        /\ agreed' \in [Clients -> SUBSET Columns]
        /\ agreed'[m] = agreed[m] \cup chosen[m]
        /\ \A n \in Clients \ {m} :
             agreed'[n] = IF obj[n][1].id = o.id THEN agreed[n] \ chosen[m] ELSE agreed[n]
    BY <1>1, <1>5, UpdateEffect
  <2>2. 1 \in 1..2
    OBVIOUS
  <2>3. o \in Object /\ Storable(o) /\ (misread = {} => o.ref # Zero)
    BY <1>1, <2>2, ObjectType DEF IInv, StoredTimes, NoZero
  <2>4. /\ AsRow(o) \in Row /\ Storable(AsRow(o)) /\ AsRow(o).ref = o.ref
        /\ \A c \in Columns : AsRow(o)[c] = o[c]
    BY <2>3, AsRowFacts
  <2>5. /\ o.id \in Ids
        /\ rows[o.id] \in Row
        /\ Storable(rows[o.id])
        /\ misread = {} => rows[o.id].ref # Zero
    BY <1>5, RowFacts
  <2>6. /\ r \in Row
        /\ Storable(r)
        /\ misread = {} => r.ref # Zero
        /\ \A c \in Columns : r[c] = IF c \in chosen[m] THEN o[c] ELSE rows[o.id][c]
    <3>1. r \in Row
      BY <2>4, <2>5 DEF Row, Columns
    <3>2. \A c \in Columns : r[c] = IF c \in chosen[m] THEN AsRow(o)[c] ELSE rows[o.id][c]
      OBVIOUS
    <3> HIDE DEF r
    <3>3. Storable(r)
      BY <2>4, <2>5, <3>2 DEF Storable, Columns
    <3>4. misread = {} => r.ref # Zero
      BY <2>3, <2>4, <2>5, <3>2 DEF Columns
    <3> QED
      BY <2>4, <3>1, <3>2, <3>3, <3>4
  <2>7. r # Absent
    BY <2>6, StoredAssumption
  <2> HIDE DEF r, o
  <2>8. rows'[o.id] = r /\ \A id \in Ids : id # o.id => rows'[id] = rows[id]
    BY <1>1, <2>1, <2>5 DEF TypeOK
  <2>9. TypeOK'
    <3>1. rows' \in [Ids -> Row \cup {Absent}]
      BY <1>1, <2>1, <2>6 DEF TypeOK
    <3> QED
      BY <1>1, <1>2, <1>3, <2>1, <3>1 DEF TypeOK
  <2>10. StoredTimes'
    BY <1>2, <2>6, <2>8 DEF IInv, StoredTimes
  <2>11. NoZero'
    BY <1>2, <2>6, <2>8 DEF IInv, NoZero
  <2>12. Agreement'
    <3> SUFFICES ASSUME NEW n \in Clients, agreed'[n] # {}
                 PROVE  /\ obj'[n][1].id # Zero /\ rows'[obj'[n][1].id] # Absent
                        /\ \A c \in agreed'[n] : rows'[obj'[n][1].id][c] = obj'[n][1][c]
      BY DEF Agreement, InTable
    <3>1. chosen[m] \subseteq Columns /\ agreed[n] \subseteq Columns
      BY <1>1 DEF TypeOK
    <3>2. CASE n = m
      <4>1. o = obj[n][1]
        BY <3>2 DEF o
      <4>2. \A c \in agreed[n] : rows[o.id][c] = o[c]
        BY <4>1 DEF IInv, Agreement
      <4>3. o.id # Zero
        BY <1>5 DEF InTable
      <4> QED
        BY <1>2, <2>1, <2>6, <2>7, <2>8, <3>1, <3>2, <4>1, <4>2, <4>3
    <3>3. CASE n # m
      <4> DEFINE p == obj[n][1]
      <4>1. agreed[n] # {} /\ agreed'[n] \subseteq agreed[n]
        BY <2>1, <3>3
      <4>2. InTable(p) /\ \A c \in agreed[n] : rows[p.id][c] = p[c]
        BY <4>1 DEF IInv, Agreement
      <4>3. p.id \in Ids /\ p.id # Zero /\ rows[p.id] # Absent
        BY <4>2, RowFacts DEF InTable
      <4>4. CASE p.id = o.id
        <5>1. agreed'[n] = agreed[n] \ chosen[m]
          BY <2>1, <3>3, <4>4
        <5> QED
          BY <1>2, <2>6, <2>7, <2>8, <3>1, <4>2, <4>3, <4>4, <5>1
      <4>5. CASE p.id # o.id
        BY <1>2, <2>8, <4>1, <4>2, <4>3, <4>5
      <4> QED
        BY <4>4, <4>5
    <3> QED
      BY <3>2, <3>3
  <2> QED
    BY <1>3, <2>9, <2>10, <2>11, <2>12 DEF Preserves
<1> QED
  BY <1>4, <1>5

LEMMA DeleteStep ==
  ASSUME IInv, NEW m \in Clients, Delete(m)
  PROVE  Preserves
<1> DEFINE k == obj[m][1].id
<1>1. TypeOK
  BY DEF IInv
<1>2. /\ Start(m) /\ End(m)
      /\ rows' = [id \in Ids |-> IF id = k THEN Absent ELSE rows[id]]
      /\ agreed' = [n \in Clients |-> IF obj[n][1].id = k THEN {} ELSE agreed[n]]
      /\ UNCHANGED <<clock, obj, misread>>
  BY DEF Delete
<1>3. /\ pc' \in [Clients -> {"idle", "insert", "update"}]
      /\ call' \in [Clients -> Inserts \cup {Idle}]
      /\ chosen' \in [Clients -> SUBSET Columns]
      /\ NeverAdded'
      /\ ops' \in 0..MaxOps
  BY <1>2, StartKept, EndKept DEF IInv
<1>4. TypeOK'
  BY <1>1, <1>2, <1>3 DEF TypeOK
<1>5. \A id \in Ids : rows'[id] # Absent => id # k /\ rows'[id] = rows[id]
  BY <1>2
<1>6. StoredTimes'
  BY <1>2, <1>5 DEF IInv, StoredTimes
<1>7. NoZero'
  BY <1>2, <1>5 DEF IInv, NoZero
<1>8. Agreement'
  <2> SUFFICES ASSUME NEW n \in Clients, agreed'[n] # {}
               PROVE  /\ obj'[n][1].id # Zero /\ rows'[obj'[n][1].id] # Absent
                      /\ \A c \in agreed'[n] : rows'[obj'[n][1].id][c] = obj'[n][1][c]
    BY DEF Agreement, InTable
  <2> DEFINE p == obj[n][1]
  <2>1. p.id # k /\ agreed'[n] = agreed[n]
    BY <1>2
  <2>2. InTable(p) /\ \A c \in agreed[n] : rows[p.id][c] = p[c]
    BY <2>1 DEF IInv, Agreement
  <2>3. p.id \in Ids /\ p.id # Zero /\ rows[p.id] # Absent
    BY <2>2, RowFacts DEF InTable
  <2>4. rows'[p.id] = rows[p.id]
    BY <1>2, <2>1, <2>3
  <2> QED
    BY <1>2, <2>1, <2>2, <2>3, <2>4
<1> QED
  BY <1>3, <1>4, <1>6, <1>7, <1>8 DEF Preserves

LEMMA StepInvariant == IInv /\ [Next]_vars => IInv'
<1> SUFFICES ASSUME IInv, [Next]_vars PROVE Preserves
  BY DEF Preserves, IInv
<1>1. CASE Tick
  BY <1>1, TickStep
<1>2. ASSUME NEW m \in Clients, NEW q \in Inserts, BeginInsert(m, q) PROVE Preserves
  BY <1>2, BeginInsertStep
<1>3. ASSUME NEW m \in Clients, Insert(m) PROVE Preserves
  BY <1>3, InsertStep
<1>4. ASSUME NEW m \in Clients, InsertFails(m) \/ UpdateFails(m) PROVE Preserves
  <2>1. End(m) /\ UNCHANGED <<rows, clock, obj, agreed, misread>> /\ ops' \in 0..MaxOps
    BY <1>4 DEF InsertFails, UpdateFails, IInv, TypeOK
  <2> QED
    BY <2>1, RefusedStep
<1>5. ASSUME NEW m \in Clients, NEW sel \in Selections, SelectRefused(m, sel) PROVE Preserves
  <2>1. Start(m) /\ End(m) /\ UNCHANGED <<rows, clock, obj, agreed, misread>>
    BY <1>5 DEF SelectRefused
  <2>2. ops' \in 0..MaxOps
    BY <2>1, StartKept DEF IInv
  <2> QED
    BY <2>1, <2>2, RefusedStep
<1>6. ASSUME NEW m \in Clients, DeleteFails(m) PROVE Preserves
  <2>1. Start(m) /\ End(m) /\ UNCHANGED <<rows, clock, obj, agreed, misread>>
    BY <1>6 DEF DeleteFails
  <2>2. ops' \in 0..MaxOps
    BY <2>1, StartKept DEF IInv
  <2> QED
    BY <2>1, <2>2, RefusedStep
<1>7. ASSUME NEW m \in Clients, NEW sel \in Selections, Select(m, sel) PROVE Preserves
  BY <1>7, SelectStep
<1>8. ASSUME NEW m \in Clients, NEW sel \in Selections, SelectFails(m, sel) PROVE Preserves
  BY <1>8, SelectFailsStep
<1>9. ASSUME NEW m \in Clients, NEW sel \in Selections, NEW byValue \in BOOLEAN,
             BeginUpdate(m, sel, byValue)
      PROVE  Preserves
  BY <1>9, BeginUpdateStep
<1>10. ASSUME NEW m \in Clients, Update(m) PROVE Preserves
  BY <1>10, UpdateStep
<1>11. ASSUME NEW m \in Clients, Delete(m) PROVE Preserves
  BY <1>11, DeleteStep
<1>12. CASE UNCHANGED vars
  <2>1. StoredTimes' /\ NoZero' /\ Agreement'
    BY <1>12, StateKept DEF vars
  <2> QED
    BY <1>12, <2>1 DEF vars, IInv, TypeOK, NeverAdded, Preserves
<1> QED
  BY <1>1, <1>2, <1>3, <1>4, <1>5, <1>6, <1>7, <1>8, <1>9, <1>10, <1>11, <1>12 DEF Next

LEMMA Invariant == Spec => []IInv
<1>1. Init => IInv
  BY InitInvariant
<1>2. IInv /\ [Next]_vars => IInv'
  BY StepInvariant
<1> QED
  BY <1>1, <1>2, PTL DEF Spec

-----------------------------------------------------------------------------
(* The theorems.                                                           *)

(* Every struct, row, statement and history variable has its type: no      *)
(* Insert, Load, Select, Update or Delete leaves a struct or a row with a  *)
(* value that its columns cannot have.                                     *)
THEOREM CrudTypeCorrect == Spec => []TypeOK
<1>1. IInv => TypeOK
  BY DEF IInv
<1> QED
  BY <1>1, Invariant, PTL

(* After an Insert, a Load, a Select or an Update that returned nil, the   *)
(* struct and its row hold the same in every column the operation was      *)
(* about, until another client sets it.                                    *)
THEOREM StructsAgree == Spec => []Agreement
<1>1. IInv => Agreement
  BY DEF IInv
<1> QED
  BY <1>1, Invariant, PTL

(* No nil relation is ever stored as a reference to key zero, unless a     *)
(* Select failed and left an allocated struct behind.                      *)
THEOREM NilIsNull == Spec => []NilStaysNull
<1>1. IInv => NilStaysNull
  BY DEF IInv, NoZero, NilStaysNull
<1> QED
  BY <1>1, Invariant, PTL

(* What a step does to a row that was there and stays.                     *)
LEMMA AddedStep ==
  ASSUME IInv, [Next]_vars, NEW id \in Ids,
         "added" \in Automatic, rows[id] # Absent, rows'[id] # Absent
  PROVE  rows'[id].added = rows[id].added
<1>1. TypeOK
  BY DEF IInv
<1>2. CASE UNCHANGED rows
  BY <1>2
<1>3. ASSUME NEW m \in Clients, Insert(m)
      PROVE  rows'[id].added = rows[id].added
  <2>1. PICK count \in {1, 2} : \E f \in [1..count -> Ids] : Stores(m, count, f)
    BY <1>1, <1>3, InsertEffect
  <2> QED
    BY <2>1 DEF Stores
<1>4. ASSUME NEW m \in Clients, Update(m)
      PROVE  rows'[id].added = rows[id].added
  <2> DEFINE o == obj[m][1]
             r == [c \in Columns |-> IF c \in chosen[m] THEN AsRow(o)[c] ELSE rows[o.id][c]]
  <2>1. CASE ~InTable(o)
    BY <1>4, <2>1 DEF Update
  <2>2. CASE InTable(o)
    <3>1. rows' = [rows EXCEPT ![o.id] = r]
      BY <1>1, <1>4, <2>2, UpdateEffect
    <3>2. "added" \notin chosen[m]
      BY DEF IInv, NeverAdded
    <3>3. r.added = rows[o.id].added
      BY <3>2 DEF Columns
    <3> HIDE DEF r, o
    <3> QED
      BY <1>1, <3>1, <3>3 DEF TypeOK
  <2> QED
    BY <2>1, <2>2
<1>5. ASSUME NEW m \in Clients, Delete(m)
      PROVE  rows'[id].added = rows[id].added
  BY <1>5 DEF Delete
<1>6. CASE Tick
  BY <1>2, <1>6 DEF Tick
<1>7. ASSUME NEW m \in Clients, NEW q \in Inserts, BeginInsert(m, q) PROVE UNCHANGED rows
  BY <1>7 DEF BeginInsert
<1>8. ASSUME NEW m \in Clients, InsertFails(m) \/ UpdateFails(m) \/ DeleteFails(m)
      PROVE  UNCHANGED rows
  BY <1>8 DEF InsertFails, UpdateFails, DeleteFails
<1>9. ASSUME NEW m \in Clients, NEW sel \in Selections,
             SelectRefused(m, sel) \/ Select(m, sel) \/ SelectFails(m, sel)
      PROVE  UNCHANGED rows
  BY <1>9 DEF SelectRefused, Select, SelectFails
<1>10. ASSUME NEW m \in Clients, NEW sel \in Selections, NEW byValue \in BOOLEAN,
              BeginUpdate(m, sel, byValue)
       PROVE  UNCHANGED rows
  BY <1>10 DEF BeginUpdate
<1>11. CASE UNCHANGED vars
  BY <1>2, <1>11 DEF vars
<1> QED
  BY <1>2, <1>3, <1>4, <1>5, <1>6, <1>7, <1>8, <1>9, <1>10, <1>11 DEF Next

(* A row keeps the time at which it was added as long as it exists: no     *)
(* columns argument makes an Update set the auto_now_add column.           *)
THEOREM AddedTimeKept == Spec => AddedKept
<1>1. IInv /\ [Next]_vars =>
        \A id \in Ids : "added" \in Automatic /\ rows[id] # Absent /\ rows'[id] # Absent =>
          rows'[id].added = rows[id].added
  BY AddedStep
<1> QED
  BY <1>1, Invariant, PTL DEF Spec, AddedKept

(* Which steps change the keys of structs, and how.                        *)
OnlyInsertSetsKey ==
  \A m \in Clients : \A k \in 1..2 : obj'[m][k].id # obj[m][k].id =>
    /\ call[m].op = "Insert" /\ ~call[m].many
    /\ rows[obj'[m][k].id] = Absent
    /\ rows'[obj'[m][k].id] # Absent

LEMMA KeyStep ==
  ASSUME IInv, [Next]_vars
  PROVE  OnlyInsertSetsKey
<1>1. TypeOK
  BY DEF IInv
<1>2. 1 \in 1..2 /\ 2 \in 1..2
  OBVIOUS
(* The first struct of a client is replaced by one with the same key.      *)
<1>3. ASSUME NEW m \in Clients, NEW o, obj' = [obj EXCEPT ![m][1] = o], o.id = obj[m][1].id
      PROVE  OnlyInsertSetsKey
  BY <1>1, <1>2, <1>3 DEF TypeOK, OnlyInsertSetsKey
<1>4. CASE UNCHANGED obj
  BY <1>4 DEF OnlyInsertSetsKey
<1>5. ASSUME NEW m \in Clients, Insert(m) PROVE OnlyInsertSetsKey
  <2>1. PICK count \in {1, 2} : \E f \in [1..count -> Ids] : Stores(m, count, f)
    BY <1>1, <1>5, InsertEffect
  <2>2. PICK f \in [1..count -> Ids] : Stores(m, count, f)
    BY <2>1
  <2>3. CASE obj' = obj
    BY <1>4, <2>3
  <2>4. CASE obj' = [obj EXCEPT ![m] = [obj[m] EXCEPT ![1].id = f[1]]]
                /\ call[m].op = "Insert" /\ ~call[m].many
    <3>1. 1 \in 1..count /\ f[1] \in Ids
      BY <2>1
    <3>2. rows[f[1]] = Absent /\ rows'[f[1]] = AsRow(obj[m][1])
      BY <2>2, <3>1 DEF Stores
    <3>3. rows'[f[1]] # Absent
      BY <1>1, <1>2, <3>2, ObjectType, AsRowFacts
    <3>4. obj'[m] = [obj[m] EXCEPT ![1].id = f[1]] /\ \A n \in Clients : n # m => obj'[n] = obj[n]
      BY <1>1, <2>4 DEF TypeOK
    <3>5. obj[m] \in [1..2 -> Object]
      BY <1>1 DEF TypeOK
    <3>6. obj'[m][1].id = f[1] /\ \A k \in 1..2 : k # 1 => obj'[m][k] = obj[m][k]
      BY <1>2, <3>4, <3>5 DEF Object
    <3> QED
      BY <2>4, <3>2, <3>3, <3>4, <3>6 DEF OnlyInsertSetsKey
  <2> QED
    BY <2>2, <2>3, <2>4 DEF Stores
<1>6. ASSUME NEW m \in Clients, NEW q \in Inserts, BeginInsert(m, q) PROVE OnlyInsertSetsKey
  <2> DEFINE times == AutoOf(q) \cap {"added", "now"}
             stamped == {k \in 1..2 : (k = 1 \/ q.many) /\ ~(k = 2 /\ q.nil) /\ ~q.byValue}
  <2>1. obj' = [obj EXCEPT ![m] =
                  [k \in 1..2 |-> IF k \in stamped THEN Stamped(@[k], times) ELSE @[k]]]
    BY <1>6 DEF BeginInsert
  <2>2. /\ obj'[m] = [k \in 1..2 |-> IF k \in stamped THEN Stamped(obj[m][k], times) ELSE obj[m][k]]
        /\ \A n \in Clients : n # m => obj'[n] = obj[n]
    BY <1>1, <2>1 DEF TypeOK
  <2>3. \A k \in 1..2 : Stamped(obj[m][k], times).id = obj[m][k].id
    <3>1. clock \in Clock /\ \A k \in 1..2 : obj[m][k] \in Object /\ Storable(obj[m][k])
      BY <1>1 DEF TypeOK, IInv, StoredTimes
    <3> QED
      BY <3>1, StampedFacts
  <2> HIDE DEF stamped
  <2>4. \A k \in 1..2 : obj'[m][k].id = obj[m][k].id
    BY <2>2, <2>3
  <2> QED
    BY <2>2, <2>4 DEF OnlyInsertSetsKey
<1>7. ASSUME NEW m \in Clients, NEW sel \in Selections, Select(m, sel) PROVE OnlyInsertSetsKey
  <2> DEFINE o == obj[m][1]
             s == Scanned(o, rows[o.id], Chosen(sel, Columns))
  <2>1. obj' = [obj EXCEPT ![m][1] = s] /\ s.id = o.id
    BY <1>7 DEF Select, Scanned
  <2> QED
    BY <1>3, <2>1
<1>8. ASSUME NEW m \in Clients, NEW sel \in Selections, SelectFails(m, sel) PROVE OnlyInsertSetsKey
  <2> DEFINE o    == obj[m][1]
             cols == Chosen(sel, Columns)
             a    == Allocated(o, cols)
             s    == IF InTable(o) /\ ~Found(m, cols)
                     THEN Scanned(a, rows[o.id], cols \cap {"data"}) ELSE a
  <2>1. obj' = [obj EXCEPT ![m][1] = s]
    BY <1>8 DEF SelectFails
  <2>2. a.id = o.id
    BY <1>1, <1>2, ObjectType, AllocatedFacts
  <2>3. s.id = o.id
    BY <2>2 DEF Scanned
  <2> HIDE DEF s
  <2> QED
    BY <1>3, <2>1, <2>3
<1>9. ASSUME NEW m \in Clients, NEW sel \in Selections, NEW byValue \in BOOLEAN,
             BeginUpdate(m, sel, byValue)
      PROVE  OnlyInsertSetsKey
  <2> DEFINE o == obj[m][1]
             s == Stamped(o, Times \cap {"now"})
  <2>1. CASE UNCHANGED obj
    BY <1>4, <2>1
  <2>2. CASE ~UNCHANGED obj
    <3>1. obj' = [obj EXCEPT ![m][1] = s]
      BY <1>9, <2>2 DEF BeginUpdate
    <3>2. o \in Object /\ Storable(o) /\ clock \in Clock
      BY <1>1, <1>2, ObjectType DEF TypeOK, IInv, StoredTimes
    <3>3. s.id = o.id
      BY <3>2, StampedFacts
    <3> HIDE DEF s
    <3> QED
      BY <1>3, <3>1, <3>3
  <2> QED
    BY <2>1, <2>2
<1>10. CASE Tick
  BY <1>4, <1>10 DEF Tick
<1>11. ASSUME NEW m \in Clients, InsertFails(m) \/ UpdateFails(m) \/ DeleteFails(m)
       PROVE  UNCHANGED obj
  BY <1>11 DEF InsertFails, UpdateFails, DeleteFails
<1>12. ASSUME NEW m \in Clients, Update(m) \/ Delete(m) PROVE UNCHANGED obj
  BY <1>12 DEF Update, Delete
<1>13. ASSUME NEW m \in Clients, NEW sel \in Selections, SelectRefused(m, sel) PROVE UNCHANGED obj
  BY <1>13 DEF SelectRefused
<1>14. CASE UNCHANGED vars
  BY <1>4, <1>14 DEF vars
<1> QED
  BY <1>4, <1>5, <1>6, <1>7, <1>8, <1>9, <1>10, <1>11, <1>12, <1>13, <1>14 DEF Next

(* A struct gets a key from the library only by a single Insert, and then  *)
(* the key of a row that this Insert added.                                *)
THEOREM KeysSetOnce == Spec => KeySetOnce
<1>1. IInv /\ [Next]_vars => OnlyInsertSetsKey
  BY KeyStep
<1> QED
  BY <1>1, Invariant, PTL DEF Spec, KeySetOnce, OnlyInsertSetsKey
=============================================================================
