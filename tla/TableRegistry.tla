--------------------------- MODULE TableRegistry ---------------------------
(***************************************************************************)
(* The metadata registry of internal/table: tableOf turns a Go struct type *)
(* into a Table, following the relations of its columns recursively, and   *)
(* publishes every finished Table in the process-wide map "tables", which  *)
(* is guarded by the read-write lock tmutex.                               *)
(*                                                                         *)
(* Every operation of the library starts with one call of TableOf.  Calls  *)
(* run concurrently.  A call owns a private map x of the types it has      *)
(* started, which is what makes the recursion end on cyclic schemas; a     *)
(* table built by call c for type t is therefore named by the pair <<c,t>>.*)
(* Each critical section of tmutex is one atomic step; everything between  *)
(* two of them touches only tables the call itself is building, or reads   *)
(* tables it has been handed.                                              *)
(***************************************************************************)
EXTENDS Integers, Sequences

CONSTANTS
  Calls,       \* concurrent calls of TableOf
  Types,       \* Go struct types
  Nil,         \* the nil pointer, and an absent type
  MaxCols,     \* the most columns a struct of Schema has
  Schema,      \* what reflection says of each struct type
  Names,       \* column names
  NoName,      \* the empty name of a column that is not named yet
  ColumnName,  \* ColumnName[t][i][k]: the name that column i of t gets when
               \* the primary key column it refers to is named k
  LeftName,    \* LeftName[t][i][k]: the same for NameLeft of a many_to_many
  TagName      \* TagName[t][i]: the name that the tag of column i of t gives
               \* it (NoName: none, or the column is a many_to_many)

OneRelation  == {"one_to_one", "many_to_one"}
ManyRelation == {"one_to_many", "many_to_many"}
Kinds        == {"plain"} \cup OneRelation \cup ManyRelation

(* A column as its struct tag declares it. "legal" is FALSE for a relation *)
(* field that also has an encoding, a getter or a setter; left and right   *)
(* are the fields that ThroughTable names, 0 when there is no such field.  *)
ColumnDecl == [kind : Kinds, target : Types \cup {Nil}, legal : BOOLEAN,
               through : Types \cup {Nil},
               left : 0..MaxCols, right : 0..MaxCols]

(* A struct: whether its tags parse, its primary key column (0: none) and  *)
(* its columns in the order in which they are declared.                    *)
StructDecl == [parses : BOOLEAN, key : 0..MaxCols, cols : Seq(ColumnDecl)]

Cols(t)      == 1..Len(Schema[t].cols)
Column(t, i) == Schema[t].cols[i]
Key(t)       == Schema[t].key

(* A relation to many rows as the primary key does not parse.              *)
ASSUME SchemaAssumption ==
  /\ MaxCols \in Nat
  /\ Nil \notin Types \cup (Calls \X Types)
  /\ Schema \in [Types -> StructDecl]
  /\ \A t \in Types :
       /\ Len(Schema[t].cols) <= MaxCols
       /\ Key(t) # 0 => Key(t) \in Cols(t)
       /\ Schema[t].parses /\ Key(t) # 0 => Column(t, Key(t)).kind \notin ManyRelation
       /\ \A i \in Cols(t) :
            Column(t, i).kind # "plain" => Column(t, i).target \in Types

ASSUME NamesAssumption ==
  /\ NoName \in Names
  /\ ColumnName \in [Types -> [1..MaxCols -> [Names -> Names]]]
  /\ LeftName \in [Types -> [1..MaxCols -> [Names -> Names]]]
  /\ TagName \in [Types -> [1..MaxCols -> Names]]
  /\ \A t \in Types, i \in 1..MaxCols : TagName[t][i] # NoName =>
       \A k \in Names : ColumnName[t][i][k] = TagName[t][i]

VARIABLES
  tables,  \* the published table of each type
  x,       \* the types each call has started to build
  inited,  \* the columns of each table whose init has returned
  rel,     \* RelationTable of each column
  thr,     \* ThroughTable of each column
  name,    \* Name of a column, NameRight of a many_to_many one
  stack,   \* the types whose tableOf is active in each call, innermost first
  st,      \* where each call is
  arg,     \* the argument of the tableOf that is about to look its type up
  ret      \* the last table returned to the caller's frame

vars == <<tables, x, inited, rel, thr, name, stack, st, arg, ret>>
heap == <<inited, rel, thr, name>>

Tables == Calls \X Types
Ended  == {"done", "failed", "panicked"}
States == {"idle", "lookup", "init", "returned"} \cup Ended

Init ==
  /\ tables = [t \in Types |-> Nil]
  /\ x      = [c \in Calls |-> {}]
  /\ inited = [T \in Tables |-> {}]
  /\ rel    = [T \in Tables |-> [i \in 1..MaxCols |-> Nil]]
  /\ thr    = [T \in Tables |-> [i \in 1..MaxCols |-> Nil]]
  /\ name   = [T \in Tables |-> [i \in 1..MaxCols |-> NoName]]
  /\ stack  = [c \in Calls |-> <<>>]
  /\ st     = [c \in Calls |-> "idle"]
  /\ arg    = [c \in Calls |-> Nil]
  /\ ret    = [c \in Calls |-> Nil]

-----------------------------------------------------------------------------
(* The table under construction in the innermost tableOf of call c.        *)
Frame(c) == <<c, Head(stack[c])>>

(* Bug: the columns are initialised as declared, the primary key too.      *)
DeclaredOrderDue(T) ==
  LET left == Cols(T[2]) \ inited[T]
  IN  {i \in left : \A j \in left : i <= j}

(* The primary key is initialised first, then the others as declared.      *)
Due(T) ==
  LET left == Cols(T[2]) \ inited[T]
  IN  {i \in left : \/ i = Key(T[2])
                    \/ Key(T[2]) \notin left /\ \A j \in left : i <= j}

ColumnMap(T) ==
  {name[T][i] : i \in {j \in inited[T] : Column(T[2], j).kind \notin ManyRelation}}

(* Name of the primary key column of T: empty until that column is named,  *)
(* by its tag or by its init.                                              *)
KeyName(T) == IF Key(T[2]) = 0 THEN NoName ELSE name[T][Key(T[2])]

Goto(c, s) == st' = [st EXCEPT ![c] = s]

(* Bug: the error of an init is dropped, and the user is told all is well. *)
FailIgnored(c) == Goto(c, "done")
Fail(c)        == Goto(c, "failed")

(* A tableOf returns T to the frame below it, or to the user of the call.  *)
Return(c, T, below) ==
  /\ ret' = [ret EXCEPT ![c] = T]
  /\ Goto(c, IF below = <<>> THEN "done" ELSE "returned")

SetName(c, i, n) == name' = [name EXCEPT ![Frame(c)][i] = n]

(* init of column i returns without an error.                              *)
Initialised(c, i) ==
  /\ inited' = [inited EXCEPT ![Frame(c)] = @ \cup {i}]
  /\ Goto(c, "init")

(* A column of the struct's own table takes the name n unless it is taken. *)
NameColumn(c, i, n) ==
  /\ SetName(c, i, n)
  /\ \/ n \in ColumnMap(Frame(c)) /\ Fail(c) /\ UNCHANGED inited
     \/ n \notin ColumnMap(Frame(c)) /\ Initialised(c, i)

-----------------------------------------------------------------------------
(* A user calls TableOf(t), with an empty map x.                           *)
Call(c, t) ==
  /\ st[c] = "idle"
  /\ arg' = [arg EXCEPT ![c] = t]
  /\ Goto(c, "lookup")
  /\ UNCHANGED <<tables, x, heap, stack, ret>>

(* The type is published: return that table.                               *)
LookupCached(c) ==
  /\ st[c] = "lookup"
  /\ tables[arg[c]] # Nil
  /\ Return(c, tables[arg[c]], stack[c])
  /\ UNCHANGED <<tables, x, heap, stack, arg>>

(* Bug: a type under construction is waited for.                           *)
LookupOwnWaiting(c) ==
  /\ st[c] = "lookup"
  /\ arg[c] \in x[c]
  /\ tables[arg[c]] # Nil
  /\ Return(c, <<c, arg[c]>>, stack[c])
  /\ UNCHANGED <<tables, x, heap, stack, arg>>

(* This call is already building the type: return the unfinished table.    *)
LookupOwn(c) ==
  /\ st[c] = "lookup"
  /\ tables[arg[c]] = Nil
  /\ arg[c] \in x[c]
  /\ Return(c, <<c, arg[c]>>, stack[c])
  /\ UNCHANGED <<tables, x, heap, stack, arg>>

(* Bug: the recursion on a cyclic schema is ended by publishing the table  *)
(* before its columns are initialised.                                     *)
LookupNewPublishing(c) ==
  /\ st[c] = "lookup"
  /\ tables[arg[c]] = Nil
  /\ arg[c] \notin x[c]
  /\ x' = [x EXCEPT ![c] = @ \cup {arg[c]}]
  /\ tables' = [tables EXCEPT ![arg[c]] = <<c, arg[c]>>]
  /\ name' = [name EXCEPT ![<<c, arg[c]>>] = TagName[arg[c]]]
  /\ stack' = [stack EXCEPT ![c] = <<arg[c]>> \o @]
  /\ Goto(c, IF Schema[arg[c]].parses THEN "init" ELSE "failed")
  /\ UNCHANGED <<inited, rel, thr, arg, ret>>

(* Bug: the table is not recorded in x.                                    *)
LookupNewUnrecorded(c) ==
  /\ st[c] = "lookup"
  /\ tables[arg[c]] = Nil
  /\ arg[c] \notin x[c]
  /\ name' = [name EXCEPT ![<<c, arg[c]>>] = TagName[arg[c]]]
  /\ stack' = [stack EXCEPT ![c] = <<arg[c]>> \o @]
  /\ Goto(c, IF Schema[arg[c]].parses THEN "init" ELSE "failed")
  /\ UNCHANGED <<tables, x, inited, rel, thr, arg, ret>>

(* Start a new table.  Parsing its tags may fail; it gives the columns     *)
(* that have a name in their tag that name, long before their init.        *)
LookupNew(c) ==
  /\ st[c] = "lookup"
  /\ tables[arg[c]] = Nil
  /\ arg[c] \notin x[c]
  /\ x' = [x EXCEPT ![c] = @ \cup {arg[c]}]
  /\ name' = [name EXCEPT ![<<c, arg[c]>>] = TagName[arg[c]]]
  /\ stack' = [stack EXCEPT ![c] = <<arg[c]>> \o @]
  /\ Goto(c, IF Schema[arg[c]].parses THEN "init" ELSE "failed")
  /\ UNCHANGED <<tables, inited, rel, thr, arg, ret>>

(* init of a column that is no relation.                                   *)
InitPlain(c, i) ==
  /\ st[c] = "init"
  /\ i \in Due(Frame(c))
  /\ Column(Frame(c)[2], i).kind = "plain"
  /\ NameColumn(c, i, ColumnName[Frame(c)[2]][i][NoName])
  /\ UNCHANGED <<tables, x, rel, thr, stack, arg, ret>>

(* init of a relation: fail, or call tableOf for the related type.         *)
InitRelation(c, i) ==
  /\ st[c] = "init"
  /\ i \in Due(Frame(c))
  /\ LET col == Column(Frame(c)[2], i)
     IN  /\ col.kind # "plain"
         /\ \/ ~col.legal /\ Fail(c) /\ UNCHANGED arg
            \/ /\ col.legal
               /\ arg' = [arg EXCEPT ![c] = col.target]
               /\ Goto(c, "lookup")
  /\ UNCHANGED <<tables, x, heap, stack, ret>>

(* The related table has come back to the init of column i.                *)
BindRelation(c, i) ==
  /\ st[c] = "returned"
  /\ i \in Due(Frame(c))
  /\ rel[Frame(c)][i] = Nil
  /\ rel' = [rel EXCEPT ![Frame(c)][i] = ret[c]]
  /\ UNCHANGED <<tables, x, thr, stack, ret>>

(* Bug: only the primary key of the struct itself is asked for.            *)
NeedsOwnKey(t, col) == col.kind \in ManyRelation /\ Key(t) = 0

(* A relation that needs a primary key on a side that has none.            *)
NeedsKey(t, col) ==
  \/ col.kind \in ManyRelation /\ Key(t) = 0
  \/ col.kind # "one_to_many" /\ Key(col.target) = 0

BindKeyless(c, i) ==
  /\ BindRelation(c, i)
  /\ NeedsKey(Frame(c)[2], Column(Frame(c)[2], i))
  /\ Fail(c)
  /\ UNCHANGED <<inited, name, arg>>

BindOne(c, i) ==
  LET t == Frame(c)[2] IN
  /\ BindRelation(c, i)
  /\ Column(t, i).kind \in OneRelation
  /\ ~NeedsKey(t, Column(t, i))
  /\ NameColumn(c, i, ColumnName[t][i][KeyName(ret[c])])
  /\ UNCHANGED arg

BindOneToMany(c, i) ==
  LET t == Frame(c)[2] IN
  /\ BindRelation(c, i)
  /\ Column(t, i).kind = "one_to_many"
  /\ ~NeedsKey(t, Column(t, i))
  /\ SetName(c, i, ColumnName[t][i][KeyName(Frame(c))])
  /\ Initialised(c, i)
  /\ UNCHANGED arg

(* A many_to_many names both join columns, then looks its through table up *)
(* or, without one, insists that the two names differ.                     *)
BindManyToMany(c, i) ==
  LET t   == Frame(c)[2]
      col == Column(t, i)
      right == ColumnName[t][i][KeyName(ret[c])]
  IN
  /\ BindRelation(c, i)
  /\ col.kind = "many_to_many"
  /\ ~NeedsKey(t, col)
  /\ SetName(c, i, right)
  /\ \/ /\ col.through # Nil
        /\ arg' = [arg EXCEPT ![c] = col.through]
        /\ Goto(c, "lookup")
        /\ UNCHANGED inited
     \/ /\ col.through = Nil
        /\ LeftName[t][i][KeyName(Frame(c))] = right
        /\ Fail(c)
        /\ UNCHANGED <<inited, arg>>
     \/ /\ col.through = Nil
        /\ LeftName[t][i][KeyName(Frame(c))] # right
        /\ Initialised(c, i)
        /\ UNCHANGED arg

(* What init finds of field k of the through table T, which must be a      *)
(* many_to_one to the type u: it reads that column's RelationTable.Type.   *)
ThroughField(T, k, u) ==
  IF k = 0 \/ Column(T[2], k).kind # "many_to_one" THEN "wrong"
  ELSE IF rel[T][k] = Nil THEN "nil dereference"
  ELSE IF rel[T][k][2] # u THEN "wrong" ELSE "ok"

ThroughCheck(T, t, col) ==
  IF ThroughField(T, col.left, t) # "ok" THEN ThroughField(T, col.left, t)
  ELSE ThroughField(T, col.right, col.target)

(* The through table has come back to the init of column i.                *)
BindThrough(c, i) ==
  LET t   == Frame(c)[2]
      col == Column(t, i)
      T   == ret[c]
  IN
  /\ st[c] = "returned"
  /\ i \in Due(Frame(c))
  /\ rel[Frame(c)][i] # Nil
  /\ \/ /\ ThroughCheck(T, t, col) = "nil dereference"
        /\ Goto(c, "panicked")
        /\ UNCHANGED <<inited, thr>>
     \/ /\ ThroughCheck(T, t, col) = "wrong"
        /\ Fail(c)
        /\ UNCHANGED <<inited, thr>>
     \/ /\ ThroughCheck(T, t, col) = "ok"
        /\ thr' = [thr EXCEPT ![Frame(c)][i] = T]
        /\ \/ /\ name[T][col.left] = name[T][col.right]
              /\ Fail(c)
              /\ UNCHANGED inited
           \/ /\ name[T][col.left] # name[T][col.right]
              /\ Initialised(c, i)
  /\ UNCHANGED <<tables, x, rel, name, stack, arg, ret>>

(* Every column is initialised: publish the table and return it.           *)
Publish(c) ==
  /\ st[c] = "init"
  /\ Cols(Frame(c)[2]) \subseteq inited[Frame(c)]
  /\ tables' = [tables EXCEPT ![Frame(c)[2]] = Frame(c)]
  /\ stack' = [stack EXCEPT ![c] = Tail(@)]
  /\ Return(c, Frame(c), Tail(stack[c]))
  /\ UNCHANGED <<x, heap, arg>>

InitColumn(c, i) ==
  \/ InitPlain(c, i)
  \/ InitRelation(c, i)
  \/ BindKeyless(c, i)
  \/ BindOne(c, i)
  \/ BindOneToMany(c, i)
  \/ BindManyToMany(c, i)
  \/ BindThrough(c, i)

Step(c) ==
  \/ LookupCached(c)
  \/ LookupOwn(c)
  \/ LookupNew(c)
  \/ \E i \in 1..MaxCols : InitColumn(c, i)
  \/ Publish(c)

Next == \E c \in Calls : Step(c) \/ \E t \in Types : Call(c, t)

Spec == Init /\ [][Next]_vars

(* A goroutine inside TableOf never blocks: the lock's critical sections   *)
(* are a map read and a map write.                                         *)
FairSpec == Spec /\ \A c \in Calls : WF_vars(Step(c))

-----------------------------------------------------------------------------
(* A table is finished when its own tableOf has published it.  A call that *)
(* fails abandons the tables still on its stack: nobody finishes them.     *)
OnStack(T)  == \E k \in 1..Len(stack[T[1]]) : stack[T[1]][k] = T[2]
Finished(T) == T[2] \in x[T[1]] /\ ~OnStack(T)

Complete(T) ==
  /\ Finished(T)
  /\ inited[T] = Cols(T[2])
  /\ \A i \in Cols(T[2]) : Column(T[2], i).kind # "plain" =>
       rel[T][i] # Nil /\ rel[T][i][2] = Column(T[2], i).target

(* The tables that the columns of T point to.                              *)
Links(T) == ({rel[T][i] : i \in 1..MaxCols} \cup {thr[T][i] : i \in 1..MaxCols}) \ {Nil}

TypeOK ==
  /\ tables \in [Types -> Tables \cup {Nil}]
  /\ x \in [Calls -> SUBSET Types]
  /\ inited \in [Tables -> SUBSET (1..MaxCols)]
  /\ rel \in [Tables -> [1..MaxCols -> Tables \cup {Nil}]]
  /\ thr \in [Tables -> [1..MaxCols -> Tables \cup {Nil}]]
  /\ name \in [Tables -> [1..MaxCols -> Names]]
  /\ stack \in [Calls -> Seq(Types)] /\ \A c \in Calls : stack[c] \in Seq(x[c])
  /\ st \in [Calls -> States]
  /\ arg \in [Calls -> Types \cup {Nil}]
  /\ ret \in [Calls -> Tables \cup {Nil}]

(* What the registry hands to every later caller is a table of the type    *)
(* asked for, with each column initialised and linked (tableOf writes      *)
(* tables[t] only after the last init), whatever other calls do meanwhile. *)
PublishedComplete ==
  \A t \in Types : tables[t] # Nil => tables[t][2] = t /\ Complete(tables[t])

(* A table points only at finished tables and at tables that the same call *)
(* is still building: a call never picks up another call's unfinished work *)
(* except through a published table, where the unfinished one is the other *)
(* call's responsibility.                                                  *)
LinksOwned ==
  \A T \in Tables : \A U \in Links(T) : Finished(U) \/ U[1] = T[1]

(* When TableOf returns without an error, the table it returns and all the *)
(* tables this call has built are complete, and point at finished tables.  *)
DoneClosed ==
  \A c \in Calls : st[c] = "done" =>
    /\ ret[c] \in Tables /\ Complete(ret[c])
    /\ \A t \in x[c] : Complete(<<c, t>>) /\ \A U \in Links(<<c, t>>) : Finished(U)

(* The private map x ends the recursion on cyclic schemas: one call never  *)
(* builds a type that it is already building.                              *)
NoReentry ==
  \A c \in Calls : \A j, k \in 1..Len(stack[c]) : stack[c][j] = stack[c][k] => j = k

(* A finished table is immutable: its columns are read without the lock by *)
(* every caller that was handed it.                                        *)
FinishedFrozen ==
  [][\A t \in Types : tables[t] # Nil =>
       LET T == tables[t]
       IN  /\ inited'[T] = inited[T]
           /\ rel'[T] = rel[T]
           /\ thr'[T] = thr[T]
           /\ name'[T] = name[T]]_vars

(* Every call ends, whatever cycles the schema has.                        *)
Termination == \A c \in Calls : st[c] = "lookup" ~> st[c] \in Ended

(* No call panics.  The tests declare and use a many_to_many through a     *)
(* struct that refers back to the owner (T5 and T6 of table_test.go).      *)
NoPanic == \A c \in Calls : st[c] # "panicked"
=============================================================================
