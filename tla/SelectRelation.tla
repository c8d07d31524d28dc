--------------------------- MODULE SelectRelation ---------------------------
(***************************************************************************)
(* selectRelation (scrud.go): the statement that SelectRelation builds     *)
(* with the query package for a column that refers to many rows.  It is    *)
(* one more program beside those of QueryProgram.  A column that refers to *)
(* one row is handed to retrieve, which is Select of module Crud; the rows *)
(* of the statement go to All, which is in module Rows.                    *)
(***************************************************************************)
EXTENDS QueryProgram

CONSTANTS
  Relations,  \* the columns of relations: see RelationDecl
  Selections  \* the lists of columns that SelectRelation is called with

(* The related table, its key and its columns in order.  Rows of the       *)
(* related table refer to the owner by "left" (one_to_many), or "join"     *)
(* pairs the owner's "left" with the "right" of the related row: the join  *)
(* table of the column, or the struct its ThroughTable names.              *)
RelationDecl(r) ==
  /\ r.relation \in {"one_to_many", "many_to_many"}
  /\ r.left \in Columns /\ r.right \in Columns
  /\ r.columns \in Seq([name : Seq(Symbols), many : BOOLEAN])
  /\ {r.table, r.key, r.join} \subseteq Seq(Symbols)

ASSUME RelationConstants ==
  /\ \A r \in Relations : RelationDecl(r)
  /\ \A s \in Selections : s \in Seq(Seq(Symbols))

VARIABLE
  sent  \* SelectRelation has sent the last of objs

-----------------------------------------------------------------------------
(* tidyColumns: a first "-" turns the list into the columns left out.      *)
Excludes(columns) == columns # <<>> /\ columns[1] = <<"-">>
Given(columns)    == ToSet(IF Excludes(columns) THEN Tail(columns) ELSE columns)
Wrong(r, columns) ==
  \E s \in Given(columns) : ~\E j \in DOMAIN r.columns : r.columns[j] = [name |-> s, many |-> FALSE]

(* The columns that are selected, as declared; no name given is all.       *)
Elected(columns, col) ==
  /\ ~col.many
  /\ Given(columns) # {} => (col.name \in Given(columns)) # Excludes(columns)
Elect(r, columns) ==
  FlattenSeq([j \in DOMAIN r.columns |->
    IF Elected(columns, r.columns[j]) THEN <<r.columns[j]>> ELSE <<>>])

(* Select(elect...).From(table).Where(cond).                               *)
SelectFrom(elect, table, k) ==
  [Bare("select") EXCEPT !.cl["Select"] = elect, !.cl["From"] = <<Str(table)>>, !.cl["Where"] = <<Obj(k)>>]

(* What Cond makes of a name, an operator and one argument.                *)
NameOpArgument(s, op, x) ==
  [kind |-> "cond", not |-> FALSE, failed |-> FALSE,
   a |-> <<Slot, op, Slot>>, b |-> <<Identifier(s), Argument(x)>>]

Thing(v, uses) == [v |-> v, means |-> {}, refused |-> FALSE, uses |-> uses]

(* What is made for r, in order.  The owner's key is the value ValueFor    *)
(* has for the column that refers to the owner.                            *)
MadeFor(r, columns) ==
  LET elect   == [j \in DOMAIN Elect(r, columns) |-> Str(Elect(r, columns)[j].name)]
      ofOwner == NameOpArgument(r.left, "=", Plain(ValueFor[r.left]))
      joined  == [expression |-> TRUE, value |-> 2]
  IN  IF r.relation = "one_to_many"
      THEN <<Thing(ofOwner, {}), Thing(SelectFrom(elect, r.table, 1), {1})>>
      ELSE <<Thing(ofOwner, {}),
             Thing(SelectFrom(<<Str(r.right)>>, r.join, 1), {1}),
             Thing(NameOpArgument(r.key, "IN", joined), {2}),
             Thing(SelectFrom(elect, r.table, 3), {3})>>

(* SelectRelation for r.  A wrong column, or none left, ends it before a   *)
(* statement is made.                                                      *)
SelectRelation(r, columns) ==
  /\ Idle /\ objs = <<>> /\ ~sent
  /\ ~Wrong(r, columns)
  /\ Elect(r, columns) # <<>>
  /\ objs' = MadeFor(r, columns)
  /\ sent' = TRUE
  /\ UNCHANGED <<mode, format, args, i, a, c, b, index, heap, clauses>>

SelectRelations == \E r \in Relations, columns \in Selections : SelectRelation(r, columns)

(* The other programs of the library's users do without it.                *)
RelationNext ==
  \/ SelectRelations
  \/ ~sent /\ Next /\ UNCHANGED sent

RelationInit == Init /\ sent = FALSE

RelationSpec == RelationInit /\ [][RelationNext]_<<vars, sent>>

=============================================================================
