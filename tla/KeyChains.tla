----------------------------- MODULE KeyChains -----------------------------
(***************************************************************************)
(* How the users of a table read it.  The value of a column that refers to *)
(* a row is that of the related table's primary key, which may refer to a  *)
(* row again: types, GetValue, SetValue and Scan go from key to key until  *)
(* they meet one that does not.  They check nothing on the way: a table    *)
(* that is not linked yet, or has no key, is a nil pointer dereferenced,   *)
(* and keys that refer to each other are never left.                       *)
(***************************************************************************)
EXTENDS TableRegistry, FiniteSets

(* A spot is a table and one of its columns, 0 for none.                   *)
Refers(at) == at[2] \in Cols(at[1][2]) /\ Column(at[1][2], at[2]).kind \in OneRelation

(* The column that refers to a row has led to a table with a primary key.  *)
Passable(at) ==
  LET U == rel[at[1]][at[2]] IN U # Nil /\ Key(U[2]) # 0

(* c = c.RelationTable.PrimaryKey, while c.IsOneRelation().                *)
Follow(at) ==
  LET U == rel[at[1]][at[2]]
  IN  IF Refers(at) /\ Passable(at) THEN <<U, Key(U[2])>> ELSE at

(* Where "next" arrives from s in as many steps as there are types: a      *)
(* chain of keys that does not come round has ended by then.               *)
Arrive(next, s) ==
  LET chain[n \in 0..Cardinality(Types)] == IF n = 0 THEN s ELSE next[chain[n - 1]]
  IN  chain[Cardinality(Types)]

Spots == Tables \X (0..MaxCols)

KeyChainEnd(at) == Arrive([spot \in Spots |-> Follow(spot)], at)

(* The same in the struct tags: from a type and one of its columns.        *)
DeclaredRefers(d) == d[2] \in Cols(d[1]) /\ Column(d[1], d[2]).kind \in OneRelation

DeclaredFollow(d) ==
  LET u == Column(d[1], d[2]).target
  IN  IF DeclaredRefers(d) THEN <<u, Key(u)>> ELSE d

DeclaredSpots == Types \X (0..MaxCols)

DeclaredEnd(d) == Arrive([spot \in DeclaredSpots |-> DeclaredFollow(spot)], d)

-----------------------------------------------------------------------------
(* Where readers start: columns of published tables that refer to rows.    *)
Starts == {at \in Spots : tables[at[1][2]] = at[1] /\ Refers(at)}

(* Readers of a published table arrive where the struct tags lead them, a  *)
(* column with a key behind it, and meet no table without a key and no     *)
(* relation left unbound, whoever built the tables on the way; but for a   *)
(* table that a call has not finished, or never will as it has failed.     *)
(* Keys that refer to each other, which tableOf accepts, are never left:   *)
(* the loop goes round where the tags go round, and no further.            *)
(* (rows.go:260, table.go:289, 391 and 538, which check none of this)      *)
KeyChainsAsDeclared ==
  \A at \in Starts :
    LET end == KeyChainEnd(at)
        U   == end[1]
    IN  \/ end[2] # 0 /\ <<U[2], end[2]>> = DeclaredEnd(<<at[1][2], at[2]>>)
        \/ Refers(end) /\ ~Passable(end) /\ ~Finished(U) /\ st[U[1]] # "done"
=============================================================================
