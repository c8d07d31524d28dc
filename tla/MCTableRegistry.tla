--------------------------- MODULE MCTableRegistry --------------------------
(***************************************************************************)
(* Schemas on which TLC runs TableRegistry.  Types and columns have the    *)
(* names that a Columner like that of T3 in the tests gives them: a plain  *)
(* column its field, a column that refers to a row the related table       *)
(* followed by the name of that table's primary key column.                *)
(***************************************************************************)
EXTENDS TableRegistry, TLC

MCMaxCols == 3

Plain == [kind |-> "plain", target |-> Nil, legal |-> TRUE,
          through |-> Nil, left |-> 0, right |-> 0]
To(kind, t) == [Plain EXCEPT !.kind = kind, !.target = t]
Via(t, u, l, r) == [To("many_to_many", t) EXCEPT !.through = u, !.left = l, !.right = r]
Encoded(col)    == [col EXCEPT !.legal = FALSE]
Struct(key, cols) == [parses |-> TRUE, key |-> key, cols |-> cols]

MCNoName == <<>>
Fields   == {<<"Id">>, <<"C">>, <<"Tag">>}
Prefixed(S, N) == {<<t>> \o n : t \in S, n \in N}

(* Keys that refer to rows, and the types they refer to.                   *)
RelationKeyed == {t \in Types : Key(t) # 0 /\ Column(t, Key(t)).kind # "plain"}
KeyTargets    == {Column(t, Key(t)).target : t \in RelationKeyed}

MCNames ==
  LET KeyNames == {MCNoName, <<"Id">>, <<"Tag">>}
  IN  {MCNoName} \cup Fields \cup Prefixed(Types, KeyNames)
        \cup Prefixed(RelationKeyed, Prefixed(KeyTargets, KeyNames))

(* A name that is too long loses its head.                                 *)
Named(n, names) == IF n \in names THEN n ELSE Tail(n)

(* The related type of column i of t, whose key the column name ends with. *)
KeyType(t, i) == IF Column(t, i).kind = "one_to_many" THEN t ELSE Column(t, i).target

(* The columns whose tags name them.                                       *)
Tagged == {<<"T2", 1>>, <<"Post", 2>>, <<"Ring", 1>>}
MCTagName ==
  [t \in Types |-> [i \in 1..MCMaxCols |->
     IF <<t, i>> \in Tagged THEN <<"Tag">> ELSE MCNoName]]

MCColumnName ==
  LET names == MCNames
  IN  [t \in Types |-> [i \in 1..MCMaxCols |->
         LET tag   == MCTagName[t][i]
             plain == i \notin Cols(t) \/ Column(t, i).kind = "plain"
             field == IF i = Key(t) THEN <<"Id">> ELSE <<"C">>
             u     == KeyType(t, i)
         IN  [k \in names |->
                IF tag # MCNoName THEN tag ELSE IF plain THEN field ELSE Named(<<u>> \o k, names)]]]

MCLeftName ==
  LET names == MCNames
  IN  [t \in Types |-> [i \in 1..MCMaxCols |-> [k \in names |-> Named(<<t>> \o k, names)]]]

-----------------------------------------------------------------------------
(* Cyclic schemas in the manner of T5, T6 and Node of the tests.  A user   *)
(* has posts, and is tied to posts through Tag, which refers back to both. *)
(* Hit names the same field of its through struct Link twice, and Node     *)
(* fails because its join columns have one name.                           *)
CyclicSchema ==
  [User  |-> Struct(1, <<Plain, To("one_to_many", "Post"), Via("Post", "Tag", 1, 2)>>),
   Post  |-> Struct(1, <<Plain, To("many_to_one", "User")>>),
   Tag   |-> Struct(0, <<To("many_to_one", "User"), To("many_to_one", "Post")>>),
   Hit   |-> Struct(1, <<Plain, Via("Hit", "Link", 1, 1)>>),
   Link  |-> Struct(0, <<To("many_to_one", "Hit")>>),
   Node  |-> Struct(1, <<Plain, To("many_to_many", "Node")>>)]

(* T1, T2, T3 of the tests, T4 with a one_to_many declared before its key, *)
(* and structs that fail: T7 refers to the keyless T3, Memo encodes a      *)
(* relation, Band names fields of its through struct that refer elsewhere, *)
(* Twin repeats a column name, and the tags of Gone do not parse.          *)
AcyclicSchema ==
  [T1   |-> Struct(1, <<Plain, Plain>>),
   T2   |-> Struct(1, <<To("one_to_one", "T1")>>),
   T3   |-> Struct(0, <<To("many_to_one", "T2"), Plain>>),
   T4   |-> Struct(2, <<To("one_to_many", "T2"), Plain, To("many_to_many", "T1")>>),
   T7   |-> Struct(1, <<Plain, To("many_to_many", "T4"), To("many_to_one", "T3")>>),
   Memo |-> Struct(1, <<Plain, Encoded(To("many_to_one", "Gone"))>>),
   Band |-> Struct(1, <<Plain, Via("T1", "T3", 1, 2)>>),
   Twin |-> Struct(1, <<Plain, Plain, Plain>>),
   Gone |-> [Struct(1, <<Plain>>) EXCEPT !.parses = FALSE]]

(* Primary keys that refer to rows.  Those of Hand and Glove refer to each *)
(* other, as nothing forbids, and that of Ring, named by its tag, to Hand; *)
(* the key of Ace leads to Box, to Disc and back to Ace, and Box fails on  *)
(* its last column; Pin refers to the keyless Note.                        *)
KeyedSchema ==
  [Hand  |-> Struct(1, <<To("one_to_one", "Glove"), To("one_to_one", "Ring")>>),
   Glove |-> Struct(1, <<To("one_to_one", "Hand"), Plain>>),
   Ring  |-> Struct(1, <<To("many_to_one", "Hand")>>),
   Ace   |-> Struct(1, <<To("one_to_one", "Box")>>),
   Box   |-> Struct(1, <<Plain, To("many_to_one", "Disc"), Encoded(To("many_to_one", "Disc"))>>),
   Disc  |-> Struct(1, <<Plain, To("many_to_one", "Ace")>>),
   Pin   |-> Struct(1, <<Plain, To("many_to_one", "Note")>>),
   Note  |-> Struct(0, <<Plain, To("many_to_one", "Pin")>>)]

MCSchema == CyclicSchema @@ AcyclicSchema @@ KeyedSchema
MCTypes  == DOMAIN MCSchema
=============================================================================
