------------------------ MODULE TableRegistryAcyclic ------------------------
(***************************************************************************)
(* TableRegistry for the types of a schema whose relations lead into no    *)
(* cycle: Rank, which they have, decreases along every relation.  However  *)
(* a call comes to such a type, perhaps from one that is in a cycle, its   *)
(* columns are named from keys that have their names, and the published    *)
(* tables of such types implement the abstract registry of ClosedRegistry, *)
(* under any interleaving of calls and even when some calls fail.          *)
(***************************************************************************)
EXTENDS TableRegistry

CONSTANT Rank

Ranked == DOMAIN Rank

Targets ==
  [t \in Types |->
     {Column(t, i).target : i \in {j \in Cols(t) : Column(t, j).kind # "plain"}}
       \cup {Column(t, i).through :
               i \in {j \in Cols(t) : Column(t, j).kind = "many_to_many"
                                        /\ Column(t, j).through # Nil}}]

ASSUME RankAssumption ==
  /\ Ranked \subseteq Types
  /\ Rank \in [Ranked -> Nat]
  /\ \A t \in Ranked : \A u \in Targets[t] : u \in Ranked /\ Rank[u] < Rank[t]

(* Every relation column of such a type is named from the name of the      *)
(* primary key column of the table it refers to (its own table's, for a    *)
(* one_to_many), as Columner promises.                                     *)
NamedFromKey ==
  \A t \in Ranked : tables[t] # Nil =>
    \A i \in Cols(t) : Column(t, i).kind # "plain" =>
      LET T == tables[t]
          U == IF Column(t, i).kind = "one_to_many" THEN T ELSE rel[T][i]
      IN  name[T][i] = ColumnName[t][i][KeyName(U)]

Closed ==
  INSTANCE ClosedRegistry WITH Types <- Ranked, known <- {t \in Ranked : tables[t] # Nil}

(* A type is published only when every type it refers to is, each type     *)
(* once: two calls that race on it do not show.                            *)
RefinesClosedRegistry == Closed!Spec

=============================================================================
