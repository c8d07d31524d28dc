------------------------------ MODULE MCQuery ------------------------------
(* Constants for QueryProgram, SelectRelation and QueryText. *)
EXTENDS QueryText

A == <<"a">>
B == <<"b">>
MCColumns  == {A, B}
MCValueFor == [s \in MCColumns |-> IF s = A THEN 11 ELSE 12]
MCStrings  == {Str(<<"a", ".", "b">>), Str(<<Quote, "a">>)}

(* The conditions that are built upon: two comparisons, one that binds     *)
(* weaker than AND, one with a query inside, one without its argument.     *)
SubQuery == [expression |-> TRUE, value |-> 0]
Either == [format |-> Eq(A, 11).format \o <<"OR">> \o Eq(B, 12).format,
           args |-> <<Plain(11), Plain(12)>>]
InQuery == [format |-> BackQuote(B) \o <<"IN", "(", Mark, ")", "OR">> \o Eq(A, 11).format,
            args |-> <<SubQuery, Plain(11)>>]
Missing == [format |-> Eq(A, 11).format, args |-> <<>>]
MCBuilding == {Eq(A, 11), Either, InQuery, Missing}
MCSays ==
  [f \in {q.format : q \in MCBuilding} |->
     {s \in SUBSET MCColumns : A \in s \/ (f # Eq(A, 11).format /\ B \in s)}]

(* Names with the signs that are special somewhere. *)
MCNames == BoundedSeq({"a", Quote, "."}, 3) \ {<<>>}
Helpers ==
  UNION {{Eq(s, 11), IsNull(s), Between(s, 11, 11), In(s, <<>>), In(s, <<11, 11>>), As(Plain(11), s)} :
           s \in MCNames}

MCArgs == {Plain(x) : x \in {11, 12}} \cup {[expression |-> TRUE, value |-> k] : k \in 0..9}
AnyFormat == BoundedSeq({Quote, Mark, "%", "a"}, 5)
MCCalls ==
  MCBuilding \cup Helpers
    \cup [format : AnyFormat, args : {<<>>, <<Plain(11)>>, <<Plain(11), Plain(12)>>}]
MCFormats == {q.format : q \in MCCalls}

(* One relation of each kind, with lists that include, exclude, take all,  *)
(* leave nothing or name what cannot be selected.                          *)
MCRelations ==
  {[relation |-> kind, left |-> A, right |-> B, table |-> <<"t">>, key |-> <<"id">>, join |-> <<"j">>,
    columns |-> <<[name |-> <<"id">>, many |-> FALSE], [name |-> B, many |-> FALSE],
                  [name |-> <<"many">>, many |-> TRUE]>>] : kind \in {"one_to_many", "many_to_many"}}
MCSelections ==
  {<<>>, <<B>>, <<<<"-">>, B>>, <<<<"-">>, B, <<"id">>>>, <<<<"many">>>>, <<<<"none">>>>}
=============================================================================
