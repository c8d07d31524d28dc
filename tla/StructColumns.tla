--------------------------- MODULE StructColumns ---------------------------
(***************************************************************************)
(* The columns of a struct one by one: GetValue, Scan, SetValue and Set of *)
(* internal/table, tidyColumns of scrud.go, and the two functions of       *)
(* map.go that turn a struct into a map and back.                          *)
(*                                                                         *)
(* The struct has four columns: Z of a zero type, Doc with an encoding,    *)
(* Ref, a pointer to a struct with a plain primary key (nil is NoRef), and *)
(* Many, a relation to many rows, which no operation here touches.         *)
(***************************************************************************)
EXTENDS Zero, Sequences, SequencesExt

CONSTANTS
  Docs,    \* what Doc can hold
  Keys,    \* primary keys of the structs that Ref points to, 0 among them
  NoRef,   \* the nil pointer
  Null     \* nil as a value of a map, NULL in a row

ASSUME StructConstants ==
  /\ 0 \in Keys /\ Keys \subseteq Nat
  /\ NoRef \notin Keys /\ Null \notin Keys

Struct == [Z : ZeroValues, Doc : Docs, Ref : Keys \cup {NoRef}]
Fields == <<"Z", "Doc", "Ref">>

(* tidyColumns, and the test that follows it in its callers: no name is    *)
(* every column, a first "-" makes the others the ones to leave out.       *)
Excludes(columns) == columns # <<>> /\ columns[1] = "-"
Listed(columns)   == ToSet(IF Excludes(columns) THEN Tail(columns) ELSE columns)
Wrong(columns)    == ~(Listed(columns) \subseteq ToSet(Fields))

Chosen(columns) ==
  {f \in ToSet(Fields) : Listed(columns) = {} \/ (f \in Listed(columns)) # Excludes(columns)}

(* GetValue of Ref: the key of the struct, nothing for a nil pointer.      *)
RefValue(s) == IF s.Ref = NoRef THEN Null ELSE s.Ref

(* Scan of the chosen columns allocates a nil pointer.                     *)
Allocated(s, chosen) == IF "Ref" \in chosen /\ s.Ref = NoRef THEN [s EXCEPT !.Ref = 0] ELSE s

-----------------------------------------------------------------------------
(* StructToMap: Doc is not encoded, Ref is its key.                        *)
StructToMap(s, columns) ==
  [f \in Chosen(columns) |-> IF f = "Ref" THEN RefValue(s) ELSE s[f]]

(* SetValue of Ref allocates a nil pointer first; nil is not a key.        *)
SetRef(s, x) ==
  LET to == Allocated(s, {"Ref"})
  IN  IF x = Null THEN [ok |-> FALSE, s |-> to] ELSE [ok |-> TRUE, s |-> [to EXCEPT !.Ref = x]]

(* Bug: a column that the map does not have is reset.                      *)
MapToStructResetting(s, m) ==
  LET set == [s EXCEPT !.Z = IF "Z" \in DOMAIN m THEN m["Z"] ELSE Number(0),
                       !.Doc = IF "Doc" \in DOMAIN m THEN m["Doc"] ELSE @]
  IN  IF "Ref" \in DOMAIN m THEN SetRef(set, m["Ref"]) ELSE [ok |-> TRUE, s |-> set]

(* MapToStruct: the columns in order, up to the first that cannot be set.  *)
MapToStruct(s, m) ==
  LET set == [s EXCEPT !.Z = IF "Z" \in DOMAIN m THEN m["Z"] ELSE @,
                       !.Doc = IF "Doc" \in DOMAIN m THEN m["Doc"] ELSE @]
  IN  IF "Ref" \in DOMAIN m THEN SetRef(set, m["Ref"]) ELSE [ok |-> TRUE, s |-> set]
=============================================================================
