------------------------------ MODULE QueryText -----------------------------
(***************************************************************************)
(* Expand: the text and the arguments that come of what a program has made *)
(* with the query package, and what they say.                              *)
(***************************************************************************)
EXTENDS SelectRelation

-----------------------------------------------------------------------------
(* Expansion: the text and the arguments so far, the markers the starter   *)
(* has given out (only postgres counts them), and whether all went well.   *)
Start(n) == [text |-> <<>>, args |-> <<>>, n |-> n, ok |-> TRUE]

(* NextMarker.                                                             *)
NextMarker(driver, n) == IF driver = "postgres" THEN Marker(n + 1) ELSE Marker(0)

(* Bug: the nested expression gets a starter of its own.                   *)
InsideAnew(acc, e) ==
  [text |-> acc.text \o e.text, args |-> acc.args \o e.args, n |-> acc.n, ok |-> e.ok]

(* What follows acc is the nested expression e, expanded by the same       *)
(* starter.                                                                *)
Inside(acc, e) ==
  [text |-> acc.text \o e.text, args |-> acc.args \o e.args, n |-> e.n, ok |-> e.ok]

RECURSIVE Emit(_, _, _)
Emit(driver, acc, ps) ==
  IF ps = <<>> \/ ~acc.ok THEN acc
  ELSE LET p == Head(ps)
           next == CASE p.t = "fail"  -> [acc EXCEPT !.ok = FALSE]
                     [] p.t = "value" -> [acc EXCEPT !.text = Append(@, NextMarker(driver, acc.n)),
                                                     !.args = Append(@, p.n), !.n = @ + 1]
                     [] p.t = "sub"   -> Inside(acc, Emit(driver, Start(acc.n), PartsOf(p.v)))
                     [] OTHER         -> [acc EXCEPT !.text = Append(@, p)]
       IN  Emit(driver, next, Tail(ps))

(* Expand of what is at place k, by a starter that has given out n markers. *)
Expand(driver, n, k) == Emit(driver, Start(n), PartsOf(objs[k].v))

-----------------------------------------------------------------------------
(* The conditions that a text holds under, as sets of columns that are     *)
(* true, when it is read as SQL reads it: NOT binds stronger than AND, AND *)
(* stronger than OR.  Anything else that starts with a column is about it. *)
Depth(x, p) ==
  Cardinality({q \in 1..(p - 1) : x[q] = Word("(")}) - Cardinality({q \in 1..(p - 1) : x[q] = Word(")")})

RECURSIVE Holds(_)
Holds(x) ==
  LET Cuts(w) == {p \in DOMAIN x : x[p] = Word(w) /\ Depth(x, p) = 0}
      Cut(w)  == CHOOSE p \in Cuts(w) : TRUE
      Both(p) == <<Holds(SubSeq(x, 1, p - 1)), Holds(SubSeq(x, p + 1, Len(x)))>>
  IN  IF x = <<>> THEN [ok |-> FALSE, m |-> {}]
      ELSE IF Cuts("OR") # {} THEN
        LET e == Both(Cut("OR")) IN [ok |-> e[1].ok /\ e[2].ok, m |-> e[1].m \cup e[2].m]
      ELSE IF Cuts("AND") # {} THEN
        LET e == Both(Cut("AND")) IN [ok |-> e[1].ok /\ e[2].ok, m |-> e[1].m \cap e[2].m]
      ELSE IF x[1] = Word("NOT") THEN
        LET e == Holds(Tail(x)) IN [ok |-> e.ok, m |-> (SUBSET Columns) \ e.m]
      ELSE IF x[1] = Word("(") THEN Holds(SubSeq(x, 2, Len(x) - 1))
      ELSE [ok |-> x[1].t = "name" /\ x[1].s \in Columns, m |-> {s \in SUBSET Columns : x[1].s \in s}]

-----------------------------------------------------------------------------
(* The conditions that the program connected mean what it connected: the   *)
(* text, read with the precedences of SQL, holds exactly when the and, or  *)
(* and not of what its parts say hold, however they were nested, extended  *)
(* and negated.  (cond.go)                                                 *)
MeansWhatItSays ==
  Idle /\ Now \in Places =>
    LET e == Expand("mysql", 0, Now)
    IN  e.ok => Holds(e.text) = [ok |-> TRUE, m |-> objs[Now].means]

(* Markers and arguments correspond, for every driver and also when the    *)
(* starter has been used before: there are as many, postgres numbers them  *)
(* on from where the starter was, in the order of the text, and each binds *)
(* the value that was meant for the column before it or, in an insert, for *)
(* its row and column.  (Expand in expr.go, cond.go and the statements)    *)
MarkersBind ==
  Idle /\ Now > 0 =>
    \A driver \in {"mysql", "postgres"} :
      LET e     == Expand(driver, 1, Now)
          marks == SelectSeq([p \in DOMAIN e.text |-> p], LAMBDA p : e.text[p].t = "marker")
          Column(p) == CHOOSE q \in 1..p : /\ e.text[q].t = "name"
                                           /\ \A r \in (q + 1)..p : e.text[r].t # "name"
          width == Len(objs[Now].v.cl["Columns"])
      IN  /\ e.ok <=> objs[Now].v \in Expandable
          /\ e.ok =>
            /\ Len(e.args) = Len(marks)
            /\ \A j \in DOMAIN marks :
                 /\ e.text[marks[j]].n = IF driver = "postgres" THEN 1 + j ELSE 0
                 /\ e.args[j] = IF objs[Now].v.kind = "insert"
                                THEN RowValue(((j - 1) \div width) + 1, ((j - 1) % width) + 1)
                                ELSE ValueFor[e.text[Column(marks[j])].s]

(* A query inside another stands in parentheses, or no database takes the  *)
(* statement.  The test of SelectRelation runs it for a many_to_many and   *)
(* expects no error (scrud_test.go:225 and 236).                           *)
NestedInParentheses ==
  Idle /\ Now > 0 =>
    LET text == Expand("mysql", 0, Now).text
    IN  \A p \in 2..Len(text) : text[p] = Word("SELECT") => text[p - 1] = Word("(")
=============================================================================
