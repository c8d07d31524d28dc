------------------------------- MODULE Query -------------------------------
(***************************************************************************)
(* The query package: a program that builds conditions and statements and  *)
(* expands them to the text and the arguments of a statement.              *)
(*                                                                         *)
(* Conditions are immutable values.  Those made by And and Or keep a slice *)
(* of their operands, that is a length and an array that other slices may  *)
(* share; heap holds the arrays.  A statement is a builder that changes    *)
(* with every call.  objs are the things the program has made, in order;   *)
(* an argument refers to one of them by its place.                         *)
(***************************************************************************)
EXTENDS Template

VARIABLES
  objs,  \* the things made: objs[k].v is a condition or a statement
  heap   \* the arrays of operands: what is in them, and the room behind that

-----------------------------------------------------------------------------
(* The text of a statement is a sequence of tokens: words and signs, names *)
(* (quoted by the starter), markers with their number (0: a bare "?").     *)
Word(s)   == [t |-> "word", s |-> <<s>>, n |-> 0]
Name(s)   == [t |-> "name", s |-> s, n |-> 0]
Marker(n) == [t |-> "marker", s |-> <<>>, n |-> n]

(* What an expression is made of, before it is expanded: tokens, arguments *)
(* that need a marker, expressions inside it, and errors.                  *)
Value(x) == [t |-> "value", s |-> <<>>, n |-> x]
Sub(v)   == [t |-> "sub", v |-> v]
Fail     == [t |-> "fail"]

Joined(ps, sep) ==
  FlattenSeq([k \in 1..Len(ps) |-> IF k = 1 THEN ps[k] ELSE <<Word(sep)>> \o ps[k]])
Bracketed(p) == <<Word("(")>> \o p \o <<Word(")")>>

RepeatMarker(n) == [k \in 1..(IF n = 0 THEN 0 ELSE 2 * n - 1) |-> IF k % 2 = 1 THEN Mark ELSE ","]

Plain(x)         == [expression |-> FALSE, value |-> x]
Compare(k, op, x) == [format |-> BackQuote(k) \o <<op, Mark>>, args |-> <<Plain(x)>>]
Eq(k, x)         == Compare(k, "=", x)
In(k, xs)        == [format |-> BackQuote(k) \o <<"IN", "(">> \o RepeatMarker(Len(xs)) \o <<")">>,
                     args |-> [j \in 1..Len(xs) |-> Plain(xs[j])]]
Between(k, x, y) == [format |-> BackQuote(k) \o <<"BETWEEN", Mark, "AND", Mark>>,
                     args |-> <<Plain(x), Plain(y)>>]
IsNull(k)        == [format |-> BackQuote(k) \o <<"IS NULL">>, args |-> <<>>]
As(x, k)         == [format |-> <<"(", Mark, ")", "AS">> \o BackQuote(k), args |-> <<x>>]

(* Bug: a doubled dot splits, too.                                         *)
SplitStepEvery(s, j, r) ==
  IF s[j] # "." THEN [r EXCEPT !.d = Append(@, s[j])]
  ELSE [e |-> Append(r.e, r.d), d |-> <<>>, half |-> FALSE]

(* What symbol j of a dotted name s adds to what has been read before it:  *)
(* the parts e, and d of the next one.  A doubled dot is a dot, read with  *)
(* its first half; a single one at the end is dropped.                     *)
SplitStep(s, j, r) ==
  IF s[j] # "." THEN [r EXCEPT !.d = Append(@, s[j])]
  ELSE IF r.half THEN [r EXCEPT !.half = FALSE]
  ELSE IF j = Len(s) THEN r
  ELSE IF s[j + 1] = "." THEN [r EXCEPT !.d = Append(@, "."), !.half = TRUE]
  ELSE [e |-> Append(r.e, r.d), d |-> <<>>, half |-> FALSE]

(* What has been read of s after n symbols.                                *)
SplitRead(s, n) ==
  LET read[j \in 0..Len(s)] ==
        IF j = 0 THEN [e |-> <<>>, d |-> <<>>, half |-> FALSE] ELSE SplitStep(s, j, read[j - 1])
  IN  read[n]

(* The parts of a dotted name.                                             *)
Split(s) == LET all == SplitRead(s, Len(s)) IN Append(all.e, all.d)

Dotted(s) ==
  LET parts == Split(s) IN Joined([k \in DOMAIN parts |-> <<Name(parts[k])>>], ".")

(* Expr(BackQuote(s)), expanded.  The scanner takes the quote that opens   *)
(* the name and the first of s for a doubled one: the quotes that s begins *)
(* with come out as they are, and with nothing behind them so does the     *)
(* pair around s.                                                          *)
LeadingQuotes(s) == Cardinality({k \in DOMAIN s : \A j \in 1..k : s[j] = Quote})

NameExpr(s) ==
  LET n    == LeadingQuotes(s)
      rest == SubSeq(s, n + 1, Len(s))
  IN  [k \in 1..n |-> Word(Quote)] \o (IF rest = <<>> THEN <<Word(Quote)>> ELSE Dotted(rest))

(* expr.Expand: the template with its slots replaced.                      *)
Filled(v) ==
  LET SlotsTo(p) == Cardinality({q \in 1..p : v.a[q] = Slot})
      Of(x) == CASE x.type = "identifier" -> Dotted(x.name)
                 [] x.type = "marker"     -> <<Value(x.value)>>
                 [] x.type = "expression" -> <<Sub(objs[x.value].v)>>
  IN  FlattenSeq([p \in DOMAIN v.a |->
        CASE v.a[p] = Slot    -> Of(v.b[SlotsTo(p)])
          [] v.a[p] = Percent -> <<Word("%")>>
          [] OTHER            -> <<Word(v.a[p])>>])

-----------------------------------------------------------------------------
(* Conditions.                                                             *)
IsCondition(v) == v.kind \in {"cond", "logic"}
Operands(l)    == SubSeq(heap[l.array].of, 1, l.len)

CondOf(neg, failed) == [kind |-> "cond", not |-> neg, failed |-> failed, a |-> a, b |-> b]
LogicOf(and, failed, array, len) ==
  [kind |-> "logic", and |-> and, failed |-> failed, array |-> array, len |-> len]

CondParts(v) ==
  IF v.failed THEN <<Fail>>
  ELSE IF v.not THEN <<Word("NOT")>> \o Bracketed(Filled(v)) ELSE Filled(v)

(* Bug: the operands of a connective are not put into parentheses.         *)
ConnectedBare(and, vs) ==
  Joined([k \in DOMAIN vs |-> <<Sub(vs[k])>>], IF and THEN "AND" ELSE "OR")

(* Bug: an operand with an error is passed over; new connectives have kept *)
(* the first of their operands' errors, extended ones have not.            *)
ConnectedSkipping(and, vs) ==
  LET sound == SelectSeq(vs, LAMBDA v : ~v.failed)
  IN  Joined([k \in DOMAIN sound |-> Bracketed(<<Sub(sound[k])>>)], IF and THEN "AND" ELSE "OR")

Connected(and, vs) ==
  Joined([k \in DOMAIN vs |-> Bracketed(<<Sub(vs[k])>>)], IF and THEN "AND" ELSE "OR")

LogicParts(l) == IF l.failed THEN <<Fail>> ELSE Connected(l.and, Operands(l))

(* And(vs...), as the statements use it for the conditions of a clause.    *)
AllOf(vs) ==
  IF Len(vs) = 1 THEN <<Sub(vs[1])>>
  ELSE IF \E k \in DOMAIN vs : vs[k].failed THEN <<Fail>>
  ELSE Connected(TRUE, vs)

-----------------------------------------------------------------------------
(* Statements.  cl[x] is what the calls of builder x have been given: the  *)
(* items of a list, one after the other.                                   *)
BuildersOf(kind) ==
  CASE kind = "select" -> {"Select", "From", "Join", "Where", "GroupBy", "Having", "OrderBy"}
    [] kind = "insert" -> {"Columns", "Values"}
    [] kind = "update" -> {"Set", "Where", "OrderBy"}
    [] kind = "delete" -> {"Where", "OrderBy"}

(* An item of type interface{}: a string, an expression, or neither.       *)
Str(s)  == [is |-> "string", s |-> s]
Obj(k)  == [is |-> "object", k |-> k]
Neither == [is |-> "other"]

(* A string is formatted as it is, or taken for the name in an expression. *)
Item(x) ==
  CASE x.is = "string" -> <<Name(x.s)>>
    [] x.is = "object" -> <<Sub(objs[x.k].v)>>
    [] x.is = "other"  -> <<Fail>>
NameItem(x) == IF x.is = "string" THEN NameExpr(x.s) ELSE Item(x)

Listed(word, ps) == IF ps = <<>> THEN <<>> ELSE <<Word(word)>> \o Joined(ps, ",")
ItemsOf(xs)      == [k \in DOMAIN xs |-> Item(xs[k])]
NameItemsOf(xs)  == [k \in DOMAIN xs |-> NameItem(xs[k])]
ConditionsOf(xs) == [k \in DOMAIN xs |-> objs[xs[k].k].v]
Filter(word, xs) == IF xs = <<>> THEN <<>> ELSE <<Word(word)>> \o AllOf(ConditionsOf(xs))

(* The items of a join's condition that are columns, or conditions.        *)
UsingOf(by) == {x \in ToSet(by) : x.is = "string"}
OnOf(by)    == {x \in ToSet(by) : x.is = "object" /\ IsCondition(objs[x.k].v)}
UsingParts(xs) == <<Word("USING")>> \o Bracketed(Joined(ItemsOf(xs), ","))

(* One join: what is joined, and either columns or conditions.             *)
JoinParts(j) ==
  <<Word(j.way)>> \o Item(j.to) \o
  (IF ToSet(j.by) = OnOf(j.by) THEN Filter("ON", j.by)
   ELSE IF ToSet(j.by) = UsingOf(j.by) THEN UsingParts(j.by)
   ELSE <<Fail>>)

(* MySQL has no offset without a limit.                                    *)
LimitParts(limit, offset) ==
  (IF limit > 0 THEN <<Word("LIMIT"), Word("n")>>
   ELSE IF offset > 0 THEN <<Word("LIMIT"), Word("2147483647")>> ELSE <<>>)
    \o (IF offset > 0 THEN <<Word("OFFSET"), Word("n")>> ELSE <<>>)

SelectParts(v) ==
  <<Word("SELECT")>>
    \o (IF v.cl["Select"] = <<>> THEN <<Word("*")>> ELSE Joined(NameItemsOf(v.cl["Select"]), ","))
    \o (IF v.cl["From"] = <<>> THEN <<Fail>> ELSE Listed("FROM", ItemsOf(v.cl["From"])))
    \o FlattenSeq([k \in DOMAIN v.cl["Join"] |-> JoinParts(v.cl["Join"][k])])
    \o Filter("WHERE", v.cl["Where"])
    \o Listed("GROUP BY", NameItemsOf(v.cl["GroupBy"]))
    \o Filter("HAVING", v.cl["Having"])
    \o Listed("ORDER BY", NameItemsOf(v.cl["OrderBy"]))
    \o LimitParts(v.limit, v.offset)

(* An item of Set: a column and a value or an expression.                  *)
Assignment(x) ==
  <<Name(x.column), Word("=")>>
    \o (IF x.to.is = "value" THEN <<Value(x.to.x)>> ELSE Item(x.to))

UpdateParts(v) ==
  <<Word("UPDATE"), Name(<<"t">>)>>
    \o (IF v.cl["Set"] = <<>> THEN <<Fail>>
        ELSE Listed("SET", [k \in DOMAIN v.cl["Set"] |-> Assignment(v.cl["Set"][k])]))
    \o Filter("WHERE", v.cl["Where"])
    \o Listed("ORDER BY", ItemsOf(v.cl["OrderBy"]))
    \o LimitParts(v.limit, 0)

DeleteParts(v) ==
  <<Word("DELETE FROM"), Name(<<"t">>)>>
    \o Filter("WHERE", v.cl["Where"])
    \o Listed("ORDER BY", ItemsOf(v.cl["OrderBy"]))
    \o LimitParts(v.limit, 0)

InsertParts(v) ==
  LET cols == v.cl["Columns"]
      rows == v.cl["Values"]
      Row(r) == IF Len(r) # Len(cols) THEN <<Fail>>
                ELSE Bracketed(Joined([k \in DOMAIN r |-> <<Value(r[k])>>], ","))
  IN  IF cols = <<>> \/ rows = <<>> THEN <<Fail>>
      ELSE <<Word("INSERT INTO"), Name(<<"t">>)>>
             \o Bracketed(Joined([k \in DOMAIN cols |-> <<Name(cols[k])>>], ","))
             \o Listed("VALUES", [k \in DOMAIN rows |-> Row(rows[k])])

PartsOf(v) ==
  CASE v.kind = "cond"   -> CondParts(v)
    [] v.kind = "logic"  -> LogicParts(v)
    [] v.kind = "select" -> SelectParts(v)
    [] v.kind = "insert" -> InsertParts(v)
    [] v.kind = "update" -> UpdateParts(v)
    [] v.kind = "delete" -> DeleteParts(v)

-----------------------------------------------------------------------------
(* What the expansion of v comes upon at once: an error, and the           *)
(* expressions that it goes on to expand.                                  *)
Fails(v) == \E p \in ToSet(PartsOf(v)) : p.t = "fail"
Subs(v)  == {p.v : p \in {q \in ToSet(PartsOf(v)) : q.t = "sub"}}

(* Everything that may be expanded.                                        *)
Expressions == {objs[k].v : k \in DOMAIN objs} \cup UNION {ToSet(heap[m].of) : m \in DOMAIN heap}

(* Those that come upon no error, however deep: each round takes away what *)
(* fails, or has something inside that was taken away before.              *)
Sound(n) ==
  LET sound[m \in 0..n] ==
        IF m = 0 THEN Expressions
        ELSE LET before == sound[m - 1] IN {v \in before : ~Fails(v) /\ Subs(v) \subseteq before}
  IN  sound[n]
Expandable == Sound(Cardinality(Expressions))
=============================================================================
