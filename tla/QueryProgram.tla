---------------------------- MODULE QueryProgram ----------------------------
(***************************************************************************)
(* A program that uses the query package: it makes conditions from formats *)
(* (the scanner of Template runs), connects and negates them, makes        *)
(* statements and calls their builders in any order, nests one in another. *)
(* At any time it may expand anything it has made, with any starter, which *)
(* changes nothing but the starter.                                        *)
(***************************************************************************)
EXTENDS Query

CONSTANTS
  Columns,     \* names of columns: sequences of symbols
  ValueFor,    \* the value that the program means for each of them
  First,       \* one of them
  Strings,     \* the strings given to statement builders, as items
  Names,       \* the names that the helpers (Eq and the like) are called with
  Calls,       \* the calls of Cond: [format, args]
  Building,    \* those whose conditions are built upon
  Says,        \* what their formats say: the sets of columns that, when
               \* true, make them hold
  MaxObjects,  \* bound on objs
  MaxClauses   \* bound on the calls of statement builders

ASSUME QueryConstants ==
  /\ Building \subseteq Calls
  /\ \A q \in Calls : q.format \in Formats \cup {<<>>} /\ q.args \in Seq(Args)
  /\ Says \in [{q.format : q \in Building} -> SUBSET SUBSET Columns]
  /\ ValueFor \in [Columns -> Nat]
  /\ First \in Columns /\ IsFiniteSet(Columns) /\ Columns \subseteq Seq(Symbols)
  /\ \A x \in Strings : x.is = "string" /\ x.s \in Seq(Symbols)
  /\ Names \subseteq Seq(Symbols) \ {<<>>}
  /\ \A k \in 1..MaxObjects : [expression |-> TRUE, value |-> k] \in Args
  /\ {MaxObjects, MaxClauses} \subseteq Nat

VARIABLE
  clauses  \* calls of statement builders so far

vars == <<mode, format, args, i, a, c, b, index, objs, heap, clauses>>

Init ==
  /\ ScanInit
  /\ objs = <<>>
  /\ heap = <<>>
  /\ clauses = 0

(* Nothing is built upon a call with a format that is not in Building.     *)
Idle == mode = "idle" /\ (format = <<>> \/ \E q \in Building : q.format = format)
Room == Idle /\ Len(objs) < MaxObjects

(* v is made.  History: what it means, whether newExpr refused it, and     *)
(* what it was made of.                                                    *)
Make(v, means, refused, uses) ==
  objs' = Append(objs, [v |-> v, means |-> means, refused |-> refused, uses |-> uses])

-----------------------------------------------------------------------------
(* An INSERT does not stand inside anything in SQL.                        *)
Nestable == {k \in DOMAIN objs : objs[k].v.kind # "insert"}

(* Cond or Not is called; which of them shows when the scanner is done.    *)
(* An argument that is an expression is one of the things made before.     *)
Call(q) ==
  /\ \E at \in Nestable \cup {0} :
       /\ at = 0 <=> \A j \in DOMAIN q.args : ~q.args[j].expression
       /\ Begin(q.format, [j \in DOMAIN q.args |->
                             IF q.args[j].expression THEN [expression |-> TRUE, value |-> at] ELSE q.args[j]])
  /\ UNCHANGED <<objs, heap, clauses>>

ScanStep == Scan /\ UNCHANGED <<objs, heap, clauses>>

(* The call returns.                                                       *)
Return(neg) ==
  /\ Leave
  /\ LET m == IF format \in DOMAIN Says THEN Says[format] ELSE {}
     IN  Make(CondOf(neg, mode = "failed"), IF neg THEN (SUBSET Columns) \ m ELSE m, mode = "failed",
              {b[k].value : k \in {j \in DOMAIN b : b[j].type = "expression"}})
  /\ UNCHANGED <<heap, clauses>>

-----------------------------------------------------------------------------
(* Arrays.  One that append makes may have room for one more.              *)
Array(vs, room) == [of |-> vs, room |-> room]

(* newLogic with the operands vs, in an array with this much room.         *)
NewLogic(and, vs, room) ==
  IF Len(vs) = 1 THEN [v |-> vs[1], heap |-> heap]
  ELSE [v |-> LogicOf(and, \E k \in DOMAIN vs : vs[k].failed, Len(heap) + 1, Len(vs)),
        heap |-> Append(heap, Array(vs, room))]

(* Bug: the operands are appended to the connective's own slice.           *)
ExtendInPlace(l, vs) ==
  LET old == heap[l.array]
      len == l.len + Len(vs)
      new == Operands(l) \o vs \o SubSeq(old.of, len + 1, Len(old.of))
  IN  IF Len(old.of) + old.room >= len
      THEN [v |-> LogicOf(l.and, l.failed, l.array, len),
            heap |-> [heap EXCEPT ![l.array] = Array(new, Len(old.of) + old.room - Len(new))]]
      ELSE [v |-> LogicOf(l.and, l.failed, Len(heap) + 1, len),
            heap |-> Append(heap, Array(Operands(l) \o vs, 1))]

(* logic.And on an AND, logic.Or on an OR: a copy with the new operands.   *)
(* Only the errors of l itself are kept.                                   *)
Extend(l, vs) ==
  [v |-> LogicOf(l.and, l.failed, Len(heap) + 1, l.len + Len(vs)),
   heap |-> Append(heap, Array(Operands(l) \o vs, 1))]

(* The methods And and Or of condition v.                                  *)
Method(v, and, vs) ==
  IF v.kind = "logic" /\ v.and = and THEN Extend(v, vs)
  ELSE NewLogic(and, <<v>> \o vs, 1)

(* The method Not: the connective is the other one, and its operands are   *)
(* negated, at every level, in new arrays: those of the new condition lie  *)
(* as far behind the old heap as the ones they are made from behind its    *)
(* start.  (Arrays that v does not contain are copied along; nothing       *)
(* refers to those copies.)                                                *)
Negated(v) ==
  IF v.kind = "cond" THEN [v EXCEPT !.not = ~@]
  ELSE LogicOf(~v.and, v.failed, v.array + Len(heap), v.len)
NegatedArray(old) == Array([k \in DOMAIN old.of |-> Negated(old.of[k])], 0)
NegatedHeap(v) ==
  IF v.kind = "cond" THEN heap ELSE heap \o [m \in DOMAIN heap |-> NegatedArray(heap[m])]

Places       == {k \in DOMAIN objs : IsCondition(objs[k].v)}
ValuesAt(ks) == [k \in DOMAIN ks |-> objs[ks[k]].v]

(* The conditions at ks are connected, with this result.                   *)
Made(and, ks, result) ==
  /\ heap' = result.heap
  /\ Make(result.v,
          IF and THEN {s \in SUBSET Columns : \A k \in ToSet(ks) : s \in objs[k].means}
          ELSE UNION {objs[k].means : k \in ToSet(ks)},
          FALSE, ToSet(ks))
  /\ UNCHANGED <<mode, format, args, i, a, c, b, index, clauses>>

(* And(objs[j], objs[k]), or Or: the operands are in the caller's slice,   *)
(* which may have room.                                                    *)
Connect(and, j, k, room) ==
  /\ Made(and, <<j, k>>, NewLogic(and, ValuesAt(<<j, k>>), IF room THEN 1 ELSE 0))

(* objs[j].And(objs[k]), or Or.                                            *)
Chain(and, j, k) ==
  /\ Made(and, <<j, k>>, Method(objs[j].v, and, ValuesAt(<<k>>)))

(* objs[k].Not().                                                          *)
NotOf(k) ==
  /\ heap' = NegatedHeap(objs[k].v)
  /\ Make(Negated(objs[k].v), (SUBSET Columns) \ objs[k].means, FALSE, {k})
  /\ UNCHANGED <<mode, format, args, i, a, c, b, index, clauses>>

-----------------------------------------------------------------------------
Bare(kind) ==
  [kind |-> kind, cl |-> [x \in BuildersOf(kind) |-> <<>>], limit |-> 0, offset |-> 0]

(* The values of a row are told apart by row and column.                   *)
RowValue(r, j) == 100 * r + j
RowOf(r, n)    == [j \in 1..n |-> RowValue(r, j)]

(* A statement with what it needs, and the condition at j if that is not 0. *)
Usual(kind, j) ==
  LET where == IF j = 0 THEN <<>> ELSE <<Obj(j)>>
      v == Bare(kind)
  IN  CASE kind = "select" -> [v EXCEPT !.cl["From"] = <<Str(<<"t">>)>>, !.cl["Where"] = where]
        [] kind = "update" ->
             [v EXCEPT !.cl["Set"] = <<[column |-> First, to |-> [is |-> "value", x |-> ValueFor[First]]]>>,
                       !.cl["Where"] = where]
        [] kind = "delete" -> [v EXCEPT !.cl["Where"] = where]
        [] kind = "insert" -> [v EXCEPT !.cl["Columns"] = SetToSeq(Columns),
                                        !.cl["Values"] = <<RowOf(1, Cardinality(Columns))>>]

NewStatement(kind) ==
  /\ Make(Bare(kind), {}, FALSE, {})
  /\ UNCHANGED <<mode, format, args, i, a, c, b, index, heap, clauses>>

NewUsual(kind, j) ==
  /\ kind = "insert" => j = 0
  /\ Make(Usual(kind, j), {}, FALSE, {j} \ {0})
  /\ UNCHANGED <<mode, format, args, i, a, c, b, index, heap, clauses>>

-----------------------------------------------------------------------------
(* A builder is called on the statement made last, before it is used.      *)
Now       == Len(objs)
Others    == {Obj(k) : k \in Nestable \ {Now}}
Filters   == {Obj(k) : k \in Places}
Used(xs)  == {x.k : x \in {y \in ToSet(xs) : y.is = "object"}}

Chaining  == Idle /\ Now > 0 /\ Now \notin Places /\ clauses < MaxClauses

Called == clauses' = clauses + 1 /\ UNCHANGED <<mode, format, args, i, a, c, b, index, heap>>

(* Builder x is given these items, which use those objects.                *)
Build(x, items, uses) ==
  /\ x \in DOMAIN objs[Now].v.cl
  /\ objs' = [objs EXCEPT ![Now].v.cl[x] = @ \o items, ![Now].uses = @ \cup uses]
  /\ Called

BuildList ==
  \E x \in {"Select", "From", "GroupBy", "OrderBy"}, item \in Strings \cup Others \cup {Neither} :
    Build(x, <<item>>, Used(<<item>>))

(* Where and Having take conditions only.                                  *)
BuildFilter ==
  \E x \in {"Where", "Having"}, items \in BoundedSeq(Filters, 2) : Build(x, items, Used(items))

BuildJoin ==
  \E to \in Strings \cup Others,
     by \in BoundedSeq(Strings \cup Filters \cup {Neither}, 1) \cup (Strings \X Filters) :
    Build("Join", <<[way |-> "LEFT JOIN", to |-> to, by |-> by]>>, Used(<<to>> \o by))

BuildSet ==
  \E s \in Columns : \E to \in {[is |-> "value", x |-> ValueFor[s]]} \cup Others :
    Build("Set", <<[column |-> s, to |-> to]>>, Used(<<to>>))

BuildColumn == \E s \in Columns : Build("Columns", <<s>>, {})

BuildRow ==
  \E n \in 1..Cardinality(Columns) :
    Build("Values", <<RowOf(Len(objs[Now].v.cl["Values"]) + 1, n)>>, {})

SetLimit ==
  /\ objs[Now].v.kind # "insert"
  /\ objs' = [objs EXCEPT ![Now].v.limit = 1]
  /\ Called

SetOffset ==
  /\ objs[Now].v.kind = "select"
  /\ objs' = [objs EXCEPT ![Now].v.offset = 1]
  /\ Called

-----------------------------------------------------------------------------
MakeAnything ==
  \/ \E q \in IF objs = <<>> THEN Calls ELSE Building : Call(q)
  \/ \E and, room \in BOOLEAN, j, k \in Places : Connect(and, j, k, room)
  \/ \E and \in BOOLEAN, j, k \in Places : Chain(and, j, k)
  \/ \E k \in Places : NotOf(k)
  \/ \E kind \in {"select", "insert", "update", "delete"} :
       NewStatement(kind) \/ \E j \in {0} \cup Places : NewUsual(kind, j)

(* Within the bound on objs, the last thing made extends a connective that *)
(* was made just before.                                                   *)
ExtendLatest ==
  \E and \in BOOLEAN, j, k \in Places :
    /\ j = Len(objs) /\ objs[j].v.kind = "logic" /\ objs[j].v.and = and
    /\ Chain(and, j, k)

MakeSomething ==
  \/ Len(objs) + 1 < MaxObjects /\ MakeAnything
  \/ Len(objs) + 1 = MaxObjects /\ ExtendLatest

CallBuilder ==
  \/ BuildList \/ BuildFilter \/ BuildJoin \/ BuildSet
  \/ BuildColumn \/ BuildRow \/ SetLimit \/ SetOffset

Next ==
  \/ Room /\ MakeSomething
  \/ ScanStep
  \/ \E neg \in BOOLEAN : Return(neg)
  \/ Chaining /\ CallBuilder

Spec == Init /\ [][Next]_vars

-----------------------------------------------------------------------------
(* The scanner and the program keep their types; a thing is made of things *)
(* made before it, and a connective's slice lies within its array.         *)
TypeOK ==
  /\ ScanTypeOK
  /\ clauses \in 0..MaxClauses
  /\ \A k \in DOMAIN objs :
       /\ objs[k].uses \subseteq 1..(k - 1)
       /\ objs[k].v.kind = "logic" =>
            objs[k].v.array \in DOMAIN heap /\ objs[k].v.len <= Len(heap[objs[k].v.array].of)

-----------------------------------------------------------------------------
(* The parts of a dotted name, written as the comment of Expr says: a dot  *)
(* between parts, a dot of a part doubled.                                 *)
DotRead(x) == IF x = "." THEN <<".", ".">> ELSE <<x>>
PartRead(s) == FlattenSeq([k \in DOMAIN s |-> DotRead(s[k])])
Qualified(parts) ==
  FlattenSeq([k \in DOMAIN parts |-> IF k = 1 THEN PartRead(parts[k]) ELSE <<".">> \o PartRead(parts[k])])

PartLists == BoundedSeq({s \in Names : Len(s) <= 2}, 2) \ {<<>>}
Rests     == {<<"=", Mark>>, <<"IS NULL">>}
Helped    == [h \in Names \X Rests |-> BackQuote(h[1]) \o h[2]]
Written   == [parts \in PartLists |-> Qualified(parts)]

(* Names reach the text as they were meant.  A helper of query.go puts its *)
(* column between back quotes, and the scanner reads that column first; a  *)
(* dotted name is split into the parts it was written from.  Columns that  *)
(* start with a back quote, and later parts that start with a dot, are     *)
(* misread: the doubled sign is taken for the one before it.  (BackQuote,  *)
(* util.go:64; Expand, expr.go:41-67)                                      *)
NamesKept ==
  mode = "done" =>
    /\ \A s \in Names, rest \in Rests :
         format = Helped[<<s, rest>>] /\ s[1] # Quote => a[1] = Slot /\ b[1] = Identifier(s)
    /\ \A k \in DOMAIN b, parts \in PartLists :
         /\ b[k].type = "identifier"
         /\ b[k].name = Written[parts]
         /\ \A j \in 2..Len(parts) : parts[j][1] # "."
         => Split(b[k].name) = parts

(* The things inside the one at place k, at every depth, and itself.       *)
Inner(k) ==
  {j \in DOMAIN objs :
     \A R \in SUBSET DOMAIN objs : k \in R /\ (\A x \in R : objs[x].uses \subseteq R) => j \in R}

(* What a statement needs: an insert rows of as many values as columns, an *)
(* update something to set, a select something to select from, and every   *)
(* item something that can stand there.                                    *)
Fits(v) ==
  LET cl == v.cl
      NoOther(x) == Neither \notin ToSet(cl[x])
  IN  CASE v.kind = "insert" -> /\ cl["Columns"] # <<>> /\ cl["Values"] # <<>>
                                /\ \A r \in ToSet(cl["Values"]) : Len(r) = Len(cl["Columns"])
        [] v.kind = "update" -> cl["Set"] # <<>> /\ NoOther("OrderBy")
        [] v.kind = "delete" -> NoOther("OrderBy")
        [] v.kind = "select" ->
             /\ cl["From"] # <<>>
             /\ \A x \in {"Select", "From", "GroupBy", "OrderBy"} : NoOther(x)
             /\ \A j \in ToSet(cl["Join"]) :
                  \/ \A x \in ToSet(j.by) : x.is = "string"
                  \/ \A x \in ToSet(j.by) : x.is = "object" /\ x.k \in Places

(* No error is lost and none is invented: the expansion of a thing comes   *)
(* upon an error exactly when something inside is refused or incomplete,   *)
(* at whatever depth and whenever it was put there.  That holds although a *)
(* connective keeps only some of its operands' errors.  (cond.go:63-83,    *)
(* Err and Expand)                                                         *)
ErrorsSurface ==
  Idle /\ Now > 0 =>
    (objs[Now].v \in Expandable <=>
       \A j \in Inner(Now) : ~objs[j].refused /\ (j \notin Places => Fits(objs[j].v)))

(* Conditions are values.  Whatever is made later from a condition or from *)
(* the slice its operands came in, it stays the same condition with the    *)
(* same operands, and nothing is ever written to a slice of the caller.    *)
(* (cond.go:63-83, which copy before they append; newLogic, cond.go:132,   *)
(* keeps the slice it is given)                                            *)
Persistent ==
  [][ /\ \A m \in DOMAIN heap : heap'[m] = heap[m]
      /\ \A k \in Places : objs'[k].v = objs[k].v ]_vars
=============================================================================
