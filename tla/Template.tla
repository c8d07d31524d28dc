------------------------------ MODULE Template ------------------------------
(***************************************************************************)
(* newExpr (query/expr.go): the scanner behind Expr, Cond and Not.  It     *)
(* turns a format with back quoted names and question marks into a format  *)
(* for fmt.Sprintf and the list of what its slots stand for.               *)
(*                                                                         *)
(* A format is a sequence of symbols.  The scanner tells apart the back    *)
(* quote, the question mark and the percent sign; any other symbol, be it  *)
(* a character or a whole word, is copied.                                 *)
(***************************************************************************)
EXTENDS Naturals, Sequences, FiniteSets, SequencesExt

CONSTANTS
  Formats,  \* the formats that are scanned
  Args      \* the arguments: [expression : BOOLEAN, value : Nat]

Quote == "back quote"
Mark  == "?"
Slot  == "%s"   \* what Sprintf replaces
Percent == "%%" \* what Sprintf prints as a percent sign

(* A percent sign is a symbol of its own, so no symbol of a format is what *)
(* Sprintf takes for a slot or for a percent sign.                         *)
Symbols == STRING \ {Slot, Percent}

ASSUME TemplateConstants ==
  /\ \A f \in Formats : f \in Seq(Symbols)
  /\ Args \subseteq [expression : BOOLEAN, value : Nat]

VARIABLES
  mode,    \* "idle", "text", "name" (inside back quotes), "done" or "failed"
  format,
  args,
  i,       \* the next symbol of format
  a,       \* the format for Sprintf
  c,       \* the name that is being read
  b,       \* what the slots stand for: names and arguments
  index    \* the arguments taken

scan == <<mode, format, args, i, a, c, b, index>>

Identifier(s) == [type |-> "identifier", name |-> s, value |-> 0]
Argument(v) ==
  [type |-> IF v.expression THEN "expression" ELSE "marker", name |-> <<>>, value |-> v.value]

ScanInit ==
  /\ mode = "idle"
  /\ format = <<>> /\ args = <<>> /\ a = <<>> /\ c = <<>> /\ b = <<>>
  /\ i = 1
  /\ index = 0

Begin(f, v) ==
  /\ mode = "idle"
  /\ mode' = IF f = <<>> THEN "failed" ELSE "text"
  /\ format' = f
  /\ args' = v
  /\ i' = 1
  /\ a' = <<>> /\ c' = <<>> /\ b' = <<>>
  /\ index' = 0

-----------------------------------------------------------------------------
AtEnd   == i > Len(format)
At(s)   == ~AtEnd /\ format[i] = s
Doubled == i < Len(format) /\ format[i + 1] = format[i]

(* Bug: a doubled sign stays doubled.                                      *)
DoubledKept(s) ==
  /\ mode = "text"
  /\ At(s)
  /\ Doubled
  /\ a' = a \o <<s, s>>
  /\ i' = i + 2
  /\ UNCHANGED <<mode, format, args, c, b, index>>

(* A doubled back quote or question mark stands for itself.                *)
DoubledSign(s) ==
  /\ mode = "text"
  /\ At(s)
  /\ Doubled
  /\ a' = Append(a, s)
  /\ i' = i + 2
  /\ UNCHANGED <<mode, format, args, c, b, index>>

OpenName ==
  /\ mode = "text"
  /\ At(Quote)
  /\ ~Doubled
  /\ mode' = "name"
  /\ c' = <<>>
  /\ i' = i + 1
  /\ UNCHANGED <<format, args, a, b, index>>

NameSymbol ==
  /\ mode = "name"
  /\ ~AtEnd /\ (At(Quote) => Doubled)
  /\ c' = Append(c, format[i])
  /\ i' = IF At(Quote) THEN i + 2 ELSE i + 1
  /\ UNCHANGED <<mode, format, args, a, b, index>>

(* Bug: the symbol after a name is skipped.                                *)
CloseNameSkips ==
  /\ mode = "name"
  /\ At(Quote)
  /\ ~Doubled
  /\ mode' = "text"
  /\ a' = Append(a, Slot)
  /\ b' = Append(b, Identifier(c))
  /\ i' = i + 2
  /\ UNCHANGED <<format, args, c, index>>

CloseName ==
  /\ mode = "name"
  /\ At(Quote)
  /\ ~Doubled
  /\ mode' = "text"
  /\ a' = Append(a, Slot)
  /\ b' = Append(b, Identifier(c))
  /\ i' = i + 1
  /\ UNCHANGED <<format, args, c, index>>

TakeArgument ==
  /\ mode = "text"
  /\ At(Mark)
  /\ ~Doubled
  /\ index < Len(args)
  /\ a' = Append(a, Slot)
  /\ b' = Append(b, Argument(args[index + 1]))
  /\ index' = index + 1
  /\ i' = i + 1
  /\ UNCHANGED <<mode, format, args, c>>

Literal ==
  /\ mode = "text"
  /\ ~AtEnd /\ ~At(Quote) /\ ~At(Mark)
  /\ a' = Append(a, IF At("%") THEN Percent ELSE format[i])
  /\ i' = i + 1
  /\ UNCHANGED <<mode, format, args, c, b, index>>

(* The format is no template: a name is not closed, or the question marks  *)
(* and the arguments differ in number.                                     *)
Refuse ==
  /\ \/ mode = "name" /\ AtEnd
     \/ mode = "text" /\ At(Mark) /\ ~Doubled /\ index = Len(args)
     \/ mode = "text" /\ AtEnd /\ index < Len(args)
  /\ mode' = "failed"
  /\ UNCHANGED <<format, args, i, a, c, b, index>>

Accept ==
  /\ mode = "text"
  /\ AtEnd
  /\ index = Len(args)
  /\ mode' = "done"
  /\ UNCHANGED <<format, args, i, a, c, b, index>>

(* The caller of newExpr has what it returned.                             *)
Leave ==
  /\ mode \in {"done", "failed"}
  /\ mode' = "idle"
  /\ UNCHANGED <<format, args, i, a, c, b, index>>

Scan ==
  \/ DoubledSign(Quote) \/ DoubledSign(Mark)
  \/ OpenName \/ NameSymbol \/ CloseName
  \/ TakeArgument \/ Literal \/ Refuse \/ Accept

-----------------------------------------------------------------------------
(* What the slots and the arguments have to do with each other.            *)
Slots == {p \in DOMAIN a : a[p] = Slot}

(* TypeOK of the scanner.                                                  *)
ScanTypeOK ==
  /\ mode \in {"idle", "text", "name", "done", "failed"}
  /\ format \in Formats \cup {<<>>}
  /\ args \in Seq(Args)
  /\ i \in 1..(Len(format) + 1)
  /\ index \in 0..Len(args)
  /\ a \in Seq(Symbols \cup {Slot, Percent})
  /\ c \in Seq(Symbols)
  /\ b \in Seq([type : {"identifier", "marker", "expression"}, name : Seq(Symbols), value : Nat])

(* Every slot of the Sprintf format stands for something, whatever the     *)
(* format was: Sprintf never meets a slot without a value, nor a value     *)
(* without a slot.  (expr.go:79, fmt.Sprintf(e.format, a...))              *)
SlotsFilled == Cardinality(Slots) = Len(b)

(* No name is empty: two back quotes are a back quote.                     *)
NamesNotEmpty == \A k \in DOMAIN b : b[k].type = "identifier" => b[k].name # <<>>

(* The markers and expressions among what the slots stand for are the      *)
(* arguments, every one once and in order.                                 *)
Taken(k) == Cardinality({j \in 1..k : b[j].type # "identifier"})
ArgumentsInOrder ==
  /\ Taken(Len(b)) = index
  /\ \A k \in DOMAIN b : b[k].type # "identifier" => b[k] = Argument(args[Taken(k)])
  /\ mode = "done" => index = Len(args)

(* The reading is the leftmost one: what ends a name is not the first half *)
(* of a doubled back quote, nor does another name start there; a marker is *)
(* not the first half of a doubled question mark, nor does another marker  *)
(* follow it.                                                              *)
SlotsUpTo(p) == Cardinality({q \in 1..p : a[q] = Slot})
IsName(p)    == b[SlotsUpTo(p)].type = "identifier"
Leftmost ==
  \A p \in Slots \ {Len(a)} :
    IF IsName(p) THEN a[p + 1] # Quote /\ (a[p + 1] = Slot => ~IsName(p + 1))
    ELSE a[p + 1] # Mark /\ (a[p + 1] = Slot => IsName(p + 1))

(* A format without question marks that takes no arguments is refused only *)
(* for an odd number of back quotes.                                       *)
RefusedForQuotes ==
  mode = "failed" /\ format # <<>> /\ args = <<>> /\ (\A p \in DOMAIN format : format[p] # Mark) =>
    Cardinality({p \in DOMAIN format : format[p] = Quote}) % 2 = 1

-----------------------------------------------------------------------------
(* BackQuote: how the helpers of query.go write a name into a format.      *)
QuoteRead(x) == IF x = Quote THEN <<Quote, Quote>> ELSE <<x>>
BackQuote(s) == <<Quote>> \o FlattenSeq([k \in DOMAIN s |-> QuoteRead(s[k])]) \o <<Quote>>

(* What the scanner has read, written the way expr.go documents it.        *)
SignRead(x) ==
  CASE x \in {Quote, Mark} -> <<x, x>>
    [] x = Percent -> <<"%">>
    [] OTHER -> <<x>>
FillingRead(x) == IF x.type = "identifier" THEN BackQuote(x.name) ELSE <<Mark>>
Rewritten ==
  FlattenSeq([p \in DOMAIN a |-> IF a[p] = Slot THEN FillingRead(b[SlotsUpTo(p)]) ELSE SignRead(a[p])])

(* The template that newExpr returns says what the format said.  Written   *)
(* out again, with signs and names doubled, it is the format, symbol for   *)
(* symbol; the reading is the leftmost one, in which a doubled sign is     *)
(* never two; every slot stands for something, and every argument is used  *)
(* once and in order.  A format without markers is refused only for an odd *)
(* number of back quotes.  (newExpr, expr.go:86, and the comment of Expr,  *)
(* expr.go:158-164)                                                        *)
ReadsBack ==
  /\ SlotsFilled /\ NamesNotEmpty /\ ArgumentsInOrder /\ Leftmost
  /\ RefusedForQuotes
  /\ mode = "done" => Rewritten = format
=============================================================================
