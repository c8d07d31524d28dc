-------------------------------- MODULE Zero --------------------------------
(***************************************************************************)
(* The zero types of zero.go: Bool, Int, ..., Time store their zero value  *)
(* as NULL (Value) and read NULL as zero (Scan, which is convertAssign).   *)
(*                                                                         *)
(* Numbers are counted in halves, so that 3 is the number 1.5.  A text is  *)
(* known by the form it has and the number it denotes.                     *)
(***************************************************************************)
EXTENDS Integers

Ints   == {"Int", "Int8", "Int16", "Int32", "Int64"}
Floats == {"Float32", "Float64"}
ZeroTypes == {"Bool", "String", "Time"} \cup Ints \cup Floats

(* A value of a zero type: a text, which is empty, reads as an integer, a  *)
(* decimal, a float with an exponent, true or false, or is some word; or a *)
(* number for all the others (the numbers 0 and 2 for false and true).     *)
Number(n)  == [form |-> "number", n |-> n]
Text(f, n) == [form |-> f, n |-> n]

ZeroOf(type) == IF type = "String" THEN Text("empty", 0) ELSE Number(0)

(* A value that a driver takes or gives: its Go type and what it is.       *)
Driver(kind, v) == [kind |-> kind, v |-> v]
NilValue        == Driver("nil", Number(0))

KindOf(type) ==
  CASE type = "Bool"    -> "bool"
    [] type \in Ints    -> "int64"
    [] type \in Floats  -> "float64"
    [] type = "String"  -> "text"
    [] type = "Time"    -> "time"

(* Int32 and wider types hold every number of the model.                   *)
Fits(type, n) ==
  CASE type = "Int8"  -> n \div 2 \in -128..127
    [] type = "Int16" -> n \div 2 \in -32768..32767
    [] OTHER          -> TRUE

(* Texts, the values of a zero type, and those of a driver.                *)
TextForms == {"empty", "int", "decimal", "exponent", "true", "false", "word"}
ZeroValues == [form : TextForms \cup {"number"}, n : Int]

IsText(t) ==
  /\ t \in ZeroValues /\ t.form # "number"
  /\ t.form = "int" => t.n % 2 = 0
  /\ t.form \in {"true", "false"} => t.n = IF t.form = "true" THEN 2 ELSE 0

IsNumber(v) == v \in ZeroValues /\ v.form = "number"
IsValue(type, v) ==
  /\ IF type = "String" THEN IsText(v) ELSE IsNumber(v)
  /\ type = "Bool" => v.n \in {0, 2}
  /\ type \in Ints => v.n % 2 = 0 /\ Fits(type, v.n)

DriverValues == [kind : {"nil", "bool", "int64", "float64", "text", "time"}, v : ZeroValues]
IsDriver(d) ==
  /\ d \in DriverValues
  /\ IF d.kind = "text" THEN IsText(d.v) ELSE IsNumber(d.v)
  /\ d.kind = "nil" => d = NilValue
  /\ d.kind = "bool" => d.v.n \in {0, 2}
  /\ d.kind = "int64" => d.v.n % 2 = 0

(* Value: zero is NULL.                                                    *)
Value(type, v) == IF v = ZeroOf(type) THEN NilValue ELSE Driver(KindOf(type), v)

-----------------------------------------------------------------------------
(* toString: fmt writes a float with an exponent from a million on.        *)
Million == 2 * 1000000

FloatForm(n) ==
  IF n >= Million \/ -n >= Million THEN "exponent" ELSE IF n % 2 = 0 THEN "int" ELSE "decimal"

AsText(d) ==
  CASE d.kind = "text"    -> d.v
    [] d.kind = "int64"   -> Text("int", d.v.n)
    [] d.kind = "float64" -> Text(FloatForm(d.v.n), d.v.n)
    [] d.kind = "bool"    -> Text(IF d.v.n = 0 THEN "false" ELSE "true", d.v.n)
    [] d.kind = "time"    -> Text("word", d.v.n)

(* How convertAssign ends: with or without an error, and with or without   *)
(* an assignment to the destination.                                       *)
Assigned(v)   == [ok |-> TRUE, set |-> TRUE, v |-> v]
Unsupported   == [ok |-> FALSE, set |-> FALSE, v |-> Number(0)]
AssignedButRefused(v) == [ok |-> FALSE, set |-> TRUE, v |-> v]

AssignIf(ok, v) == IF ok THEN Assigned(v) ELSE Unsupported

(* strconv.ParseBool, Atoi and ParseInt, ParseFloat.                       *)
ParseBool(t) == AssignIf(t.form \in {"true", "false"} \/ (t.form = "int" /\ t.n \in {0, 2}), Number(t.n))

(* Bug: a number that is too large loses its upper bits.                   *)
ParseIntWrapping(type, t) ==
  AssignIf(t.form = "int",
           Number(IF type = "Int8" THEN 2 * (((t.n \div 2 + 128) % 256) - 128) ELSE t.n))

ParseInt(type, t) == AssignIf(t.form = "int" /\ Fits(type, t.n), Number(t.n))
ParseFloat(t)     == AssignIf(t.form \in {"int", "decimal", "exponent"}, Number(t.n))

(* Bug: Bool does not know the numbers that MySQL has for truth values.    *)
AssignBoolStrict(d) ==
  CASE d.kind = "bool" -> Assigned(d.v)
    [] d.kind = "text" -> ParseBool(AsText(d))
    [] OTHER           -> Unsupported

AssignBool(d) ==
  CASE d.kind = "bool"  -> Assigned(d.v)
    [] d.kind = "text"  -> ParseBool(AsText(d))
    [] d.kind = "int64" -> AssignIf(d.v.n \in {0, 2}, d.v)
    [] OTHER            -> Unsupported

(* The cases for Int64 and Float64 assign a value of their own type, and   *)
(* leave the switch without a return for the error at its end.             *)
AssignInt(type, d) ==
  CASE type = "Int64" /\ d.kind = "int64"      -> AssignedButRefused(d.v)
    [] d.kind \in {"int64", "float64", "text"} /\ ~(type = "Int64" /\ d.kind = "int64")
                                               -> ParseInt(type, AsText(d))
    [] OTHER                                   -> Unsupported

AssignFloat(type, d) ==
  CASE type = "Float64" /\ d.kind = "float64"  -> AssignedButRefused(d.v)
    [] d.kind \in {"int64", "float64", "text"} /\ ~(type = "Float64" /\ d.kind = "float64")
                                               -> ParseFloat(AsText(d))
    [] OTHER                                   -> Unsupported

ConvertAssign(type, d) ==
  CASE d.kind = "nil"                          -> Assigned(ZeroOf(type))
    [] d.kind # "nil" /\ type = "Bool"         -> AssignBool(d)
    [] d.kind # "nil" /\ type \in Ints         -> AssignInt(type, d)
    [] d.kind # "nil" /\ type \in Floats       -> AssignFloat(type, d)
    [] d.kind # "nil" /\ type = "String"       -> Assigned(AsText(d))
    [] d.kind # "nil" /\ type = "Time"         -> AssignIf(d.kind = "time", d.v)

-----------------------------------------------------------------------------
(* What a value of a driver stands for in a zero type, said without        *)
(* convertAssign: the number it denotes where the type has that number, a  *)
(* text itself, and zero for NULL.                                         *)
Denotes(type, d) ==
  LET numeric == d.kind \in {"int64", "float64"}
                   \/ (d.kind = "text" /\ d.v.form \in {"int", "decimal", "exponent"})
      truth   == d.kind = "bool" \/ (d.kind = "text" /\ d.v.form \in {"true", "false"})
  IN  {v \in {ZeroOf(type), Number(d.v.n), d.v} :
         \/ d.kind = "nil" /\ v = ZeroOf(type)
         \/ /\ d.kind # "nil"
            /\ \/ type \in Ints /\ numeric /\ d.v.n % 2 = 0 /\ Fits(type, d.v.n) /\ v = Number(d.v.n)
               \/ type \in Floats /\ numeric /\ v = Number(d.v.n)
               \/ type = "Bool" /\ (truth \/ (numeric /\ d.v.n \in {0, 2})) /\ v = Number(d.v.n)
               \/ type = "String" /\ d.kind = "text" /\ v = d.v
               \/ type = "Time" /\ d.kind = "time" /\ v = Number(d.v.n)}
=============================================================================
