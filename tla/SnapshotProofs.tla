--------------------------- MODULE SnapshotProofs ---------------------------
(***************************************************************************)
(* Proofs about Snapshot and the zero types and struct maps it uses, for   *)
(* every number of clients, rows and operations, all values of the zero    *)
(* types, and all that another program may write into column Z.            *)
(***************************************************************************)
EXTENDS Snapshot, TLAPS

-----------------------------------------------------------------------------
(* The zero types.                                                         *)

(* A value that the column of a zero type may give.                        *)
Fitting(t, d) == IsDriver(d) /\ (d.kind \in {"bool", "time"} => d.kind = KindOf(t))

(* The zero types fall into five kinds.                                    *)
LEMMA TypeCases ==
  ASSUME NEW t \in ZeroTypes
  PROVE  \/ t = "Bool" /\ t \notin Ints /\ t \notin Floats
         \/ t = "String" /\ t \notin Ints /\ t \notin Floats
         \/ t = "Time" /\ t \notin Ints /\ t \notin Floats
         \/ t \in Ints /\ t \notin Floats /\ t \notin {"Bool", "String", "Time"}
         \/ t \in Floats /\ t \notin Ints /\ t \notin {"Bool", "String", "Time"}
  BY DEF ZeroTypes, Ints, Floats

(* What a driver is given for a value of each kind.                        *)
LEMMA KindFacts ==
  ASSUME NEW t \in ZeroTypes
  PROVE  /\ t = "Bool" => KindOf(t) = "bool"
         /\ t \in Ints => KindOf(t) = "int64"
         /\ t \in Floats => KindOf(t) = "float64"
         /\ t = "String" => KindOf(t) = "text"
         /\ t = "Time" => KindOf(t) = "time"
  BY DEF KindOf, Ints, Floats, ZeroTypes

(* A number is known by n.                                                 *)
LEMMA NumberFacts ==
  ASSUME NEW v, IsNumber(v)
  PROVE  v = Number(v.n) /\ v.n \in Int /\ v.form = "number"
  BY DEF IsNumber, Number, ZeroValues, TextForms

(* Value gives something the driver takes, which stands for the value.     *)
LEMMA ValueFacts ==
  ASSUME NEW t \in ZeroTypes, NEW v, IsValue(t, v)
  PROVE  /\ Fitting(t, Value(t, v))
         /\ Denotes(t, Value(t, v)) = {v}
<1>1. CASE v = ZeroOf(t)
  <2>1. Value(t, v) = NilValue
    BY <1>1 DEF Value
  <2>2. Fitting(t, NilValue)
    BY DEF Fitting, IsDriver, NilValue, Driver, Number, IsNumber, DriverValues, ZeroValues, TextForms
  <2>3. Denotes(t, NilValue) = {ZeroOf(t)}
    BY DEF Denotes, NilValue, Driver
  <2> QED
    BY <1>1, <2>1, <2>2, <2>3
<1>2. CASE v # ZeroOf(t)
  <2> DEFINE d == Value(t, v)
  <2>1. d = Driver(KindOf(t), v)
    BY <1>2 DEF Value
  <2>2. d.kind = KindOf(t) /\ d.v = v /\ d = [kind |-> KindOf(t), v |-> v]
    BY <2>1 DEF Driver
  <2> HIDE DEF d
  <2>3. CASE t = "String"
    <3>1. KindOf(t) = "text" /\ IsText(v)
      BY <2>3, KindFacts DEF IsValue
    <3>2. IsDriver(d)
      BY <2>2, <3>1 DEF IsDriver, IsText, DriverValues, ZeroValues, TextForms
    <3>3. Denotes(t, d) = {v}
      BY <2>2, <2>3, <3>1, TypeCases DEF Denotes
    <3> QED
      BY <2>2, <3>1, <3>2, <3>3 DEF Fitting, d
  <2>4. CASE t # "String"
    <3>1. IsNumber(v) /\ v = Number(v.n) /\ v.n \in Int
      BY <2>4, NumberFacts DEF IsValue
    <3>2. KindOf(t) \in {"bool", "int64", "float64", "time"}
      BY <2>4, TypeCases, KindFacts
    <3>3. /\ KindOf(t) = "bool" => t = "Bool"
          /\ KindOf(t) = "int64" => t \in Ints
          /\ KindOf(t) = "float64" => t \in Floats
      BY <2>4, TypeCases, KindFacts
    <3>4. IsDriver(d)
      BY <2>2, <3>1, <3>2, <3>3 DEF IsDriver, IsNumber, IsValue, DriverValues, ZeroValues, TextForms
    <3>5. v \in Denotes(t, d)
      <4>1. CASE t = "Bool"
        BY <2>2, <3>1, <4>1, KindFacts DEF Denotes, IsValue
      <4>2. CASE t \in Ints
        BY <2>2, <3>1, <4>2, KindFacts DEF Denotes, IsValue
      <4>3. CASE t \in Floats
        BY <2>2, <3>1, <4>3, KindFacts DEF Denotes, IsValue
      <4>4. CASE t = "Time"
        BY <2>2, <3>1, <4>4, KindFacts DEF Denotes, IsValue
      <4> QED
        BY <2>4, <4>1, <4>2, <4>3, <4>4, TypeCases
    <3>6. \A x \in Denotes(t, d) : x = v
      BY <2>2, <2>4, <3>1, <3>2 DEF Denotes
    <3> QED
      BY <2>2, <3>4, <3>5, <3>6 DEF Fitting, d
  <2> QED
    BY <2>3, <2>4
<1> QED
  BY <1>1, <1>2

(* toString makes a text, of the form that fmt gives it.                   *)
LEMMA TextFacts ==
  ASSUME NEW d, IsDriver(d)
  PROVE  /\ d.v.n \in Int
         /\ d.kind \in {"text", "int64", "float64"} => IsText(AsText(d))
         /\ d.kind = "text" => AsText(d) = d.v
         /\ d.kind = "int64" => AsText(d) = Text("int", d.v.n) /\ d.v.n % 2 = 0
         /\ d.kind = "float64" => AsText(d) = Text(FloatForm(d.v.n), d.v.n)
<1>1. d.v.n \in Int /\ (d.kind = "text" => IsText(d.v)) /\ (d.kind = "int64" => d.v.n % 2 = 0)
  BY DEF IsDriver, DriverValues, ZeroValues
<1>2. CASE d.kind = "text"
  BY <1>1, <1>2 DEF AsText
<1>3. CASE d.kind = "int64"
  BY <1>1, <1>3 DEF AsText, IsText, TextForms, Text, ZeroValues
<1>4. CASE d.kind = "float64"
  <2>1. AsText(d) = Text(FloatForm(d.v.n), d.v.n)
    BY <1>4 DEF AsText
  <2>2. /\ FloatForm(d.v.n) \in {"exponent", "int", "decimal"}
        /\ FloatForm(d.v.n) = "int" => d.v.n % 2 = 0
    BY DEF FloatForm
  <2>3. IsText(AsText(d))
    BY <1>1, <2>1, <2>2 DEF IsText, TextForms, Text, ZeroValues
  <2> QED
    BY <1>1, <1>4, <2>1, <2>3
<1>5. CASE d.kind \notin {"text", "int64", "float64"}
  BY <1>1, <1>5
<1> QED
  BY <1>2, <1>3, <1>4, <1>5

(* What the driver gives for a value is a value, of the same kind unless   *)
(* it is a number or a text.                                               *)
LEMMA GivenFacts ==
  ASSUME NEW t \in ZeroTypes, NEW d, Fitting(t, d), NEW e \in Given(d)
  PROVE  Fitting(t, e)
<1>1. IsDriver(d) /\ d.v.n \in Int
  BY TextFacts DEF Fitting
<1>2. CASE e = d
  BY <1>2
<1>3. CASE e # d /\ d.kind \in {"int64", "float64"}
  <2>1. e = Driver("text", AsText(d)) /\ IsText(AsText(d))
    BY <1>1, <1>3, TextFacts DEF Given
  <2> QED
    BY <2>1 DEF Fitting, IsDriver, Driver, IsText, DriverValues, ZeroValues, TextForms
<1>4. CASE e # d /\ d.kind = "bool"
  <2>1. IsNumber(d.v) /\ d.v.n \in {0, 2}
    BY <1>1, <1>4 DEF IsDriver
  <2>2. e = Driver("int64", d.v) \/ e = Driver("text", Text("int", d.v.n))
    BY <1>4 DEF Given
  <2>3. CASE e = Driver("int64", d.v)
    BY <2>1, <2>3 DEF Fitting, IsDriver, Driver, IsNumber, DriverValues, ZeroValues, TextForms
  <2>4. CASE e = Driver("text", Text("int", d.v.n))
    BY <2>1, <2>4 DEF Fitting, IsDriver, Driver, IsText, Text, TextForms, DriverValues, ZeroValues
  <2> QED
    BY <2>2, <2>3, <2>4
<1> QED
  BY <1>2, <1>3, <1>4 DEF Given

(* What is said of e, the way convertAssign ends for d: what it assigns is *)
(* a value of the type; without an error it is what d stands for.          *)
Faithful(t, d, e) ==
  /\ e.set => IsValue(t, e.v)
  /\ e.ok => e.set /\ (e.v \in Denotes(t, d) \/ (t = "String" /\ e.v = AsText(d)))

(* convertAssign into Bool: from truth values, 0 and 1, and texts.         *)
LEMMA ConvertBool ==
  ASSUME NEW d, Fitting("Bool", d), d.kind # "nil"
  PROVE  Faithful("Bool", d, ConvertAssign("Bool", d))
<1> DEFINE e == ConvertAssign("Bool", d)
<1>2. "Bool" \notin Ints /\ "Bool" \notin Floats
  BY DEF Ints, Floats
<1>1. e = AssignBool(d)
  BY <1>2 DEF ConvertAssign
<1>3. IsDriver(d)
  BY DEF Fitting
<1>4. ASSUME NEW v, e = Assigned(v), v = Number(d.v.n), d.v.n \in {0, 2},
             d.kind \in {"bool", "int64", "text"},
             d.kind = "text" => d.v.form \in {"int", "true", "false"}
      PROVE  Faithful("Bool", d, e)
  <2>1. IsValue("Bool", v)
    BY <1>2, <1>4 DEF IsValue, IsNumber, Number, ZeroValues, TextForms
  <2>2. v \in Denotes("Bool", d)
    BY <1>2, <1>4 DEF Denotes
  <2> QED
    BY <1>4, <2>1, <2>2 DEF Faithful, Assigned
<1>5. ASSUME e = Unsupported PROVE Faithful("Bool", d, e)
  BY <1>5 DEF Faithful, Unsupported
<1>6. CASE d.kind = "bool"
  <2>1. d.v = Number(d.v.n) /\ d.v.n \in {0, 2}
    BY <1>3, <1>6, NumberFacts DEF IsDriver
  <2>2. e = Assigned(d.v)
    BY <1>1, <1>6 DEF AssignBool
  <2> QED
    BY <1>4, <1>6, <2>1, <2>2
<1>7. CASE d.kind = "text"
  <2>1. e = ParseBool(d.v)
    BY <1>1, <1>7 DEF AssignBool, AsText
  <2>2. IsText(d.v)
    BY <1>3, <1>7 DEF IsDriver
  <2>3. CASE d.v.form \in {"true", "false"} \/ (d.v.form = "int" /\ d.v.n \in {0, 2})
    <3>1. e = Assigned(Number(d.v.n))
      BY <2>1, <2>3 DEF ParseBool, AssignIf
    <3>2. d.v.n \in {0, 2} /\ d.v.form \in {"int", "true", "false"}
      BY <2>2, <2>3 DEF IsText
    <3> QED
      BY <1>4, <1>7, <3>1, <3>2
  <2>4. CASE ~(d.v.form \in {"true", "false"} \/ (d.v.form = "int" /\ d.v.n \in {0, 2}))
    <3>1. e = Unsupported
      BY <2>1, <2>4 DEF ParseBool, AssignIf
    <3> QED
      BY <1>5, <3>1
  <2> QED
    BY <2>3, <2>4
<1>8. CASE d.kind = "int64"
  <2>1. d.v = Number(d.v.n)
    BY <1>3, <1>8, NumberFacts DEF IsDriver
  <2>2. e = AssignIf(d.v.n \in {0, 2}, d.v)
    BY <1>1, <1>8 DEF AssignBool
  <2>3. CASE d.v.n \in {0, 2}
    BY <1>4, <1>8, <2>1, <2>2, <2>3 DEF AssignIf
  <2>4. CASE d.v.n \notin {0, 2}
    BY <1>5, <2>2, <2>4 DEF AssignIf
  <2> QED
    BY <2>3, <2>4
<1>9. CASE d.kind \notin {"bool", "text", "int64"}
  BY <1>1, <1>5, <1>9 DEF AssignBool
<1> QED
  BY <1>6, <1>7, <1>8, <1>9

(* convertAssign into the integers, by way of a text.                      *)
LEMMA ConvertInt ==
  ASSUME NEW t \in Ints, NEW d, Fitting(t, d), d.kind # "nil"
  PROVE  Faithful(t, d, ConvertAssign(t, d))
<1> DEFINE e == ConvertAssign(t, d)
<1>1. t # "Bool" /\ t # "String" /\ t # "Time" /\ t \notin Floats /\ t \in ZeroTypes
  BY DEF Ints, Floats, ZeroTypes
<1>2. e = AssignInt(t, d)
  BY <1>1 DEF ConvertAssign
<1>3. IsDriver(d) /\ d.v.n \in Int
  BY TextFacts DEF Fitting
<1>4. CASE t = "Int64" /\ d.kind = "int64"
  <2>1. e = AssignedButRefused(d.v)
    BY <1>2, <1>4 DEF AssignInt
  <2>2. IsNumber(d.v) /\ d.v.n % 2 = 0
    BY <1>3, <1>4 DEF IsDriver
  <2>3. Fits(t, d.v.n)
    BY <1>4 DEF Fits
  <2>4. IsValue(t, d.v)
    BY <1>1, <2>2, <2>3 DEF IsValue
  <2> QED
    BY <2>1, <2>4 DEF Faithful, AssignedButRefused
<1>5. CASE ~(t = "Int64" /\ d.kind = "int64") /\ d.kind \in {"int64", "float64", "text"}
  <2> DEFINE x == AsText(d)
  <2>1. e = ParseInt(t, x)
    BY <1>2, <1>5 DEF AssignInt
  <2>2. IsText(x) /\ x.n = d.v.n /\ (x.form = "int" /\ d.kind = "text" => d.v.form = "int")
    BY <1>3, <1>5, TextFacts DEF Text
  <2> HIDE DEF x
  <2>3. CASE x.form = "int" /\ Fits(t, x.n)
    <3>1. e = Assigned(Number(d.v.n))
      BY <2>1, <2>2, <2>3 DEF ParseInt, AssignIf
    <3>2. d.v.n % 2 = 0 /\ Fits(t, d.v.n)
      BY <2>2, <2>3 DEF IsText
    <3>3. IsValue(t, Number(d.v.n))
      BY <1>1, <1>3, <3>2 DEF IsValue, IsNumber, Number, ZeroValues, TextForms
    <3>4. Number(d.v.n) \in Denotes(t, d)
      BY <1>1, <1>5, <2>2, <2>3, <3>2 DEF Denotes
    <3> QED
      BY <3>1, <3>3, <3>4 DEF Faithful, Assigned
  <2>4. CASE ~(x.form = "int" /\ Fits(t, x.n))
    <3>1. e = Unsupported
      BY <2>1, <2>4 DEF ParseInt, AssignIf
    <3> QED
      BY <3>1 DEF Faithful, Unsupported
  <2> QED
    BY <2>3, <2>4
<1>6. CASE d.kind \notin {"int64", "float64", "text"}
  <2>1. e = Unsupported
    BY <1>2, <1>6 DEF AssignInt
  <2> QED
    BY <2>1 DEF Faithful, Unsupported
<1> QED
  BY <1>4, <1>5, <1>6

(* convertAssign into the floats, by way of a text.                        *)
LEMMA ConvertFloat ==
  ASSUME NEW t \in Floats, NEW d, Fitting(t, d), d.kind # "nil"
  PROVE  Faithful(t, d, ConvertAssign(t, d))
<1> DEFINE e == ConvertAssign(t, d)
<1>1. t # "Bool" /\ t # "String" /\ t # "Time" /\ t \notin Ints /\ t \in ZeroTypes
  BY DEF Ints, Floats, ZeroTypes
<1>2. e = AssignFloat(t, d)
  BY <1>1 DEF ConvertAssign
<1>3. IsDriver(d) /\ d.v.n \in Int
  BY TextFacts DEF Fitting
<1>4. CASE t = "Float64" /\ d.kind = "float64"
  <2>1. e = AssignedButRefused(d.v)
    BY <1>2, <1>4 DEF AssignFloat
  <2>2. IsNumber(d.v)
    BY <1>3, <1>4 DEF IsDriver
  <2>3. IsValue(t, d.v)
    BY <1>1, <2>2 DEF IsValue
  <2> QED
    BY <2>1, <2>3 DEF Faithful, AssignedButRefused
<1>5. CASE ~(t = "Float64" /\ d.kind = "float64") /\ d.kind \in {"int64", "float64", "text"}
  <2> DEFINE x == AsText(d)
  <2>1. e = ParseFloat(x)
    BY <1>2, <1>5 DEF AssignFloat
  <2>2. IsText(x) /\ x.n = d.v.n /\ (d.kind = "text" => d.v = x)
    BY <1>3, <1>5, TextFacts DEF Text
  <2> HIDE DEF x
  <2>3. CASE x.form \in {"int", "decimal", "exponent"}
    <3>1. e = Assigned(Number(d.v.n))
      BY <2>1, <2>2, <2>3 DEF ParseFloat, AssignIf
    <3>2. IsValue(t, Number(d.v.n))
      BY <1>1, <1>3 DEF IsValue, IsNumber, Number, ZeroValues, TextForms
    <3>3. Number(d.v.n) \in Denotes(t, d)
      BY <1>1, <1>5, <2>2, <2>3 DEF Denotes
    <3> QED
      BY <3>1, <3>2, <3>3 DEF Faithful, Assigned
  <2>4. CASE x.form \notin {"int", "decimal", "exponent"}
    <3>1. e = Unsupported
      BY <2>1, <2>4 DEF ParseFloat, AssignIf
    <3> QED
      BY <3>1 DEF Faithful, Unsupported
  <2> QED
    BY <2>3, <2>4
<1>6. CASE d.kind \notin {"int64", "float64", "text"}
  <2>1. e = Unsupported
    BY <1>2, <1>6 DEF AssignFloat
  <2> QED
    BY <2>1 DEF Faithful, Unsupported
<1> QED
  BY <1>4, <1>5, <1>6

(* convertAssign into every zero type, from everything that a driver may   *)
(* give for its column: it never cuts a number nor invents a value.        *)
LEMMA ConvertFacts ==
  ASSUME NEW t \in ZeroTypes, NEW d, Fitting(t, d)
  PROVE  Faithful(t, d, ConvertAssign(t, d))
<1> DEFINE e == ConvertAssign(t, d)
<1>1. IsDriver(d) /\ d.v.n \in Int
  BY TextFacts DEF Fitting
<1>2. CASE d.kind = "nil"
  <2>1. e = Assigned(ZeroOf(t))
    BY <1>2 DEF ConvertAssign
  <2>2. IsValue(t, ZeroOf(t))
    <3>1. Fits(t, 0)
      BY DEF Fits
    <3>2. t = "String" => IsText(ZeroOf(t)) /\ t \notin Ints
      BY DEF ZeroOf, IsText, Text, TextForms, Ints, ZeroValues
    <3>3. t # "String" => IsNumber(ZeroOf(t)) /\ ZeroOf(t).n = 0
      BY DEF ZeroOf, IsNumber, Number, ZeroValues, TextForms
    <3>4. 0 % 2 = 0
      OBVIOUS
    <3> QED
      BY <3>1, <3>2, <3>3, <3>4 DEF IsValue
  <2>3. ZeroOf(t) \in Denotes(t, d)
    BY <1>2 DEF Denotes
  <2> QED
    BY <2>1, <2>2, <2>3 DEF Faithful, Assigned
<1>3. CASE d.kind # "nil" /\ t = "Bool"
  BY <1>3, ConvertBool
<1>4. CASE d.kind # "nil" /\ t \in Ints
  BY <1>4, ConvertInt
<1>5. CASE d.kind # "nil" /\ t \in Floats
  BY <1>5, ConvertFloat
<1>6. CASE d.kind # "nil" /\ t = "String"
  <2>1. e = Assigned(AsText(d))
    BY <1>6, TypeCases DEF ConvertAssign
  <2>2. d.kind \in {"int64", "float64", "text"}
    BY <1>1, <1>6, KindFacts DEF Fitting, IsDriver, DriverValues, ZeroValues
  <2>3. IsValue(t, AsText(d))
    BY <1>1, <1>6, <2>2, TextFacts, TypeCases DEF IsValue
  <2> QED
    BY <1>6, <2>1, <2>3 DEF Faithful, Assigned
<1>7. CASE d.kind # "nil" /\ t = "Time"
  <2>1. e = AssignIf(d.kind = "time", d.v)
    BY <1>7, TypeCases DEF ConvertAssign
  <2>2. CASE d.kind = "time"
    <3>1. e = Assigned(d.v)
      BY <2>1, <2>2 DEF AssignIf
    <3>2. IsNumber(d.v) /\ d.v = Number(d.v.n)
      BY <1>1, <2>2, NumberFacts DEF IsDriver
    <3>3. IsValue(t, d.v)
      BY <1>7, <3>2, TypeCases DEF IsValue
    <3>4. d.v \in Denotes(t, d)
      BY <1>7, <2>2, <3>2 DEF Denotes
    <3> QED
      BY <3>1, <3>3, <3>4 DEF Faithful, Assigned
  <2>3. CASE d.kind # "time"
    BY <2>1, <2>3 DEF AssignIf, Faithful, Unsupported
  <2> QED
    BY <2>2, <2>3
<1> QED
  BY <1>2, <1>3, <1>4, <1>5, <1>6, <1>7, TypeCases

(* What Value gives, whatever value it was given.                          *)
Storable(t, d) == IsDriver(d) /\ (d = NilValue \/ (d.kind = KindOf(t) /\ IsValue(t, d.v)))

(* Value gives a storable value, and that fits the column.                 *)
LEMMA StorableFacts ==
  ASSUME NEW t \in ZeroTypes
  PROVE  /\ \A d : Storable(t, d) => Fitting(t, d)
         /\ \A v : IsValue(t, v) => Storable(t, Value(t, v))
<1>1. ASSUME NEW d, Storable(t, d) PROVE Fitting(t, d)
  BY <1>1 DEF Storable, Fitting, NilValue, Driver
<1>2. ASSUME NEW v, IsValue(t, v) PROVE Storable(t, Value(t, v))
  <2>1. IsDriver(Value(t, v))
    BY <1>2, ValueFacts DEF Fitting
  <2>2. Value(t, v) = NilValue \/ (Value(t, v).kind = KindOf(t) /\ Value(t, v).v = v)
    BY DEF Value, Driver
  <2> QED
    BY <1>2, <2>1, <2>2 DEF Storable
<1> QED
  BY <1>1, <1>2

(* All types but Int64 and Float64 can scan what they stored.              *)
LEMMA RestoreFacts ==
  ASSUME NEW t \in ZeroTypes \ {"Int64", "Float64"}, NEW d, Storable(t, d), NEW e \in Given(d)
  PROVE  ConvertAssign(t, e).ok
<1>1. /\ IsDriver(d) /\ d.v.n \in Int /\ IsDriver(e)
      /\ d.kind \in {"nil", "bool", "int64", "float64", "text", "time"}
  BY StorableFacts, GivenFacts, TextFacts DEF Fitting, IsDriver, DriverValues
<1>2. CASE d.kind = "nil"
  <2>1. e = d
    BY <1>2 DEF Given
  <2> QED
    BY <1>2, <2>1 DEF ConvertAssign, Assigned
<1>3. CASE d.kind # "nil"
  <2>1. d.kind = KindOf(t) /\ IsValue(t, d.v)
    BY <1>3 DEF Storable, NilValue, Driver
  <2>2. CASE t = "Bool"
    <3>1. d.kind = "bool" /\ d.v.n \in {0, 2}
      BY <2>1, <2>2, KindFacts DEF IsValue
    <3>2. \/ e.kind = "bool"
          \/ e.kind = "int64" /\ e.v.n \in {0, 2}
          \/ e.kind = "text" /\ e.v.form = "int" /\ e.v.n \in {0, 2}
      BY <3>1 DEF Given, Driver, Text
    <3>3. ConvertAssign(t, e) = AssignBool(e)
      BY <2>2, <3>2, TypeCases DEF ConvertAssign
    <3>4. e.kind = "text" => AsText(e) = e.v
      BY DEF AsText
    <3> QED
      BY <3>2, <3>3, <3>4 DEF AssignBool, ParseBool, AssignIf, Assigned
  <2>3. CASE t \in Ints
    <3>1. d.kind = "int64" /\ Fits(t, d.v.n)
      BY <2>1, <2>3, KindFacts DEF IsValue
    <3>2. /\ e.kind \in {"int64", "text"}
          /\ AsText(e) = Text("int", d.v.n)
      BY <3>1 DEF Given, Driver, AsText
    <3>3. ConvertAssign(t, e) = AssignInt(t, e)
      BY <2>3, <3>2, TypeCases DEF ConvertAssign
    <3>4. AssignInt(t, e) = ParseInt(t, AsText(e))
      BY <3>2 DEF AssignInt
    <3> QED
      BY <3>1, <3>2, <3>3, <3>4 DEF ParseInt, AssignIf, Assigned, Text
  <2>4. CASE t \in Floats
    <3>1. d.kind = "float64"
      BY <2>1, <2>4, KindFacts
    <3>2. /\ e.kind \in {"float64", "text"}
          /\ AsText(e) = Text(FloatForm(d.v.n), d.v.n)
      BY <3>1 DEF Given, Driver, AsText
    <3>3. ConvertAssign(t, e) = AssignFloat(t, e)
      BY <2>4, <3>2, TypeCases DEF ConvertAssign
    <3>4. AssignFloat(t, e) = ParseFloat(AsText(e))
      BY <3>2 DEF AssignFloat
    <3>5. FloatForm(d.v.n) \in {"int", "decimal", "exponent"}
      BY DEF FloatForm
    <3> QED
      BY <3>2, <3>3, <3>4, <3>5 DEF ParseFloat, AssignIf, Assigned, Text
  <2>5. CASE t = "String"
    <3>1. d.kind = "text"
      BY <2>1, <2>5, KindFacts
    <3>2. e.kind = "text"
      BY <3>1 DEF Given
    <3> QED
      BY <2>5, <3>2, TypeCases DEF ConvertAssign, Assigned
  <2>6. CASE t = "Time"
    <3>1. d.kind = "time"
      BY <2>1, <2>6, KindFacts
    <3>2. e.kind = "time"
      BY <3>1 DEF Given
    <3> QED
      BY <2>6, <3>2, TypeCases DEF ConvertAssign, AssignIf, Assigned
  <2> QED
    BY <2>2, <2>3, <2>4, <2>5, <2>6, TypeCases
<1> QED
  BY <1>2, <1>3

(* What convertAssign takes is one of the values the row may stand for.    *)
LEMMA MeansFacts ==
  ASSUME type \in ZeroTypes, NEW d, Fitting(type, d), NEW e \in Given(d), ConvertAssign(type, e).ok
  PROVE  ConvertAssign(type, e).v \in Means(d)
<1> DEFINE v == ConvertAssign(type, e).v
<1>1. Fitting(type, e)
  BY GivenFacts
<1>2. Faithful(type, e, ConvertAssign(type, e))
  BY <1>1, ConvertFacts
<1>3. v \in Denotes(type, e) \/ (type = "String" /\ v = AsText(e))
  BY <1>2 DEF Faithful
<1>4. CASE v \in Denotes(type, e)
  BY <1>4 DEF Means
<1>5. CASE type = "String" /\ v = AsText(e)
  <2>1. e.kind \in {"nil", "int64", "float64", "text"} /\ IsDriver(e)
    BY <1>1, <1>5, KindFacts DEF Fitting, IsDriver, DriverValues
  <2>2. CASE e.kind = "nil"
    <3>1. v \in Denotes(type, e)
      BY <2>2 DEF ConvertAssign, Assigned, Denotes
    <3> QED
      BY <3>1 DEF Means
  <2>3. CASE e.kind = "text"
    <3>1. v = e.v
      BY <1>5, <2>3 DEF AsText
    <3>2. v \in Denotes(type, e)
      BY <1>5, <2>3, <3>1 DEF Denotes
    <3> QED
      BY <3>2 DEF Means
  <2>4. CASE e.kind \in {"int64", "float64"}
    <3> DEFINE x == Driver("text", AsText(e))
    <3>1. d.kind # "bool"
      BY <1>5, KindFacts DEF Fitting
    <3>2. e = d
      BY <2>4, <3>1 DEF Given, Driver
    <3>3. x \in Given(d)
      BY <2>4, <3>2 DEF Given
    <3>4. v \in Denotes(type, x)
      BY <1>5 DEF Denotes, Driver
    <3> QED
      BY <3>3, <3>4 DEF Means
  <2> QED
    BY <2>1, <2>2, <2>3, <2>4
<1> QED
  BY <1>3, <1>4, <1>5

-----------------------------------------------------------------------------
(* The columns of a struct.                                                *)
IsStruct(t, s) == s \in Struct /\ IsValue(t, s.Z)

(* Allocating a nil pointer leaves a struct of the same type.              *)
LEMMA AllocatedFacts ==
  ASSUME NEW t, NEW s, IsStruct(t, s), NEW chosen
  PROVE  IsStruct(t, Allocated(s, chosen))
  BY StructConstants DEF IsStruct, Struct, Allocated

(* The first two columns are set one after the other.                      *)
LEMMA UpdateFacts ==
  ASSUME NEW s \in Struct, NEW a, NEW b
  PROVE  [s EXCEPT !.Z = a, !.Doc = b] = [Z |-> a, Doc |-> b, Ref |-> s.Ref]
<1> DEFINE u == [s EXCEPT !.Z = a]
<1>1. DOMAIN s = {"Z", "Doc", "Ref"}
  BY DEF Struct
<1>2. DOMAIN u = {"Z", "Doc", "Ref"} /\ u["Z"] = a /\ u["Ref"] = s.Ref
  BY <1>1
<1> HIDE DEF u
<1>3. [u EXCEPT !.Doc = b] = [Z |-> a, Doc |-> b, Ref |-> s.Ref]
  BY <1>2
<1> QED
  BY <1>3 DEF u

(* MapToStruct after StructToMap: what a struct has of another.            *)
LEMMA CopyFacts ==
  ASSUME NEW t, NEW s, IsStruct(t, s), NEW o, IsStruct(t, o), NEW columns
  PROVE  LET e == MapToStruct(s, StructToMap(o, columns))
         IN  /\ IsStruct(t, e.s)
             /\ IF Refused(o, Chosen(columns)) THEN ~e.ok ELSE e.ok
             /\ e.s = TakenOver(s, o, Chosen(columns))
<1> DEFINE m == StructToMap(o, columns)
           e == MapToStruct(s, m)
           z == IF "Z" \in Chosen(columns) THEN o.Z ELSE s.Z
           doc == IF "Doc" \in Chosen(columns) THEN o.Doc ELSE s.Doc
           x == [Z |-> z, Doc |-> doc, Ref |-> s.Ref]
<1>1. /\ DOMAIN m = Chosen(columns)
      /\ "Z" \in Chosen(columns) => m["Z"] = o.Z
      /\ "Doc" \in Chosen(columns) => m["Doc"] = o.Doc
      /\ "Ref" \in Chosen(columns) => m["Ref"] = RefValue(o)
  BY DEF StructToMap
<1>2. s = [Z |-> s.Z, Doc |-> s.Doc, Ref |-> s.Ref] /\ DOMAIN s = {"Z", "Doc", "Ref"}
  BY DEF IsStruct, Struct
<1>3. e = IF "Ref" \in Chosen(columns) THEN SetRef(x, RefValue(o)) ELSE [ok |-> TRUE, s |-> x]
  <2> HIDE DEF m
  <2>1. [s EXCEPT !.Z = IF "Z" \in DOMAIN m THEN m["Z"] ELSE @,
                  !.Doc = IF "Doc" \in DOMAIN m THEN m["Doc"] ELSE @] = x
    <3> DEFINE u == IF "Z" \in DOMAIN m THEN m["Z"] ELSE s.Z
               v == IF "Doc" \in DOMAIN m THEN m["Doc"] ELSE s.Doc
    <3>1. u = z /\ v = doc
      BY <1>1
    <3>2. \A a, b : [s EXCEPT !.Z = a, !.Doc = b] = [Z |-> a, Doc |-> b, Ref |-> s.Ref]
      BY UpdateFacts, Zenon DEF IsStruct
    <3> HIDE DEF z, doc, u, v
    <3>3. [s EXCEPT !.Z = u, !.Doc = v] = x
      BY <3>1, <3>2
    <3> QED
      BY <3>3 DEF u, v
  <2> QED
    BY <1>1, <2>1 DEF MapToStruct
<1>4. IsStruct(t, x)
  BY DEF IsStruct, Struct
<1>5. CASE "Ref" \notin Chosen(columns)
  <2>1. e = [ok |-> TRUE, s |-> x]
    BY <1>3, <1>5
  <2>2. x = TakenOver(s, o, Chosen(columns))
    BY <1>2, <1>5 DEF TakenOver
  <2> QED
    BY <1>4, <1>5, <2>1, <2>2 DEF Refused
<1>6. CASE "Ref" \in Chosen(columns) /\ o.Ref = NoRef
  <2>1. RefValue(o) = Null
    BY <1>6 DEF RefValue
  <2>2. e = [ok |-> FALSE, s |-> Allocated(x, {"Ref"})]
    BY <1>3, <1>6, <2>1 DEF SetRef
  <2>3. Allocated(x, {"Ref"}) =
          [Z |-> z, Doc |-> doc, Ref |-> IF s.Ref = NoRef THEN 0 ELSE s.Ref]
    BY DEF Allocated
  <2>4. Allocated(x, {"Ref"}) = TakenOver(s, o, Chosen(columns))
    BY <1>2, <1>6, <2>3 DEF TakenOver
  <2> QED
    BY <1>4, <1>6, <2>2, <2>4, AllocatedFacts DEF Refused
<1>7. CASE "Ref" \in Chosen(columns) /\ o.Ref # NoRef
  <2>1. RefValue(o) = o.Ref /\ o.Ref \in Keys /\ o.Ref # Null
    BY <1>7, StructConstants DEF RefValue, IsStruct, Struct
  <2> DEFINE y == [Z |-> z, Doc |-> doc, Ref |-> o.Ref]
  <2>2. [Allocated(x, {"Ref"}) EXCEPT !.Ref = o.Ref] = y
    BY DEF Allocated
  <2>3. e = [ok |-> TRUE, s |-> y]
    BY <1>3, <1>7, <2>1, <2>2 DEF SetRef
  <2>4. IsStruct(t, y)
    BY <2>1 DEF IsStruct, Struct
  <2>5. y = TakenOver(s, o, Chosen(columns))
    BY <1>2, <1>7 DEF TakenOver
  <2> QED
    BY <1>7, <2>3, <2>4, <2>5 DEF Refused
<1> QED
  BY <1>5, <1>6, <1>7

-----------------------------------------------------------------------------
(* Reading a row.                                                          *)
Reads(s, row, chosen, e) ==
  /\ IsStruct(type, e.s)
  /\ e.err = "" =>
       /\ IF "Z" \in chosen THEN e.s.Z \in Means(row.Z) ELSE e.s.Z = s.Z
       /\ e.s.Doc = IF "Doc" \in chosen THEN row.Doc ELSE s.Doc
       /\ e.s.Ref = IF "Ref" \in chosen THEN row.Ref ELSE s.Ref
  /\ e.err # "" /\ Storable(type, row.Z) /\ row.Doc \in Docs /\ type \notin {"Int64", "Float64"} =>
       "Ref" \in chosen /\ row.Ref = Null

(* A row is read as Reads says, in whatever form the driver gives Z.       *)
LEMMA ReadFacts ==
  ASSUME type \in ZeroTypes, NEW s, IsStruct(type, s), NEW row \in Row, Fitting(type, row.Z),
         NEW d \in Given(row.Z), NEW chosen
  PROVE  Reads(s, row, chosen, Read(s, row, chosen, d))
<1> DEFINE z == IF "Z" \in chosen THEN ConvertAssign(type, d)
                ELSE [ok |-> TRUE, set |-> FALSE, v |-> s.Z]
           refs == "Ref" \notin chosen \/ row.Ref # Null
           docs == "Doc" \notin chosen \/ row.Doc # Broken
           newZ == IF z.set THEN z.v ELSE s.Z
           newRef == IF z.ok /\ refs /\ "Ref" \in chosen THEN row.Ref ELSE s.Ref
           newDoc == IF z.ok /\ refs /\ docs /\ "Doc" \in chosen THEN row.Doc ELSE s.Doc
           err == IF ~z.ok \/ ~refs THEN "scan" ELSE IF ~docs THEN "decode" ELSE ""
<1>1. Read(s, row, chosen, d) = [err |-> err, s |-> [Z |-> newZ, Ref |-> newRef, Doc |-> newDoc]]
  BY DEF Read
<1>2. /\ row.Doc \in Docs \cup {Broken} /\ row.Ref \in Keys \cup {Null}
      /\ s.Doc \in Docs /\ s.Ref \in Keys \cup {NoRef} /\ s.Z \in ZeroValues /\ IsValue(type, s.Z)
  BY DEF Row, IsStruct, Struct
<1>3. /\ z.set => IsValue(type, z.v)
      /\ "Z" \in chosen /\ z.ok => z.set /\ z.v \in Means(row.Z)
      /\ "Z" \notin chosen => z.ok /\ ~z.set
  <2>1. CASE "Z" \in chosen
    <3>1. z = ConvertAssign(type, d)
      BY <2>1
    <3>2. Faithful(type, d, ConvertAssign(type, d))
      BY GivenFacts, ConvertFacts
    <3>3. ConvertAssign(type, d).ok => ConvertAssign(type, d).v \in Means(row.Z)
      BY MeansFacts
    <3> HIDE DEF z
    <3> QED
      BY <2>1, <3>1, <3>2, <3>3 DEF Faithful
  <2>2. CASE "Z" \notin chosen
    BY <2>2
  <2> QED
    BY <2>1, <2>2
<1>4. Storable(type, row.Z) /\ type \notin {"Int64", "Float64"} => z.ok
  BY RestoreFacts
<1> HIDE DEF z
<1>5. IsValue(type, newZ) /\ newZ \in ZeroValues
  BY <1>2, <1>3 DEF IsValue, IsText, IsNumber
<1>6. newRef \in Keys \cup {NoRef} /\ newDoc \in Docs
  BY <1>2
<1>7. IsStruct(type, [Z |-> newZ, Ref |-> newRef, Doc |-> newDoc])
  BY <1>5, <1>6 DEF IsStruct, Struct
<1>8. err = "" => z.ok /\ refs /\ docs
  OBVIOUS
<1>9. err = "" => /\ IF "Z" \in chosen THEN newZ \in Means(row.Z) ELSE newZ = s.Z
                  /\ newDoc = IF "Doc" \in chosen THEN row.Doc ELSE s.Doc
                  /\ newRef = IF "Ref" \in chosen THEN row.Ref ELSE s.Ref
  BY <1>3, <1>8
<1>10. err # "" /\ Storable(type, row.Z) /\ row.Doc \in Docs /\ type \notin {"Int64", "Float64"} =>
         "Ref" \in chosen /\ row.Ref = Null
  BY <1>4, SnapshotConstants
<1> HIDE DEF newZ, newRef, newDoc, err
<1> DEFINE e == Read(s, row, chosen, d)
<1>11. /\ e.err = err /\ e.s = [Z |-> newZ, Ref |-> newRef, Doc |-> newDoc]
       /\ e.s.Z = newZ /\ e.s.Ref = newRef /\ e.s.Doc = newDoc
  BY <1>1
<1> HIDE DEF e
<1>12. Reads(s, row, chosen, e)
  BY <1>7, <1>9, <1>10, <1>11 DEF Reads
<1> QED
  BY <1>12 DEF e

-----------------------------------------------------------------------------
(* The inductive invariant.                                                *)

(* The structs, the table as it is and as Insert stored it: other programs *)
(* write what the column may give, Insert what Value gives.                *)
TypeCorrect ==
  /\ type \in TypesOfZ /\ now \in Nat
  /\ DOMAIN structs = Clients /\ \A c \in Clients : IsStruct(type, structs[c])
  /\ DOMAIN rows = Ids /\ \A n \in Ids : rows[n] # None => rows[n] \in Row /\ Fitting(type, rows[n].Z)
  /\ DOMAIN stored = Ids /\ \A n \in Ids : stored[n] # None =>
       stored[n] \in Row /\ Storable(type, stored[n].Z) /\ stored[n].Doc \in Docs
  /\ DOMAIN stmt = Clients /\ DOMAIN res = Clients

(* The row of a statement is that of the struct, which nobody changes      *)
(* while the statement is under way, and the others are about some row.    *)
StatementFits(c) ==
  stmt[c] # None =>
    IF stmt[c].op = "insert"
    THEN /\ stmt[c].row.time \in Nat
         /\ stmt[c].row = [time |-> stmt[c].row.time, Z |-> Value(type, structs[c].Z),
                           Doc |-> structs[c].Doc, Ref |-> RefValue(structs[c])]
    ELSE stmt[c].n \in Ids

Underway == \A c \in Clients : StatementFits(c)

IInv == TypeCorrect /\ Underway

(* What an operation of client c leaves alone.                             *)
Alone(c) ==
  /\ type' = type /\ now' = now
  /\ DOMAIN structs' = Clients /\ DOMAIN stmt' = Clients /\ DOMAIN res' = Clients
  /\ \A d \in Clients \ {c} : structs'[d] = structs[d] /\ stmt'[d] = stmt[d] /\ res'[d] = res[d]
  /\ \A n \in Ids : stored[n] # None => stored'[n] = stored[n]

(* Sending a statement is about the client that sends it.                  *)
LEMMA SendFacts ==
  ASSUME TypeCorrect, NEW c \in Clients, NEW s, Send(c, s)
  PROVE  /\ DOMAIN stmt' = Clients /\ DOMAIN res' = Clients
         /\ stmt'[c] = s /\ res'[c] = None
         /\ \A d \in Clients \ {c} : stmt'[d] = stmt[d] /\ res'[d] = res[d]
  BY DEF TypeCorrect, Send

(* So is the end of an operation.                                          *)
LEMMA EndFacts ==
  ASSUME TypeCorrect, NEW c \in Clients, NEW op, NEW n, NEW t, NEW err, End(c, op, n, t, err)
  PROVE  /\ DOMAIN stmt' = Clients /\ DOMAIN res' = Clients
         /\ stmt'[c] = None
         /\ res'[c].op = op /\ res'[c].n = n /\ res'[c].time = t /\ res'[c].err = err
         /\ \A d \in Clients \ {c} : stmt'[d] = stmt[d] /\ res'[d] = res[d]
  BY DEF TypeCorrect, End

(* What a client does to its struct, when the table stays as it is or      *)
(* changes to another that is as it should be.                             *)
LEMMA AloneFacts ==
  ASSUME TypeCorrect, Underway, NEW c \in Clients, Alone(c), IsStruct(type, structs'[c]),
         DOMAIN rows' = Ids,
         \A n \in Ids : rows'[n] # None => rows'[n] \in Row /\ Fitting(type, rows'[n].Z),
         DOMAIN stored' = Ids,
         \A n \in Ids : stored'[n] # None =>
           stored'[n] \in Row /\ Storable(type, stored'[n].Z) /\ stored'[n].Doc \in Docs
  PROVE  /\ TypeCorrect'
         /\ StatementFits(c)' => Underway'
<1>1. \A d \in Clients : IsStruct(type, structs'[d])
  BY DEF Alone, TypeCorrect
<1>2. TypeCorrect'
  <2>1. (type \in TypesOfZ /\ now \in Nat)'
    BY DEF Alone, TypeCorrect
  <2>2. (DOMAIN structs = Clients /\ \A d \in Clients : IsStruct(type, structs[d]))'
    BY <1>1 DEF Alone
  <2>3. (DOMAIN rows = Ids
         /\ \A n \in Ids : rows[n] # None => rows[n] \in Row /\ Fitting(type, rows[n].Z))'
    BY DEF Alone
  <2>4. (DOMAIN stored = Ids /\ \A n \in Ids : stored[n] # None =>
           stored[n] \in Row /\ Storable(type, stored[n].Z) /\ stored[n].Doc \in Docs)'
    BY DEF Alone
  <2> QED
    BY <2>1, <2>2, <2>3, <2>4 DEF Alone, TypeCorrect
<1>3. ASSUME StatementFits(c)' PROVE Underway'
  <2>1. ASSUME NEW d \in Clients, d # c PROVE StatementFits(d)'
    <3>1. StatementFits(d)
      BY DEF Underway
    <3>2. structs'[d] = structs[d] /\ stmt'[d] = stmt[d] /\ type' = type
      BY <2>1 DEF Alone
    <3> QED
      BY <3>1, <3>2 DEF StatementFits, RefValue
  <2> QED
    BY <1>3, <2>1 DEF Underway
<1> QED
  BY <1>2, <1>3

(* A table that no step changes stays as it should be.                     *)
LEMMA TableKept ==
  ASSUME TypeCorrect, rows' = rows, stored' = stored
  PROVE  /\ DOMAIN rows' = Ids
         /\ \A n \in Ids : rows'[n] # None => rows'[n] \in Row /\ Fitting(type, rows'[n].Z)
         /\ DOMAIN stored' = Ids
         /\ \A n \in Ids : stored'[n] # None =>
              stored'[n] \in Row /\ Storable(type, stored'[n].Z) /\ stored'[n].Doc \in Docs
         /\ \A n \in Ids : stored[n] # None => stored'[n] = stored[n]
  BY DEF TypeCorrect

-----------------------------------------------------------------------------
(* The operations one by one: they keep the invariant, leave the other     *)
(* clients alone, and what an Insert without an error reports is stored.   *)
Reports(c) ==
  res[c] # None /\ res[c].op = "insert" /\ res[c].err = "" =>
    /\ res[c].n \in Ids /\ stored[res[c].n] # None
    /\ stored[res[c].n].time = Kept(res[c].time)
    /\ Denotes(type, stored[res[c].n].Z) = {structs[c].Z}
    /\ stored[res[c].n].Doc = structs[c].Doc
    /\ stored[res[c].n].Ref = RefValue(structs[c])

Done(c) == IInv' /\ Alone(c) /\ (~Postgres => Reports(c)')

(* What the column keeps of a time is a time.                              *)
LEMMA KeptFacts ==
  ASSUME NEW t \in Nat
  PROVE  Kept(t) \in Nat
  BY DEF Kept

(* Steps that change nothing but the client's struct, statement, result.   *)
LEMMA QuietDone ==
  ASSUME IInv, NEW c \in Clients, type' = type, now' = now, rows' = rows, stored' = stored,
         DOMAIN structs' = Clients, IsStruct(type, structs'[c]),
         \A d \in Clients \ {c} : structs'[d] = structs[d],
         DOMAIN stmt' = Clients, DOMAIN res' = Clients,
         \A d \in Clients \ {c} : stmt'[d] = stmt[d] /\ res'[d] = res[d],
         StatementFits(c)', res'[c] = None \/ res'[c].op # "insert" \/ res'[c].err # ""
  PROVE  Done(c)
<1>1. TypeCorrect /\ Underway
  BY DEF IInv
<1>2. Alone(c)
  BY <1>1, TableKept DEF Alone
<1>3. IInv'
  BY <1>1, <1>2, TableKept, AloneFacts DEF IInv
<1>4. Reports(c)'
  BY DEF Reports
<1> QED
  BY <1>2, <1>3, <1>4 DEF Done

(* The row that Insert is about to send is that of the struct.             *)
LEMMA BeginInsertDone ==
  ASSUME IInv, NEW c \in Clients, BeginInsert(c)
  PROVE  Done(c)
<1>1. TypeCorrect
  BY DEF IInv
<1> DEFINE s == [op |-> "insert", n |-> 0, columns |-> <<>>,
                 row |-> [time |-> now, Z |-> Value(type, structs[c].Z),
                          Doc |-> structs[c].Doc, Ref |-> RefValue(structs[c])]]
<1>2. Send(c, s) /\ type' = type /\ now' = now /\ structs' = structs /\ rows' = rows /\ stored' = stored
  BY DEF BeginInsert
<1>3. StatementFits(c)'
  <2>1. stmt'[c] = s
    BY <1>1, <1>2, SendFacts
  <2> QED
    BY <1>1, <1>2, <2>1 DEF StatementFits, TypeCorrect, RefValue
<1> HIDE DEF s
<1> QED
  BY <1>1, <1>2, <1>3, SendFacts, QuietDone DEF TypeCorrect

(* A new row, and the statement is over.                                   *)
LEMMA StoredFacts ==
  ASSUME IInv, NEW c \in Clients, Runs(c, "insert"), NEW n \in Unused, Stored(c, n)
  PROVE  /\ n \in Ids /\ stored[n] = None
         /\ stored'[n] # None
         /\ stored'[n] = [time |-> Kept(stmt[c].row.time), Z |-> Value(type, structs[c].Z),
                          Doc |-> structs[c].Doc, Ref |-> RefValue(structs[c])]
         /\ DOMAIN rows' = Ids
         /\ \A k \in Ids : rows'[k] # None => rows'[k] \in Row /\ Fitting(type, rows'[k].Z)
         /\ DOMAIN stored' = Ids
         /\ \A k \in Ids : stored'[k] # None =>
              stored'[k] \in Row /\ Storable(type, stored'[k].Z) /\ stored'[k].Doc \in Docs
         /\ \A k \in Ids : stored[k] # None => stored'[k] = stored[k]
<1> DEFINE s  == structs[c]
           t  == stmt[c].row.time
           r  == [time |-> Kept(t), Z |-> Value(type, s.Z), Doc |-> s.Doc, Ref |-> RefValue(s)]
<1>1. n \in Ids /\ stored[n] = None
  BY DEF Unused
<1>2. t \in Nat /\ stmt[c].row = [time |-> t, Z |-> Value(type, s.Z), Doc |-> s.Doc, Ref |-> RefValue(s)]
  BY DEF IInv, Underway, StatementFits, Runs, Free
<1>3. [stmt[c].row EXCEPT !.time = Kept(@)] = r
  BY <1>2
<1>4. /\ rows' = [rows EXCEPT ![n] = r]
      /\ stored' = [stored EXCEPT ![n] = rows'[n]]
  BY <1>3 DEF Stored
<1>5. type \in ZeroTypes /\ IsStruct(type, s) /\ DOMAIN rows = Ids /\ DOMAIN stored = Ids
  BY SnapshotConstants DEF IInv, TypeCorrect
<1>6. r \in Row /\ Storable(type, r.Z) /\ Fitting(type, r.Z) /\ r.Doc \in Docs
  <2>1. Storable(type, Value(type, s.Z)) /\ Fitting(type, Value(type, s.Z))
    BY <1>5, StorableFacts DEF IsStruct
  <2>2. Value(type, s.Z) \in DriverValues
    BY <2>1 DEF Storable, IsDriver
  <2>3. s.Doc \in Docs /\ RefValue(s) \in Keys \cup {Null}
    BY <1>5 DEF IsStruct, Struct, RefValue
  <2>4. Kept(t) \in Nat
    BY <1>2, KeptFacts
  <2>5. r \in Row
    BY <2>2, <2>3, <2>4 DEF Row
  <2> QED
    BY <2>1, <2>3, <2>5
<1>7. r # None
  BY <1>6, SnapshotConstants
<1>8. rows'[n] = r /\ stored'[n] = r
  BY <1>1, <1>4, <1>5
<1>9. \A k \in Ids \ {n} : rows'[k] = rows[k] /\ stored'[k] = stored[k]
  BY <1>4, <1>5
<1>10. DOMAIN rows' = Ids /\ DOMAIN stored' = Ids
  BY <1>4, <1>5
<1>11. \A k \in Ids : rows'[k] # None => rows'[k] \in Row /\ Fitting(type, rows'[k].Z)
  BY <1>6, <1>8, <1>9 DEF IInv, TypeCorrect
<1>12. \A k \in Ids : stored'[k] # None =>
         stored'[k] \in Row /\ Storable(type, stored'[k].Z) /\ stored'[k].Doc \in Docs
  BY <1>6, <1>8, <1>9 DEF IInv, TypeCorrect
<1> QED
  BY <1>1, <1>7, <1>8, <1>9, <1>10, <1>11, <1>12

(* Insert reports the row that it has added.                               *)
LEMMA InsertDone ==
  ASSUME IInv, NEW c \in Clients, Insert(c)
  PROVE  Done(c)
<1>1. PICK n \in Unused : Stored(c, n) /\ End(c, "insert", n, stmt[c].row.time, "")
  BY DEF Insert
<1>2. Runs(c, "insert") /\ type' = type /\ now' = now /\ structs' = structs /\ TypeCorrect /\ Underway
  BY DEF Insert, IInv
<1>3. /\ DOMAIN stmt' = Clients /\ DOMAIN res' = Clients /\ stmt'[c] = None
      /\ res'[c].n = n /\ res'[c].time = stmt[c].row.time
      /\ \A d \in Clients \ {c} : stmt'[d] = stmt[d] /\ res'[d] = res[d]
  BY <1>1, <1>2 DEF End, TypeCorrect
<1>4. Alone(c)
  BY <1>1, <1>2, <1>3, StoredFacts DEF Alone, TypeCorrect
<1>5. StatementFits(c)'
  BY <1>3 DEF StatementFits
<1>6. IInv'
  BY <1>1, <1>2, <1>4, <1>5, StoredFacts, AloneFacts DEF IInv, TypeCorrect
<1>7. Reports(c)'
  <2>1. /\ n \in Ids /\ stored'[n] # None
        /\ stored'[n] = [time |-> Kept(stmt[c].row.time), Z |-> Value(type, structs[c].Z),
                         Doc |-> structs[c].Doc, Ref |-> RefValue(structs[c])]
    BY <1>1, <1>2, StoredFacts
  <2>2. res'[c].n = n /\ res'[c].time = stmt[c].row.time
    BY <1>3
  <2>3. type \in ZeroTypes /\ IsValue(type, structs[c].Z)
    BY <1>2, SnapshotConstants DEF TypeCorrect, IsStruct
  <2>4. Denotes(type, Value(type, structs[c].Z)) = {structs[c].Z}
    BY <2>3, ValueFacts
  <2>5. /\ stored'[n].time = Kept(stmt[c].row.time) /\ stored'[n].Z = Value(type, structs[c].Z)
        /\ stored'[n].Doc = structs[c].Doc /\ stored'[n].Ref = RefValue(structs[c])
    BY <2>1
  <2> QED
    BY <1>2, <2>1, <2>2, <2>4, <2>5 DEF Reports, RefValue, Kept
<1> QED
  BY <1>4, <1>6, <1>7 DEF Done

(* A lost Insert ends in an error, unless the driver is that of postgres.  *)
LEMMA InsertLostDone ==
  ASSUME IInv, NEW c \in Clients, InsertLost(c)
  PROVE  Done(c)
<1>1. Runs(c, "insert") /\ type' = type /\ now' = now /\ structs' = structs /\ TypeCorrect /\ Underway
  BY DEF InsertLost, IInv
<1>2. /\ DOMAIN stmt' = Clients /\ DOMAIN res' = Clients /\ stmt'[c] = None
      /\ \A d \in Clients \ {c} : stmt'[d] = stmt[d] /\ res'[d] = res[d]
      /\ ~Postgres => res'[c].err # ""
  <2>1. CASE Postgres
    BY <1>1, <2>1 DEF InsertLost, End, TypeCorrect
  <2>2. CASE ~Postgres
    <3>1. End(c, "insert", 0, 0, "lost")
      BY <2>2 DEF InsertLost
    <3> QED
      BY <1>1, <2>2, <3>1 DEF End, TypeCorrect
  <2> QED
    BY <2>1, <2>2
<1>3. (rows' = rows /\ stored' = stored) \/ \E n \in Unused : Stored(c, n)
  BY DEF InsertLost
<1>4. /\ DOMAIN rows' = Ids
      /\ \A k \in Ids : rows'[k] # None => rows'[k] \in Row /\ Fitting(type, rows'[k].Z)
      /\ DOMAIN stored' = Ids
      /\ \A k \in Ids : stored'[k] # None =>
           stored'[k] \in Row /\ Storable(type, stored'[k].Z) /\ stored'[k].Doc \in Docs
      /\ \A k \in Ids : stored[k] # None => stored'[k] = stored[k]
  <2>1. CASE rows' = rows /\ stored' = stored
    BY <1>1, <2>1, TableKept
  <2>2. ASSUME NEW n \in Unused, Stored(c, n) PROVE <1>4!:
    BY <1>1, <2>2, StoredFacts
  <2> QED
    BY <1>3, <2>1, <2>2
<1>5. Alone(c)
  BY <1>1, <1>2, <1>4 DEF Alone, TypeCorrect
<1>6. StatementFits(c)'
  BY <1>2 DEF StatementFits
<1>7. IInv'
  BY <1>1, <1>4, <1>5, <1>6, AloneFacts DEF IInv, TypeCorrect
<1>8. ~Postgres => Reports(c)'
  BY <1>2 DEF Reports
<1> QED
  BY <1>5, <1>7, <1>8 DEF Done

(* Select refuses its columns, or allocates and sends its statement.       *)
LEMMA BeginSelectDone ==
  ASSUME IInv, NEW c \in Clients, NEW n \in Ids, NEW columns, BeginSelect(c, n, columns)
  PROVE  Done(c)
<1>1. TypeCorrect /\ type' = type /\ now' = now /\ rows' = rows /\ stored' = stored
  BY DEF BeginSelect, IInv
<1>2. CASE End(c, "select", n, 0, "columns") /\ structs' = structs
  <2>1. /\ DOMAIN stmt' = Clients /\ DOMAIN res' = Clients
        /\ stmt'[c] = None /\ res'[c].op # "insert"
        /\ \A d \in Clients \ {c} : stmt'[d] = stmt[d] /\ res'[d] = res[d]
    BY <1>1, <1>2, EndFacts
  <2> QED
    BY <1>1, <1>2, <2>1, QuietDone DEF StatementFits, TypeCorrect
<1>3. CASE /\ structs' = [structs EXCEPT ![c] = Allocated(@, Chosen(columns))]
           /\ Send(c, [op |-> "select", n |-> n, columns |-> columns, row |-> None])
  <2>1. /\ DOMAIN stmt' = Clients /\ DOMAIN res' = Clients
        /\ stmt'[c] = [op |-> "select", n |-> n, columns |-> columns, row |-> None] /\ res'[c] = None
        /\ \A d \in Clients \ {c} : stmt'[d] = stmt[d] /\ res'[d] = res[d]
    BY <1>1, <1>3, SendFacts
  <2>2. /\ DOMAIN structs' = Clients /\ structs'[c] = Allocated(structs[c], Chosen(columns))
        /\ \A d \in Clients \ {c} : structs'[d] = structs[d]
    BY <1>1, <1>3 DEF TypeCorrect
  <2>3. IsStruct(type, structs'[c])
    BY <1>1, <2>2, AllocatedFacts DEF TypeCorrect
  <2>4. StatementFits(c)'
    BY <2>1 DEF StatementFits
  <2> QED
    BY <1>1, <2>1, <2>2, <2>3, <2>4, QuietDone
<1> QED
  BY <1>2, <1>3 DEF BeginSelect

(* Select of a row that is there or not.                                   *)
LEMMA SelectDone ==
  ASSUME IInv, NEW c \in Clients, Select(c)
  PROVE  Done(c)
<1> DEFINE n == stmt[c].n
           chosen == Chosen(stmt[c].columns)
<1>1. /\ TypeCorrect /\ type \in ZeroTypes /\ n \in Ids
      /\ type' = type /\ now' = now /\ rows' = rows /\ stored' = stored
  BY SnapshotConstants DEF Select, IInv, TypeCorrect, Underway, StatementFits, Runs, Free
<1>2. CASE rows[n] = None
  <2>1. End(c, "select", n, 0, "no rows") /\ structs' = structs
    BY <1>2 DEF Select
  <2>2. /\ DOMAIN stmt' = Clients /\ DOMAIN res' = Clients
        /\ stmt'[c] = None /\ res'[c].op # "insert"
        /\ \A d \in Clients \ {c} : stmt'[d] = stmt[d] /\ res'[d] = res[d]
    BY <1>1, <2>1 DEF End, TypeCorrect
  <2> QED
    BY <1>1, <2>1, <2>2, QuietDone DEF StatementFits, TypeCorrect
<1>3. CASE rows[n] # None
  <2>1. PICK d \in Given(rows[n].Z) :
          LET e == Read(structs[c], rows[n], chosen, d)
          IN  /\ structs' = [structs EXCEPT ![c] = e.s]
              /\ End(c, "select", n, IF e.err = "" THEN rows[n].time ELSE 0, e.err)
    BY <1>3 DEF Select
  <2> DEFINE e == Read(structs[c], rows[n], chosen, d)
  <2>2. IsStruct(type, e.s)
    <3>1. IsStruct(type, structs[c]) /\ rows[n] \in Row /\ Fitting(type, rows[n].Z)
      BY <1>1, <1>3 DEF TypeCorrect
    <3> HIDE DEF n, chosen
    <3> QED
      BY <1>1, <3>1, ReadFacts DEF Reads
  <2> HIDE DEF e
  <2>3. structs' = [structs EXCEPT ![c] = e.s]
    BY <2>1 DEF e
  <2>4. End(c, "select", n, IF e.err = "" THEN rows[n].time ELSE 0, e.err)
    BY <2>1 DEF e
  <2>5. /\ DOMAIN stmt' = Clients /\ DOMAIN res' = Clients
        /\ stmt'[c] = None /\ res'[c].op # "insert"
        /\ \A k \in Clients \ {c} : stmt'[k] = stmt[k] /\ res'[k] = res[k]
    BY <1>1, <2>4 DEF End, TypeCorrect
  <2>6. /\ DOMAIN structs' = Clients /\ structs'[c] = e.s
        /\ \A k \in Clients \ {c} : structs'[k] = structs[k]
    BY <1>1, <2>3 DEF TypeCorrect
  <2>7. StatementFits(c)'
    BY <2>5 DEF StatementFits
  <2> QED
    BY <1>1, <2>2, <2>5, <2>6, <2>7, QuietDone
<1> QED
  BY <1>2, <1>3

(* Statements that are lost, and those of Delete.                          *)
LEMMA SelectLostDone ==
  ASSUME IInv, NEW c \in Clients, SelectLost(c)
  PROVE  Done(c)
<1>1. TypeCorrect
  BY DEF IInv
<1>2. /\ type' = type /\ now' = now /\ structs' = structs /\ rows' = rows /\ stored' = stored
      /\ End(c, "select", stmt[c].n, 0, "lost")
  BY DEF SelectLost
<1>3. /\ DOMAIN stmt' = Clients /\ DOMAIN res' = Clients
      /\ stmt'[c] = None /\ res'[c].op # "insert"
      /\ \A d \in Clients \ {c} : stmt'[d] = stmt[d] /\ res'[d] = res[d]
  BY <1>1, <1>2, EndFacts
<1> QED
  BY <1>1, <1>2, <1>3, QuietDone DEF StatementFits, TypeCorrect

(* Delete sends its statement.                                             *)
LEMMA BeginDeleteDone ==
  ASSUME IInv, NEW c \in Clients, NEW n \in Ids, BeginDelete(c, n)
  PROVE  Done(c)
<1>1. TypeCorrect
  BY DEF IInv
<1>2. /\ type' = type /\ now' = now /\ structs' = structs /\ rows' = rows /\ stored' = stored
      /\ Send(c, [op |-> "delete", n |-> n, columns |-> <<>>, row |-> None])
  BY DEF BeginDelete
<1>3. /\ DOMAIN stmt' = Clients /\ DOMAIN res' = Clients
      /\ stmt'[c] = [op |-> "delete", n |-> n, columns |-> <<>>, row |-> None] /\ res'[c] = None
      /\ \A d \in Clients \ {c} : stmt'[d] = stmt[d] /\ res'[d] = res[d]
  BY <1>1, <1>2, SendFacts
<1>4. StatementFits(c)'
  BY <1>3 DEF StatementFits
<1> QED
  BY <1>1, <1>2, <1>3, <1>4, QuietDone DEF TypeCorrect

(* Delete takes away one row or none, answered or not.                     *)
LEMMA DeleteDone ==
  ASSUME IInv, NEW c \in Clients, Delete(c) \/ DeleteLost(c)
  PROVE  Done(c) /\ res'[c].op = "delete"
<1>1. TypeCorrect /\ Underway
  BY DEF IInv
<1>2. /\ type' = type /\ now' = now /\ structs' = structs /\ stored' = stored
      /\ rows' = rows \/ rows' = [rows EXCEPT ![stmt[c].n] = None]
      /\ \E err : End(c, "delete", stmt[c].n, 0, err)
  BY DEF Delete, DeleteLost
<1>3. /\ DOMAIN stmt' = Clients /\ DOMAIN res' = Clients
      /\ stmt'[c] = None /\ res'[c].op = "delete"
      /\ \A d \in Clients \ {c} : stmt'[d] = stmt[d] /\ res'[d] = res[d]
  BY <1>1, <1>2, EndFacts
<1>4. /\ DOMAIN rows' = Ids
      /\ \A k \in Ids : rows'[k] # None => rows'[k] \in Row /\ Fitting(type, rows'[k].Z)
  BY <1>1, <1>2 DEF TypeCorrect
<1>5. Alone(c)
  BY <1>1, <1>2, <1>3 DEF Alone, TypeCorrect
<1>6. StatementFits(c)'
  BY <1>3 DEF StatementFits
<1>7. IInv'
  BY <1>1, <1>2, <1>4, <1>5, <1>6, AloneFacts DEF IInv, TypeCorrect
<1>8. Reports(c)'
  BY <1>3 DEF Reports
<1> QED
  BY <1>3, <1>5, <1>7, <1>8 DEF Done

(* A struct copied from another is still of its type.                      *)
LEMMA CopyDone ==
  ASSUME IInv, NEW c \in Clients, NEW d \in Clients, NEW columns, Copy(c, d, columns)
  PROVE  Done(c)
<1>1. TypeCorrect /\ type' = type /\ now' = now /\ rows' = rows /\ stored' = stored
  BY DEF Copy, IInv
<1>2. CASE End(c, "copy", 0, 0, "columns") /\ structs' = structs
  <2>1. /\ DOMAIN stmt' = Clients /\ DOMAIN res' = Clients
        /\ stmt'[c] = None /\ res'[c].op # "insert"
        /\ \A k \in Clients \ {c} : stmt'[k] = stmt[k] /\ res'[k] = res[k]
    BY <1>1, <1>2, EndFacts
  <2> QED
    BY <1>1, <1>2, <2>1, QuietDone DEF StatementFits, TypeCorrect
<1> DEFINE e == MapToStruct(structs[c], StructToMap(structs[d], columns))
<1>3. CASE /\ structs' = [structs EXCEPT ![c] = e.s]
           /\ End(c, "copy", 0, 0, IF e.ok THEN "" ELSE "set")
  <2>1. IsStruct(type, e.s)
    BY <1>1, CopyFacts DEF TypeCorrect
  <2> HIDE DEF e
  <2>2. /\ DOMAIN stmt' = Clients /\ DOMAIN res' = Clients
        /\ stmt'[c] = None /\ res'[c].op # "insert"
        /\ \A k \in Clients \ {c} : stmt'[k] = stmt[k] /\ res'[k] = res[k]
    BY <1>1, <1>3 DEF End, TypeCorrect
  <2>3. /\ DOMAIN structs' = Clients /\ structs'[c] = e.s
        /\ \A k \in Clients \ {c} : structs'[k] = structs[k]
    BY <1>1, <1>3 DEF TypeCorrect
  <2>4. StatementFits(c)'
    BY <2>2 DEF StatementFits
  <2> QED
    BY <1>1, <2>1, <2>2, <2>3, <2>4, QuietDone
<1> QED
  BY <1>2, <1>3 DEF Copy

(* Every step of a client.                                                 *)
LEMMA OperationDone ==
  ASSUME IInv, NEW c \in Clients, Operation(c)
  PROVE  Done(c)
<1>1. CASE BeginInsert(c)
  BY <1>1, BeginInsertDone
<1>2. CASE Insert(c)
  BY <1>2, InsertDone
<1>3. CASE InsertLost(c)
  BY <1>3, InsertLostDone
<1>4. CASE \E n \in Ids, columns \in Selections : BeginSelect(c, n, columns)
  BY <1>4, BeginSelectDone
<1>5. CASE Select(c)
  BY <1>5, SelectDone
<1>6. CASE SelectLost(c)
  BY <1>6, SelectLostDone
<1>7. CASE \E n \in Ids : BeginDelete(c, n)
  BY <1>7, BeginDeleteDone
<1>8. CASE Delete(c) \/ DeleteLost(c)
  BY <1>8, DeleteDone
<1>9. CASE \E d \in Clients, columns \in Selections : Copy(c, d, columns)
  BY <1>9, CopyDone
<1> QED
  BY <1>1, <1>2, <1>3, <1>4, <1>5, <1>6, <1>7, <1>8, <1>9 DEF Operation

-----------------------------------------------------------------------------
(* The invariant.                                                          *)
LEMMA InitIInv == Init => IInv
<1> SUFFICES ASSUME Init PROVE IInv
  OBVIOUS
<1>1. TypeCorrect
  <2>1. type \in TypesOfZ /\ structs \in [Clients -> Structs[type]]
    BY DEF Init
  <2>2. \A c \in Clients : IsStruct(type, structs[c])
    BY <2>1, SnapshotConstants DEF IsStruct
  <2> QED
    BY <2>1, <2>2 DEF Init, TypeCorrect
<1>2. Underway
  BY DEF Init, Underway, StatementFits
<1> QED
  BY <1>1, <1>2 DEF IInv

(* The clock and other programs leave the clients alone.                   *)
LEMMA OutsideFacts ==
  ASSUME IInv, Tick \/ (\E n \in Ids : Overwrite(n)) \/ UNCHANGED vars
  PROVE  /\ IInv'
         /\ type' = type /\ structs' = structs /\ stored' = stored /\ stmt' = stmt /\ res' = res
<1>1. type' = type /\ structs' = structs /\ stored' = stored /\ stmt' = stmt /\ res' = res
  BY DEF Tick, Overwrite, vars
<1>2. now' \in Nat
  BY DEF IInv, TypeCorrect, Tick, Overwrite, vars
<1>3. /\ DOMAIN rows' = Ids
      /\ \A k \in Ids : rows'[k] # None => rows'[k] \in Row /\ Fitting(type, rows'[k].Z)
  <2>1. CASE rows' = rows
    BY <2>1 DEF IInv, TypeCorrect
  <2>2. ASSUME NEW n \in Ids, rows[n] # None, NEW d \in Foreign, rows' = [rows EXCEPT ![n].Z = d]
        PROVE  <1>3!:
    <3>1. IsDriver(d) /\ Fitting(type, d) /\ d \in DriverValues
      BY SnapshotConstants DEF Fitting, IsDriver
    <3>2. rows[n] \in Row /\ DOMAIN rows = Ids
      BY <2>2 DEF IInv, TypeCorrect
    <3> DEFINE r == [rows[n] EXCEPT !.Z = d]
    <3>3. r \in Row /\ r.Z = d
      BY <3>1, <3>2 DEF Row
    <3>4. rows' = [rows EXCEPT ![n] = r]
      BY <2>2
    <3> HIDE DEF r
    <3> QED
      BY <3>1, <3>2, <3>3, <3>4 DEF IInv, TypeCorrect
  <2>3. ASSUME NEW n \in Ids, rows[n] # None, rows' = [rows EXCEPT ![n].Doc = Broken]
        PROVE  <1>3!:
    <3>1. rows[n] \in Row /\ Fitting(type, rows[n].Z) /\ DOMAIN rows = Ids
      BY <2>3 DEF IInv, TypeCorrect
    <3> DEFINE r == [rows[n] EXCEPT !.Doc = Broken]
    <3>2. r \in Row /\ r.Z = rows[n].Z
      BY <3>1 DEF Row
    <3>3. rows' = [rows EXCEPT ![n] = r]
      BY <2>3
    <3> HIDE DEF r
    <3> QED
      BY <3>1, <3>2, <3>3 DEF IInv, TypeCorrect
  <2> QED
    BY <2>1, <2>2, <2>3 DEF Tick, Overwrite, vars
<1>4. TypeCorrect'
  BY <1>1, <1>2, <1>3 DEF IInv, TypeCorrect
<1>5. Underway'
  BY <1>1 DEF IInv, Underway, StatementFits, RefValue
<1> QED
  BY <1>1, <1>4, <1>5 DEF IInv

(* Every step keeps the invariant.                                         *)
LEMMA NextIInv == IInv /\ [Next]_vars => IInv'
<1> SUFFICES ASSUME IInv, [Next]_vars PROVE IInv'
  OBVIOUS
<1>1. CASE Tick \/ (\E n \in Ids : Overwrite(n)) \/ UNCHANGED vars
  BY <1>1, OutsideFacts
<1>2. CASE \E c \in Clients : Operation(c)
  BY <1>2, OperationDone DEF Done
<1> QED
  BY <1>1, <1>2 DEF Next

(* The invariant holds always.                                             *)
LEMMA InvariantHolds == Spec => []IInv
  BY InitIInv, NextIInv, PTL DEF Spec

(* An operation ends in a step of its own client.                          *)
LEMMA EndsFacts ==
  ASSUME IInv, [Next]_vars, NEW c \in Clients, NEW op, Ends(c, op)
  PROVE  Operation(c)
<1>1. res'[c] # res[c]
  BY DEF Ends
<1>2. ~(Tick \/ (\E n \in Ids : Overwrite(n)) \/ UNCHANGED vars)
  BY <1>1, OutsideFacts
<1>3. PICK d \in Clients : Operation(d)
  BY <1>2 DEF Next
<1>4. d = c
  BY <1>1, <1>3, OperationDone DEF Done, Alone
<1> QED
  BY <1>3, <1>4

(* A Select ends in reading, or with one of two errors.                    *)
LEMMA SelectEnds ==
  ASSUME IInv, NEW c \in Clients, Operation(c), Ends(c, "select")
  PROVE  Select(c) \/ res'[c].err \in {"columns", "lost"}
<1>1. TypeCorrect /\ res'[c] # None /\ res'[c].op = "select"
  BY DEF IInv, Ends
<1>2. ~BeginInsert(c)
  BY <1>1 DEF BeginInsert, Send, TypeCorrect
<1>3. ~Insert(c)
  <2> SUFFICES ASSUME Insert(c) PROVE FALSE
    OBVIOUS
  <2>1. \E n, t, err : End(c, "insert", n, t, err)
    BY DEF Insert
  <2> QED
    BY <1>1, <2>1 DEF End, TypeCorrect
<1>4. ~InsertLost(c)
  <2> SUFFICES ASSUME InsertLost(c) PROVE FALSE
    OBVIOUS
  <2>1. \E n, t, err : End(c, "insert", n, t, err)
    BY DEF InsertLost
  <2> QED
    BY <1>1, <2>1 DEF End, TypeCorrect
<1>5. ASSUME NEW n \in Ids, NEW columns, BeginSelect(c, n, columns)
      PROVE  res'[c].err \in {"columns", "lost"}
  <2>1. CASE End(c, "select", n, 0, "columns")
    BY <1>1, <2>1 DEF End, TypeCorrect
  <2>2. CASE Send(c, [op |-> "select", n |-> n, columns |-> columns, row |-> None])
    BY <1>1, <2>2 DEF Send, TypeCorrect
  <2> QED
    BY <1>5, <2>1, <2>2 DEF BeginSelect
<1>6. SelectLost(c) => res'[c].err \in {"columns", "lost"}
  BY <1>1 DEF SelectLost, End, TypeCorrect
<1>7. ~(\E n \in Ids : BeginDelete(c, n))
  BY <1>1 DEF BeginDelete, Send, TypeCorrect
<1>8. ~(Delete(c) \/ DeleteLost(c))
  BY <1>1, DeleteDone
<1>9. ~(\E d \in Clients, columns \in Selections : Copy(c, d, columns))
  <2> SUFFICES ASSUME NEW d \in Clients, NEW columns, Copy(c, d, columns) PROVE FALSE
    OBVIOUS
  <2>1. \E err : End(c, "copy", 0, 0, err)
    BY DEF Copy
  <2> QED
    BY <1>1, <2>1 DEF End, TypeCorrect
<1> QED
  BY <1>2, <1>3, <1>4, <1>5, <1>6, <1>7, <1>8, <1>9 DEF Operation

-----------------------------------------------------------------------------
(* An Insert without an error has stored the struct as the client has it,  *)
(* under the number it returns, if the driver is not that of postgres      *)
(* (for which the code drops the error).  (snapshot.go:39-87)              *)
THEOREM InsertIsStored ==
  ASSUME ~Postgres
  PROVE  Spec => []SnapshotStored
<1>1. Init => SnapshotStored
  BY DEF Init, SnapshotStored
<1>2. IInv /\ SnapshotStored /\ [Next]_vars => SnapshotStored'
  <2> SUFFICES ASSUME IInv, SnapshotStored, [Next]_vars PROVE SnapshotStored'
    OBVIOUS
  <2>1. CASE Tick \/ (\E n \in Ids : Overwrite(n)) \/ UNCHANGED vars
    <3>1. type' = type /\ structs' = structs /\ stored' = stored /\ res' = res
      BY <2>1, OutsideFacts
    <3> QED
      BY <3>1 DEF SnapshotStored, RefValue, Kept
  <2>2. ASSUME NEW c \in Clients, Operation(c) PROVE SnapshotStored'
    <3>1. Alone(c) /\ Reports(c)'
      BY <2>2, OperationDone DEF Done
    <3>2. ASSUME NEW d \in Clients, d # c PROVE Reports(d)'
      <4>1. /\ type' = type /\ structs'[d] = structs[d] /\ res'[d] = res[d]
            /\ \A n \in Ids : stored[n] # None => stored'[n] = stored[n]
        BY <3>1, <3>2 DEF Alone
      <4>2. Reports(d)
        BY DEF SnapshotStored, Reports
      <4> QED
        BY <4>1, <4>2 DEF Reports, RefValue, Kept
    <3>3. \A d \in Clients : Reports(d)'
      BY <3>1, <3>2
    <3> QED
      BY <3>3 DEF SnapshotStored, Reports
  <2> QED
    BY <2>1, <2>2 DEF Next
<1> QED
  BY <1>1, <1>2, InvariantHolds, PTL DEF Spec

(* A Select without an error gives the struct what the row holds in the    *)
(* chosen columns and nothing else, for both kinds of drivers and all      *)
(* that others may write to the row.  (snapshot.go:90-149, zero.go)        *)
THEOREM SelectGivesTheRow == Spec => SelectRestores
<1>1. ASSUME IInv, [Next]_vars, NEW c \in Clients, Ends(c, "select"), res'[c].err = ""
      PROVE  LET row    == rows[stmt[c].n]
                 chosen == Chosen(stmt[c].columns)
                 s      == structs'[c]
             IN  /\ row # None
                 /\ res'[c].time = row.time
                 /\ IF "Z" \in chosen THEN s.Z \in Means(row.Z) ELSE s.Z = structs[c].Z
                 /\ s.Doc = IF "Doc" \in chosen THEN row.Doc ELSE structs[c].Doc
                 /\ s.Ref = IF "Ref" \in chosen THEN row.Ref ELSE structs[c].Ref
  <2> DEFINE row    == rows[stmt[c].n]
             chosen == Chosen(stmt[c].columns)
  <2>1. Select(c) /\ TypeCorrect
    BY <1>1, EndsFacts, SelectEnds DEF IInv
  <2>2. row # None
    <3>1. CASE row = None
      <4>1. End(c, "select", stmt[c].n, 0, "no rows")
        BY <2>1, <3>1 DEF Select
      <4> QED
        BY <1>1, <2>1, <4>1 DEF End, TypeCorrect
    <3> QED
      BY <3>1
  <2>3. stmt[c].n \in Ids
    BY <1>1, <2>1 DEF IInv, Underway, StatementFits, Select, Runs, Free
  <2>4. PICK d \in Given(row.Z) :
          LET e == Read(structs[c], row, chosen, d)
          IN  /\ structs' = [structs EXCEPT ![c] = e.s]
              /\ End(c, "select", stmt[c].n, IF e.err = "" THEN row.time ELSE 0, e.err)
    BY <2>1, <2>2 DEF Select
  <2>5. type \in ZeroTypes /\ IsStruct(type, structs[c]) /\ row \in Row /\ Fitting(type, row.Z)
    BY <2>1, <2>2, <2>3, SnapshotConstants DEF TypeCorrect
  <2> DEFINE e == Read(structs[c], row, chosen, d)
  <2> HIDE DEF row, chosen
  <2>6. Reads(structs[c], row, chosen, e)
    BY <2>5, ReadFacts
  <2> HIDE DEF e
  <2>7. /\ structs' = [structs EXCEPT ![c] = e.s]
        /\ End(c, "select", stmt[c].n, IF e.err = "" THEN row.time ELSE 0, e.err)
    BY <2>4 DEF e
  <2>8. res'[c].err = e.err /\ res'[c].time = IF e.err = "" THEN row.time ELSE 0
    BY <2>1, <2>7 DEF End, TypeCorrect
  <2>9. structs'[c] = e.s
    BY <2>1, <2>7 DEF TypeCorrect
  <2>10. /\ row # None /\ res'[c].time = row.time
         /\ IF "Z" \in chosen THEN structs'[c].Z \in Means(row.Z) ELSE structs'[c].Z = structs[c].Z
         /\ structs'[c].Doc = IF "Doc" \in chosen THEN row.Doc ELSE structs[c].Doc
         /\ structs'[c].Ref = IF "Ref" \in chosen THEN row.Ref ELSE structs[c].Ref
    BY <1>1, <2>2, <2>6, <2>8, <2>9 DEF Reads
  <2> QED
    BY <2>10 DEF row, chosen
<1> DEFINE A == \A c \in Clients : Ends(c, "select") /\ res'[c].err = "" =>
       LET row    == rows[stmt[c].n]
           chosen == Chosen(stmt[c].columns)
           s      == structs'[c]
       IN  /\ row # None
           /\ res'[c].time = row.time
           /\ IF "Z" \in chosen THEN s.Z \in Means(row.Z) ELSE s.Z = structs[c].Z
           /\ s.Doc = IF "Doc" \in chosen THEN row.Doc ELSE structs[c].Doc
           /\ s.Ref = IF "Ref" \in chosen THEN row.Ref ELSE structs[c].Ref
<1>2. IInv /\ [Next]_vars => A
  BY <1>1
<1>3. IInv /\ [Next]_vars => [A]_vars
  BY <1>2
<1> HIDE DEF A
<1>4. Spec => [][A]_vars
  BY <1>3, InvariantHolds, PTL DEF Spec
<1> QED
  BY <1>4 DEF SelectRestores, A

(* A row that nobody else has written to can be read back, if column Z is  *)
(* not of type Int64 or Float64, which cannot scan what they store.        *)
(* (snapshot.go:139-146; Value and Scan of zero.go)                        *)
THEOREM RowsCanBeRead ==
  ASSUME TypesOfZ \cap {"Int64", "Float64"} = {}
  PROVE  Spec => Restorable
<1>1. ASSUME IInv, [Next]_vars, NEW c \in Clients, Ends(c, "select"), res'[c].err \in {"scan", "decode"}
      PROVE  \/ rows[stmt[c].n] # stored[stmt[c].n]
             \/ "Ref" \in Chosen(stmt[c].columns) /\ rows[stmt[c].n].Ref = Null
  <2> DEFINE row    == rows[stmt[c].n]
             chosen == Chosen(stmt[c].columns)
  <2>1. Select(c) /\ TypeCorrect
    BY <1>1, EndsFacts, SelectEnds DEF IInv
  <2>2. row # None
    <3>1. CASE row = None
      <4>1. End(c, "select", stmt[c].n, 0, "no rows")
        BY <2>1, <3>1 DEF Select
      <4> QED
        BY <1>1, <2>1, <4>1 DEF End, TypeCorrect
    <3> QED
      BY <3>1
  <2>3. stmt[c].n \in Ids
    BY <1>1, <2>1 DEF IInv, Underway, StatementFits, Select, Runs, Free
  <2>4. PICK d \in Given(row.Z) :
          LET e == Read(structs[c], row, chosen, d)
          IN  /\ structs' = [structs EXCEPT ![c] = e.s]
              /\ End(c, "select", stmt[c].n, IF e.err = "" THEN row.time ELSE 0, e.err)
    BY <2>1, <2>2 DEF Select
  <2>5. type \in ZeroTypes /\ IsStruct(type, structs[c]) /\ row \in Row /\ Fitting(type, row.Z)
    BY <2>1, <2>2, <2>3, SnapshotConstants DEF TypeCorrect
  <2>6. row = stored[stmt[c].n] => Storable(type, row.Z) /\ row.Doc \in Docs
    BY <2>1, <2>2, <2>3 DEF TypeCorrect
  <2>7. type \notin {"Int64", "Float64"}
    BY <2>1 DEF TypeCorrect
  <2> DEFINE e == Read(structs[c], row, chosen, d)
  <2> HIDE DEF row, chosen
  <2>8. Reads(structs[c], row, chosen, e)
    BY <2>5, ReadFacts
  <2> HIDE DEF e
  <2>9. End(c, "select", stmt[c].n, IF e.err = "" THEN row.time ELSE 0, e.err)
    BY <2>4 DEF e
  <2>10. res'[c].err = e.err
    BY <2>1, <2>9 DEF End, TypeCorrect
  <2>11. row # stored[stmt[c].n] \/ ("Ref" \in chosen /\ row.Ref = Null)
    BY <1>1, <2>6, <2>7, <2>8, <2>10 DEF Reads
  <2> QED
    BY <2>11 DEF row, chosen
<1> DEFINE A == \A c \in Clients : Ends(c, "select") /\ res'[c].err \in {"scan", "decode"} =>
       \/ rows[stmt[c].n] # stored[stmt[c].n]
       \/ "Ref" \in Chosen(stmt[c].columns) /\ rows[stmt[c].n].Ref = Null
<1>2. IInv /\ [Next]_vars => [A]_vars
  BY <1>1
<1> HIDE DEF A
<1>3. Spec => [][A]_vars
  BY <1>2, InvariantHolds, PTL DEF Spec
<1> QED
  BY <1>3 DEF Restorable, A

(* MapToStruct of StructToMap's map takes over the columns that were asked *)
(* for and nothing else; a Ref that is nil is an error, which leaves the   *)
(* columns before it taken over and a struct in a nil Ref.  (map.go)       *)
THEOREM MapsCarryColumns == Spec => MapRestores
<1> DEFINE A == \A c, d \in Clients, columns \in Selections :
       Copy(c, d, columns) /\ res'[c].err # "columns" =>
         /\ res'[c].err = IF Refused(structs[d], Chosen(columns)) THEN "set" ELSE ""
         /\ structs'[c] = TakenOver(structs[c], structs[d], Chosen(columns))
<1>1. ASSUME IInv, NEW c \in Clients, NEW d \in Clients, NEW columns \in Selections,
             Copy(c, d, columns), res'[c].err # "columns"
      PROVE  /\ res'[c].err = IF Refused(structs[d], Chosen(columns)) THEN "set" ELSE ""
             /\ structs'[c] = TakenOver(structs[c], structs[d], Chosen(columns))
  <2>1. TypeCorrect
    BY <1>1 DEF IInv
  <2> DEFINE e == MapToStruct(structs[c], StructToMap(structs[d], columns))
  <2>2. /\ structs' = [structs EXCEPT ![c] = e.s]
        /\ End(c, "copy", 0, 0, IF e.ok THEN "" ELSE "set")
    <3>1. ~End(c, "copy", 0, 0, "columns")
      BY <1>1, <2>1 DEF End, TypeCorrect
    <3> QED
      BY <1>1, <3>1 DEF Copy
  <2>3. IsStruct(type, structs[c]) /\ IsStruct(type, structs[d])
    BY <2>1 DEF TypeCorrect
  <2>4. /\ IF Refused(structs[d], Chosen(columns)) THEN ~e.ok ELSE e.ok
        /\ e.s = TakenOver(structs[c], structs[d], Chosen(columns))
    <3>1. \A t, s, o, cols : IsStruct(t, s) /\ IsStruct(t, o) =>
            LET f == MapToStruct(s, StructToMap(o, cols))
            IN  /\ IF Refused(o, Chosen(cols)) THEN ~f.ok ELSE f.ok
                /\ f.s = TakenOver(s, o, Chosen(cols))
      BY CopyFacts
    <3> QED
      BY <2>3, <3>1
  <2> HIDE DEF e
  <2>5. res'[c].err = IF e.ok THEN "" ELSE "set"
    BY <2>1, <2>2 DEF End, TypeCorrect
  <2>6. structs'[c] = e.s
    BY <2>1, <2>2 DEF TypeCorrect
  <2> QED
    BY <2>4, <2>5, <2>6
<1>2. IInv => [A]_vars
  BY <1>1
<1>3. Spec => [][A]_vars
  BY <1>2, InvariantHolds, PTL DEF Spec
<1> QED
  BY <1>3, PTL DEF MapRestores
=============================================================================
