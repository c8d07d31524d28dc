--------------------------- MODULE TemplateProofs ---------------------------
(***************************************************************************)
(* Proofs about the scanner of Template, for formats of every length and   *)
(* any number of arguments.                                                *)
(***************************************************************************)
EXTENDS Template, FiniteSetTheorems, SequenceTheorems, WellFoundedInduction, TLAPS

(* The scanner on its own: newExpr is called again and again.              *)
ScanNext ==
  \/ \E f \in Formats \cup {<<>>}, v \in Seq(Args) : Begin(f, v)
  \/ Scan
  \/ Leave

ScanSpec == ScanInit /\ [][ScanNext]_scan

-----------------------------------------------------------------------------
(* The inductive invariant.                                                *)

Count(s, x, p) == Cardinality({q \in 1..p : s[q] = x})
NotNames(s, p)   == Cardinality({q \in 1..p : s[q].type # "identifier"})

Filling == [type : {"identifier", "marker", "expression"}, name : Seq(Symbols), value : Nat]

Output == Symbols \cup {Slot, Percent}

(* A name that has just begun does not end at once.                        *)
Begun == mode = "name" /\ c = <<>> => ~At(Quote)

(* What may follow the last symbol, when it is a slot.                     *)
AfterSlot ==
  a # <<>> /\ a[Len(a)] = Slot =>
    /\ mode = "text" => IF IsName(Len(a)) THEN ~At(Quote) ELSE ~At(Mark)
    /\ mode = "name" => ~IsName(Len(a))

(* The back quotes that were read.                                         *)
NoMarks == args = <<>> /\ \A p \in DOMAIN format : format[p] # Mark
Parity ==
  LET odd == Count(format, Quote, i - 1) % 2
  IN  /\ mode = "text" => odd = 0
      /\ mode = "name" => odd = 1
      /\ mode = "failed" /\ format # <<>> /\ NoMarks => i = Len(format) + 1 /\ odd = 1

IInv ==
  /\ ScanTypeOK
  /\ SlotsFilled
  /\ NamesNotEmpty /\ Begun
  /\ ArgumentsInOrder
  /\ Leftmost /\ AfterSlot
  /\ Parity

-----------------------------------------------------------------------------
(* Counting the elements of a sequence.                                    *)
LEMMA FiniteUpTo ==
  ASSUME NEW n \in Nat, NEW S, S \subseteq 1..n
  PROVE  IsFiniteSet(S) /\ Cardinality(S) \in Nat
<1>1. IsFiniteSet(1..n)
  BY FS_Interval
<1> QED
  BY <1>1, FS_Subset, FS_CardinalityType

LEMMA OneMore ==
  ASSUME NEW n \in Nat, NEW S, S \subseteq 1..n
  PROVE  Cardinality(S \cup {n + 1}) = Cardinality(S) + 1
<1>1. IsFiniteSet(S)
  BY FiniteUpTo
<1>2. n + 1 \notin S
  OBVIOUS
<1> QED
  BY <1>1, <1>2, FS_AddElement

(* Sequence t starts like s, which has n elements, and has x behind it.    *)
Extends(t, s, n, x) == n \in Nat /\ (\A q \in 1..n : t[q] = s[q]) /\ t[n + 1] = x

LEMMA AppendCount ==
  ASSUME NEW s, NEW t, NEW n, NEW x, NEW y, Extends(t, s, n, x)
  PROVE  /\ \A p \in 0..n : Count(t, y, p) = Count(s, y, p)
         /\ Count(t, y, n + 1) = Count(s, y, n) + (IF x = y THEN 1 ELSE 0)
<1>1. n \in Nat /\ (\A q \in 1..n : t[q] = s[q]) /\ t[n + 1] = x
  BY DEF Extends
<1>2. \A p \in 0..n : Count(t, y, p) = Count(s, y, p)
  <2> TAKE p \in 0..n
  <2>1. {q \in 1..p : t[q] = y} = {q \in 1..p : s[q] = y}
    BY <1>1
  <2> QED
    BY <2>1 DEF Count
<1>3. Count(t, y, n + 1) = Count(s, y, n) + (IF x = y THEN 1 ELSE 0)
  <2> DEFINE S == {q \in 1..n : s[q] = y}
  <2>1. Cardinality(S) \in Nat /\ Cardinality(S \cup {n + 1}) = Cardinality(S) + 1
    <3>1. S \subseteq 1..n
      OBVIOUS
    <3> QED
      BY <1>1, <3>1, FiniteUpTo, OneMore
  <2>2. {q \in 1..(n + 1) : t[q] = y} = IF x = y THEN S \cup {n + 1} ELSE S
    BY <1>1
  <2>3. Count(s, y, n) = Cardinality(S)
    BY DEF Count
  <2>4. Count(t, y, n + 1) = Cardinality(IF x = y THEN S \cup {n + 1} ELSE S)
    BY <2>2 DEF Count
  <2> HIDE DEF S
  <2> QED
    BY <2>1, <2>3, <2>4
<1> QED
  BY <1>2, <1>3

LEMMA AppendOthers ==
  ASSUME NEW s, NEW t, NEW n, NEW x, Extends(t, s, n, x)
  PROVE  /\ \A p \in 0..n : NotNames(t, p) = NotNames(s, p)
         /\ NotNames(t, n + 1) = NotNames(s, n) + (IF x.type # "identifier" THEN 1 ELSE 0)
<1>1. n \in Nat /\ (\A q \in 1..n : t[q] = s[q]) /\ t[n + 1] = x
  BY DEF Extends
<1>2. \A p \in 0..n : NotNames(t, p) = NotNames(s, p)
  <2> TAKE p \in 0..n
  <2>1. {q \in 1..p : t[q].type # "identifier"} = {q \in 1..p : s[q].type # "identifier"}
    BY <1>1
  <2> QED
    BY <2>1 DEF NotNames
<1>3. NotNames(t, n + 1) = NotNames(s, n) + (IF x.type # "identifier" THEN 1 ELSE 0)
  <2> DEFINE S == {q \in 1..n : s[q].type # "identifier"}
  <2>1. Cardinality(S) \in Nat /\ Cardinality(S \cup {n + 1}) = Cardinality(S) + 1
    <3>1. S \subseteq 1..n
      OBVIOUS
    <3> QED
      BY <1>1, <3>1, FiniteUpTo, OneMore
  <2>2. {q \in 1..(n + 1) : t[q].type # "identifier"} =
          IF x.type # "identifier" THEN S \cup {n + 1} ELSE S
    BY <1>1
  <2>3. NotNames(s, n) = Cardinality(S)
    BY DEF NotNames
  <2>4. NotNames(t, n + 1) = Cardinality(IF x.type # "identifier" THEN S \cup {n + 1} ELSE S)
    BY <2>2 DEF NotNames
  <2> HIDE DEF S
  <2> QED
    BY <2>1, <2>3, <2>4
<1> QED
  BY <1>2, <1>3

(* One more element counted.                                               *)
LEMMA CountNext ==
  ASSUME NEW s, NEW x, NEW n \in Nat
  PROVE  /\ Count(s, x, n) \in Nat
         /\ Count(s, x, 0) = 0
         /\ Count(s, x, n + 1) = Count(s, x, n) + (IF s[n + 1] = x THEN 1 ELSE 0)
<1> DEFINE S == {q \in 1..n : s[q] = x}
<1>1. Cardinality(S) \in Nat /\ Cardinality(S \cup {n + 1}) = Cardinality(S) + 1
  <2>1. S \subseteq 1..n
    OBVIOUS
  <2> QED
    BY <2>1, FiniteUpTo, OneMore
<1>2. {q \in 1..(n + 1) : s[q] = x} = IF s[n + 1] = x THEN S \cup {n + 1} ELSE S
  OBVIOUS
<1>3. {q \in 1..0 : s[q] = x} = {}
  OBVIOUS
<1> QED
  BY <1>1, <1>2, <1>3, FS_EmptySet DEF Count

(* An element that is there counts for something, and not for more than    *)
(* all.                                                                    *)
LEMMA CountBounds ==
  ASSUME NEW s, NEW x, NEW n \in Nat, NEW p \in 1..n, s[p] = x
  PROVE  Count(s, x, p) \in 1..Count(s, x, n)
<1> DEFINE S == {q \in 1..p : s[q] = x}
           L == {q \in 1..n : s[q] = x}
<1>1. p \in S /\ S \subseteq L /\ S \subseteq 1..p /\ L \subseteq 1..n /\ p \in Nat
  OBVIOUS
<1> HIDE DEF S, L
<1>2. IsFiniteSet(S) /\ IsFiniteSet(L) /\ Cardinality(S) \in Nat /\ Cardinality(L) \in Nat
  BY <1>1, FiniteUpTo
<1>3. Cardinality(S) # 0
  BY <1>1, <1>2, FS_EmptySet
<1>4. Cardinality(S) <= Cardinality(L)
  BY <1>1, <1>2, FS_Subset
<1> QED
  BY <1>2, <1>3, <1>4 DEF Count, S, L

LEMMA NotNamesBounds ==
  ASSUME NEW s, NEW n \in Nat
  PROVE  /\ NotNames(s, n) \in Nat
         /\ \A p \in 1..n : s[p].type # "identifier" => NotNames(s, p) \in 1..NotNames(s, n)
<1> DEFINE L == {q \in 1..n : s[q].type # "identifier"}
<1>1. L \subseteq 1..n
  OBVIOUS
<1>2. IsFiniteSet(L) /\ Cardinality(L) \in Nat
  BY <1>1, FiniteUpTo
<1>3. ASSUME NEW p \in 1..n, s[p].type # "identifier"
      PROVE  NotNames(s, p) \in 1..NotNames(s, n)
  <2> DEFINE S == {q \in 1..p : s[q].type # "identifier"}
  <2>1. p \in S /\ S \subseteq L /\ S \subseteq 1..p /\ p \in Nat
    BY <1>3
  <2> HIDE DEF S, L
  <2>2. IsFiniteSet(S) /\ Cardinality(S) \in Nat
    BY <2>1, FiniteUpTo
  <2>3. Cardinality(S) # 0
    BY <2>1, <2>2, FS_EmptySet
  <2>4. Cardinality(S) <= Cardinality(L)
    BY <1>2, <2>1, FS_Subset
  <2> QED
    BY <1>2, <2>2, <2>3, <2>4 DEF NotNames, S, L
<1> QED
  BY <1>2, <1>3 DEF NotNames

-----------------------------------------------------------------------------
(* Induction over the naturals, for a set: the library states it for a     *)
(* predicate, which needs a prover for operators as parameters.            *)
LEMMA NatInductive ==
  ASSUME NEW S, 0 \in S, \A n \in Nat : n \in S => n + 1 \in S
  PROVE  Nat \subseteq S
<1> DEFINE R == {p \in Nat \X Nat : p[1] < p[2]}
           Left == Nat \ S
<1>1. SUFFICES ASSUME Left # {} PROVE FALSE
  OBVIOUS
<1>2. IsWellFoundedOn(R, Nat)
  BY NatLessThanWellFounded DEF OpToRel
<1>3. Left \subseteq Nat
  OBVIOUS
<1> HIDE DEF R, Left
<1>4. PICK n \in Left : \A m \in Left : <<m, n>> \notin R
  BY <1>1, <1>2, <1>3, WFMin
<1>5. n \in Nat /\ n \notin S /\ n # 0
  BY DEF Left
<1>6. n - 1 \in Nat /\ n - 1 < n /\ (n - 1) + 1 = n
  BY <1>5
<1>7. n - 1 \in S
  BY <1>4, <1>5, <1>6 DEF Left, R
<1> QED
  BY <1>5, <1>6, <1>7

(* FlattenSeq is a recursive function; f is it, for the first n of ss.     *)
Flattens(f, ss, n) == f = [k \in 1..n |-> IF k = 1 THEN ss[k] ELSE f[k - 1] \o ss[k]]

LEMMA FlattensOne ==
  ASSUME NEW n \in Nat, NEW ss, NEW f, Flattens(f, ss, n), NEW k \in 1..n
  PROVE  f[k] = IF k = 1 THEN ss[k] ELSE f[k - 1] \o ss[k]
<1> DEFINE g == [j \in 1..n |-> IF j = 1 THEN ss[j] ELSE f[j - 1] \o ss[j]]
<1>1. f = g
  BY DEF Flattens
<1>2. g[k] = IF k = 1 THEN ss[k] ELSE f[k - 1] \o ss[k]
  OBVIOUS
<1> QED
  BY <1>1, <1>2

LEMMA FlattensMore ==
  ASSUME NEW n \in Nat, NEW ss, NEW tt, NEW f, Flattens(f, ss, n),
         \A k \in 1..n : tt[k] = ss[k]
  PROVE  LET x == IF n = 0 THEN tt[1] ELSE f[n] \o tt[n + 1]
         IN  Flattens([k \in 1..(n + 1) |-> IF k <= n THEN f[k] ELSE x], tt, n + 1)
<1> DEFINE x == IF n = 0 THEN tt[1] ELSE f[n] \o tt[n + 1]
           g == [k \in 1..(n + 1) |-> IF k <= n THEN f[k] ELSE x]
           h == [k \in 1..(n + 1) |-> IF k = 1 THEN tt[k] ELSE g[k - 1] \o tt[k]]
<1>1. ASSUME NEW k \in 1..(n + 1) PROVE g[k] = IF k = 1 THEN tt[k] ELSE g[k - 1] \o tt[k]
  <2>1. CASE k <= n
    <3>1. k \in 1..n /\ k \in Nat /\ (k # 1 => k - 1 \in 1..n /\ k - 1 \in 1..(n + 1))
      BY <1>1, <2>1
    <3>2. f[k] = IF k = 1 THEN ss[k] ELSE f[k - 1] \o ss[k]
      BY <3>1, FlattensOne
    <3>3. g[k] = f[k] /\ (k # 1 => g[k - 1] = f[k - 1])
      BY <2>1, <3>1
    <3>4. ss[k] = tt[k]
      BY <3>1
    <3> HIDE DEF g
    <3> QED
      BY <3>2, <3>3, <3>4
  <2>2. CASE ~(k <= n)
    <3>1. k = n + 1 /\ n + 1 \in 1..(n + 1) /\ (n # 0 => n \in 1..(n + 1) /\ n + 1 # 1) /\ (n = 0 => k = 1)
          /\ (n + 1) - 1 = n
      BY <1>1, <2>2
    <3>2. g[k] = x
      BY <2>2
    <3>3. n # 0 => g[k - 1] = f[n]
      BY <3>1
    <3> HIDE DEF g
    <3> QED
      BY <3>1, <3>2, <3>3
  <2> QED
    BY <2>1, <2>2
<1>2. g = h
  <2> HIDE DEF x
  <2> QED
    BY <1>1
<1> QED
  BY <1>2 DEF Flattens

LEMMA FlattensExists ==
  ASSUME NEW n \in Nat, NEW ss
  PROVE  \E f : Flattens(f, ss, n)
<1> DEFINE S == {m \in Nat : \E f : Flattens(f, ss, m)}
<1>1. 0 \in S
  <2> DEFINE f == [k \in 1..0 |-> ss]
  <2>1. f = [k \in 1..0 |-> IF k = 1 THEN ss[k] ELSE f[k - 1] \o ss[k]]
    OBVIOUS
  <2> QED
    BY <2>1 DEF Flattens
<1>2. ASSUME NEW m \in Nat, m \in S PROVE m + 1 \in S
  <2>1. PICK f : Flattens(f, ss, m)
    BY <1>2
  <2>2. \A k \in 1..m : ss[k] = ss[k]
    OBVIOUS
  <2>3. \E g : Flattens(g, ss, m + 1)
    BY <2>1, <2>2, FlattensMore
  <2> QED
    BY <2>3
<1> HIDE DEF S
<1>3. Nat \subseteq S
  BY <1>1, <1>2, NatInductive
<1> QED
  BY <1>3 DEF S

LEMMA FlattensUnique ==
  ASSUME NEW n \in Nat, NEW ss, NEW f, NEW g, Flattens(f, ss, n), Flattens(g, ss, n)
  PROVE  f = g
<1> DEFINE S == {m \in Nat : m = 0 \/ m > n \/ f[m] = g[m]}
<1>1. 0 \in S
  OBVIOUS
<1>2. ASSUME NEW m \in Nat, m \in S PROVE m + 1 \in S
  <2> SUFFICES ASSUME m + 1 <= n PROVE f[m + 1] = g[m + 1]
    OBVIOUS
  <2>1. m + 1 \in 1..n /\ (m + 1) - 1 = m /\ (m + 1 = 1 <=> m = 0) /\ ~(m > n)
    OBVIOUS
  <2>2. m # 0 => f[m] = g[m]
    BY <1>2, <2>1
  <2>3. f[m + 1] = IF m = 0 THEN ss[m + 1] ELSE f[m] \o ss[m + 1]
    BY <2>1, FlattensOne
  <2>4. g[m + 1] = IF m = 0 THEN ss[m + 1] ELSE g[m] \o ss[m + 1]
    BY <2>1, FlattensOne
  <2> QED
    BY <2>2, <2>3, <2>4
<1>3. Nat \subseteq S
  <2> HIDE DEF S
  <2> QED
    BY <1>1, <1>2, NatInductive
<1>4. \A k \in 1..n : f[k] = g[k]
  BY <1>3
<1>5. DOMAIN f = 1..n /\ DOMAIN g = 1..n
  BY DEF Flattens
<1>6. f = [k \in 1..n |-> f[k]] /\ g = [k \in 1..n |-> g[k]]
  BY Zenon DEF Flattens
<1> QED
  BY <1>4, <1>6

LEMMA FlattenIs ==
  ASSUME NEW ss, Len(ss) \in Nat, Len(ss) # 0, NEW f, Flattens(f, ss, Len(ss))
  PROVE  FlattenSeq(ss) = f[Len(ss)]
<1> DEFINE n == Len(ss)
           F(g) == g = [k \in 1..n |-> IF k = 1 THEN ss[k] ELSE g[k - 1] \o ss[k]]
           chosen == CHOOSE g : F(g)
<1>1. FlattenSeq(ss) = chosen[n]
  BY DEF FlattenSeq
<1>2. F(f)
  BY DEF Flattens
<1>3. F(chosen)
  <2> HIDE DEF F
  <2> QED
    BY <1>2
<1>4. Flattens(chosen, ss, n)
  <2> HIDE DEF chosen
  <2> QED
    BY <1>3 DEF Flattens
<1>5. f = chosen
  <2> HIDE DEF chosen
  <2> QED
    BY <1>4, FlattensUnique
<1> QED
  BY <1>1, <1>5

LEMMA FlattenNone == FlattenSeq(<<>>) = <<>>
  BY EmptySeq DEF FlattenSeq

(* FlattenSeq, one sequence at a time.                                     *)
LEMMA FlattenNext ==
  ASSUME NEW T, NEW ss \in Seq(Seq(T)), NEW x \in Seq(T), FlattenSeq(ss) \in Seq(T)
  PROVE  FlattenSeq(Append(ss, x)) = FlattenSeq(ss) \o x
<1> DEFINE n == Len(ss)
           tt == Append(ss, x)
<1>1. n \in Nat /\ Len(tt) = n + 1 /\ (\A k \in 1..n : tt[k] = ss[k]) /\ tt[n + 1] = x
  BY AppendProperties, LenProperties
<1>2. PICK f : Flattens(f, ss, n)
  BY <1>1, FlattensExists
<1> DEFINE y == IF n = 0 THEN tt[1] ELSE f[n] \o tt[n + 1]
           g == [k \in 1..(n + 1) |-> IF k <= n THEN f[k] ELSE y]
<1> HIDE DEF n, tt
<1>3. Flattens(g, tt, n + 1)
  BY <1>1, <1>2, FlattensMore
<1>4. g[n + 1] = y
  BY <1>1
<1> HIDE DEF g
<1>5. FlattenSeq(tt) = y
  <2>1. Len(tt) \in Nat /\ Len(tt) # 0
    BY <1>1
  <2> QED
    BY <1>1, <1>3, <1>4, <2>1, FlattenIs
<1>6. CASE n = 0
  <2>1. ss = <<>> /\ FlattenSeq(ss) = <<>>
    BY <1>6, FlattenNone, EmptySeq DEF n
  <2>2. <<>> \o x = x
    BY ConcatEmptySeq
  <2> QED
    BY <1>1, <1>5, <1>6, <2>1, <2>2 DEF tt
<1>7. CASE n # 0
  <2>1. FlattenSeq(ss) = f[n]
    BY <1>1, <1>2, <1>7, FlattenIs DEF n
  <2> QED
    BY <1>1, <1>5, <1>7, <2>1 DEF tt
<1> QED
  BY <1>6, <1>7

LEMMA FlattenType ==
  ASSUME NEW T, NEW ss \in Seq(Seq(T))
  PROVE  FlattenSeq(ss) \in Seq(T)
<1> DEFINE S == {n \in Nat : \A tt \in Seq(Seq(T)) : Len(tt) = n => FlattenSeq(tt) \in Seq(T)}
<1>1. 0 \in S
  <2>1. ASSUME NEW tt \in Seq(Seq(T)), Len(tt) = 0 PROVE FlattenSeq(tt) \in Seq(T)
    BY <2>1, FlattenNone, EmptySeq
  <2> QED
    BY <2>1
<1>2. ASSUME NEW n \in Nat, n \in S PROVE n + 1 \in S
  <2>1. ASSUME NEW tt \in Seq(Seq(T)), Len(tt) = n + 1 PROVE FlattenSeq(tt) \in Seq(T)
    <3>1. tt # <<>>
      BY <2>1, EmptySeq
    <3>2. PICK uu \in Seq(Seq(T)), x \in Seq(T) : tt = Append(uu, x)
      BY <3>1, SequenceEmptyOrAppend
    <3>3. Len(uu) = n
      <4>1. Len(tt) = Len(uu) + 1 /\ Len(uu) \in Nat
        BY <3>2, AppendProperties, LenProperties
      <4> QED
        BY <2>1, <4>1
    <3>4. FlattenSeq(uu) \in Seq(T)
      BY <1>2, <3>3
    <3>5. FlattenSeq(tt) = FlattenSeq(uu) \o x
      BY <3>2, <3>4, FlattenNext
    <3> QED
      BY <3>4, <3>5, ConcatProperties
  <2> QED
    BY <2>1
<1> HIDE DEF S
<1>3. Nat \subseteq S
  BY <1>1, <1>2, NatInductive
<1>4. Len(ss) \in Nat
  BY LenProperties
<1> QED
  BY <1>3, <1>4 DEF S

LEMMA FlattenAppend ==
  ASSUME NEW T, NEW ss \in Seq(Seq(T)), NEW x \in Seq(T)
  PROVE  FlattenSeq(Append(ss, x)) = FlattenSeq(ss) \o x
  BY FlattenType, FlattenNext

-----------------------------------------------------------------------------
(* What the scanner knows of its format.                                   *)
LEMMA FormatFacts ==
  ASSUME ScanTypeOK
  PROVE  /\ format \in Seq(Symbols) /\ DOMAIN format = 1..Len(format)
         /\ Len(format) \in Nat /\ i \in Nat /\ i - 1 \in Nat
         /\ Len(args) \in Nat /\ index \in Nat
         /\ a \in Seq(Output) /\ Len(a) \in Nat /\ DOMAIN a = 1..Len(a)
         /\ b \in Seq(Filling) /\ Len(b) \in Nat /\ DOMAIN b = 1..Len(b)
         /\ ~AtEnd => i \in 1..Len(format) /\ format[i] \in Symbols /\ format[i] # Slot
<1>1. format \in Seq(Symbols)
  <2>1. <<>> \in Seq(Symbols)
    BY EmptySeq
  <2>2. \A f \in Formats : f \in Seq(Symbols)
    BY TemplateConstants
  <2>3. format \in Formats \cup {<<>>}
    BY DEF ScanTypeOK
  <2> QED
    BY <2>1, <2>2, <2>3
<1>2. Len(format) \in Nat /\ DOMAIN format = 1..Len(format)
  BY <1>1, LenProperties
<1>3. Len(args) \in Nat
  BY LenProperties DEF ScanTypeOK
<1>4. i \in Nat /\ i - 1 \in Nat /\ index \in Nat
  BY <1>2, <1>3 DEF ScanTypeOK
<1>5. ~AtEnd => i \in 1..Len(format) /\ format[i] \in Symbols /\ format[i] # Slot
  <2>1. ~AtEnd => i \in 1..Len(format)
    BY <1>2 DEF AtEnd, ScanTypeOK
  <2>2. \A q \in 1..Len(format) : format[q] \in Symbols
    BY <1>1, <1>2, ElementOfSeq
  <2> QED
    BY <2>1, <2>2 DEF Symbols
<1>6. a \in Seq(Output) /\ b \in Seq(Filling)
  BY DEF ScanTypeOK, Filling, Output
<1> QED
  BY <1>1, <1>2, <1>3, <1>4, <1>5, <1>6, LenProperties

LEMMA SlotCount ==
  ASSUME ScanTypeOK, SlotsFilled
  PROVE  /\ Count(a, Slot, Len(a)) = Len(b)
         /\ \A p \in Slots : p \in 1..Len(a) /\ SlotsUpTo(p) \in 1..Len(b)
         /\ \A p \in Nat : SlotsUpTo(p) = Count(a, Slot, p)
<1>1. Len(a) \in Nat /\ DOMAIN a = 1..Len(a)
  BY FormatFacts
<1>2. Slots = {q \in 1..Len(a) : a[q] = Slot}
  BY <1>1 DEF Slots
<1>3. Count(a, Slot, Len(a)) = Len(b)
  BY <1>2 DEF SlotsFilled, Count
<1>4. \A p \in Nat : SlotsUpTo(p) = Count(a, Slot, p)
  BY DEF SlotsUpTo, Count
<1>5. ASSUME NEW p \in Slots
      PROVE  p \in 1..Len(a) /\ SlotsUpTo(p) \in 1..Len(b)
  <2>1. p \in 1..Len(a) /\ a[p] = Slot
    BY <1>2, <1>5
  <2>2. Count(a, Slot, p) \in 1..Count(a, Slot, Len(a))
    BY <1>1, <2>1, CountBounds
  <2> QED
    BY <1>1, <1>3, <1>4, <2>1, <2>2
<1> QED
  BY <1>3, <1>4, <1>5

(* What every step but Begin keeps.                                        *)
WellFilled == SlotsFilled /\ NamesNotEmpty /\ ArgumentsInOrder /\ Leftmost

EndsInSlot == a # <<>> /\ a[Len(a)] = Slot

(* Nothing is added to the format for Sprintf.                             *)
LEMMA NothingAdded ==
  ASSUME IInv, UNCHANGED <<a, b, args, index>>, mode' = "done" => index = Len(args)
  PROVE  WellFilled'
<1>1. WellFilled
  BY DEF IInv, WellFilled
<1>2. SlotsFilled' /\ NamesNotEmpty'
  BY <1>1 DEF WellFilled, SlotsFilled, Slots, NamesNotEmpty
<1>3. ArgumentsInOrder'
  BY <1>1 DEF WellFilled, ArgumentsInOrder, Taken
<1>4. Leftmost'
  BY <1>1 DEF WellFilled, Leftmost, Slots, IsName, SlotsUpTo
<1> QED
  BY <1>2, <1>3, <1>4 DEF WellFilled

(* A symbol is added that is not a slot.                                   *)
LEMMA SymbolAdded ==
  ASSUME IInv, NEW x \in Output, x # Slot,
         a' = Append(a, x), UNCHANGED <<b, args, index>>, mode' # "done",
         EndsInSlot => IF IsName(Len(a)) THEN x # Quote ELSE x # Mark
  PROVE  WellFilled' /\ ~EndsInSlot'
<1> DEFINE n == Len(a)
<1>1. /\ n \in Nat /\ a \in Seq(Output)
      /\ DOMAIN a = 1..n /\ DOMAIN b = 1..Len(b) /\ Len(b) \in Nat
  BY FormatFacts DEF IInv
<1>2. Len(a') = n + 1 /\ DOMAIN a' = 1..(n + 1) /\ a'[n + 1] = x
      /\ \A q \in 1..n : a'[q] = a[q]
  BY <1>1, AppendProperties, LenProperties
<1>0. Extends(a', a, n, x)
  BY <1>1, <1>2 DEF Extends
<1>3. /\ \A p \in 0..n : Count(a', Slot, p) = Count(a, Slot, p)
      /\ Count(a', Slot, n + 1) = Count(a, Slot, n) + (IF x = Slot THEN 1 ELSE 0)
  BY <1>0, AppendCount
<1>4. Count(a', Slot, n + 1) = Count(a, Slot, n)
  <2>1. Count(a, Slot, n) \in Nat
    BY <1>1, CountNext
  <2> QED
    BY <1>3, <2>1
<1>5. /\ Count(a, Slot, n) = Len(b)
      /\ \A p \in Slots : p \in 1..n /\ SlotsUpTo(p) \in 1..Len(b)
      /\ \A p \in Nat : SlotsUpTo(p) = Count(a, Slot, p)
  BY SlotCount DEF IInv
<1>6. Slots' = {q \in 1..(n + 1) : a'[q] = Slot}
  BY <1>2 DEF Slots
<1>7. SlotsFilled'
  BY <1>4, <1>5, <1>6 DEF SlotsFilled, Count
<1>8. NamesNotEmpty' /\ ArgumentsInOrder'
  <2>1. NamesNotEmpty /\ ArgumentsInOrder
    BY DEF IInv
  <2> QED
    BY <2>1 DEF NamesNotEmpty, ArgumentsInOrder, Taken
<1>9. \A p \in Slots : p \in Slots' /\ (IsName(p)' <=> IsName(p))
  <2> TAKE p \in Slots
  <2>1. p \in 1..n /\ a[p] = Slot
    BY <1>5 DEF Slots
  <2>2. SlotsUpTo(p)' = SlotsUpTo(p)
    BY <1>1, <1>3, <1>5, <2>1 DEF SlotsUpTo, Count
  <2>3. p \in Slots'
    BY <1>1, <1>2, <1>6, <2>1
  <2> QED
    BY <2>2, <2>3 DEF IsName
<1>10. \A p \in Slots' : p \in Slots
  BY <1>1, <1>2, <1>6 DEF Slots
<1>11. Leftmost'
  <2> SUFFICES ASSUME NEW p \in Slots', p # Len(a')
               PROVE  IF IsName(p)' THEN a'[p + 1] # Quote /\ (a'[p + 1] = Slot => ~IsName(p + 1)')
                      ELSE a'[p + 1] # Mark /\ (a'[p + 1] = Slot => IsName(p + 1)')
    BY DEF Leftmost
  <2>1. p \in Slots /\ p \in 1..n /\ a[p] = Slot
    BY <1>5, <1>10 DEF Slots
  <2>2. CASE p = n
    <3>1. EndsInSlot
      <4>1. Len(a) \in 1..n
        BY <2>1, <2>2
      <4>2. a # <<>>
        BY <4>1, EmptySeq
      <4> QED
        BY <2>1, <2>2, <4>2 DEF EndsInSlot
    <3>2. a'[p + 1] = x
      BY <1>2, <2>2
    <3> QED
      BY <1>9, <2>1, <2>2, <3>1, <3>2
  <2>3. CASE p # n
    <3>0. n \in Nat /\ p \in 1..n
      BY <1>1, <2>1
    <3> HIDE DEF n
    <3>1. p + 1 \in 1..n /\ a'[p + 1] = a[p + 1]
      BY <1>2, <2>3, <3>0
    <3>2. IF IsName(p) THEN a[p + 1] # Quote /\ (a[p + 1] = Slot => ~IsName(p + 1))
          ELSE a[p + 1] # Mark /\ (a[p + 1] = Slot => IsName(p + 1))
      BY <2>1, <2>3 DEF IInv, Leftmost, n
    <3>3. a[p + 1] = Slot => (IsName(p + 1)' <=> IsName(p + 1))
      BY <1>1, <1>9, <3>1 DEF Slots
    <3> QED
      BY <1>9, <2>1, <3>1, <3>2, <3>3
  <2> QED
    BY <2>2, <2>3
<1>12. ~EndsInSlot'
  BY <1>2 DEF EndsInSlot
<1> QED
  BY <1>7, <1>8, <1>11, <1>12 DEF WellFilled

(* A slot is added, and what it stands for.                                *)
LEMMA SlotAdded ==
  ASSUME IInv, NEW y \in Filling,
         a' = Append(a, Slot), b' = Append(b, y), args' = args, mode' # "done",
         IF y.type = "identifier" THEN y.name # <<>> /\ index' = index
         ELSE y = Argument(args[index + 1]) /\ index' = index + 1,
         EndsInSlot => (IsName(Len(a)) <=> y.type # "identifier")
  PROVE  WellFilled' /\ (IsName(Len(a))' <=> y.type = "identifier")
<1> DEFINE n == Len(a)
           k == Len(b)
<1>1. /\ n \in Nat /\ a \in Seq(Output) /\ DOMAIN a = 1..n
      /\ k \in Nat /\ b \in Seq(Filling) /\ DOMAIN b = 1..k
  BY FormatFacts DEF IInv
<1>2. Len(a') = n + 1 /\ DOMAIN a' = 1..(n + 1) /\ a'[n + 1] = Slot
      /\ \A q \in 1..n : a'[q] = a[q]
  <2>1. a' = Append(a, Slot) /\ a \in Seq(Output)
    BY <1>1
  <2>2. Slot \in Output
    BY DEF Output
  <2> QED
    BY <2>1, <2>2, AppendProperties, LenProperties
<1>3. Len(b') = k + 1 /\ DOMAIN b' = 1..(k + 1) /\ b'[k + 1] = y
      /\ \A q \in 1..k : b'[q] = b[q]
  BY <1>1, AppendProperties, LenProperties
<1>4. /\ \A p \in 0..n : Count(a', Slot, p) = Count(a, Slot, p)
      /\ Count(a', Slot, n + 1) = Count(a, Slot, n) + 1
  <2>1. Extends(a', a, n, Slot)
    BY <1>1, <1>2 DEF Extends
  <2> QED
    BY <2>1, AppendCount
<1>5. /\ Count(a, Slot, n) = k
      /\ \A p \in Slots : p \in 1..n /\ SlotsUpTo(p) \in 1..k
      /\ \A p \in Nat : SlotsUpTo(p) = Count(a, Slot, p)
  BY SlotCount DEF IInv
<1>6. Slots' = {q \in 1..(n + 1) : a'[q] = Slot}
  BY <1>2 DEF Slots
<1> HIDE DEF n, k
<1>7. SlotsFilled'
  BY <1>3, <1>4, <1>5, <1>6 DEF SlotsFilled, Count
<1>8. NamesNotEmpty'
  <2>1. \A q \in 1..k : b[q].type = "identifier" => b[q].name # <<>>
    BY <1>1 DEF IInv, NamesNotEmpty
  <2> SUFFICES ASSUME NEW q \in 1..(k + 1), b'[q].type = "identifier"
               PROVE  b'[q].name # <<>>
    BY <1>3 DEF NamesNotEmpty
  <2>2. CASE q = k + 1
    BY <1>3, <2>2
  <2>3. CASE q # k + 1
    <3>1. q \in 1..k
      BY <1>1, <2>3
    <3> QED
      BY <1>3, <2>1, <3>1
  <2> QED
    BY <2>2, <2>3
<1>9. ArgumentsInOrder'
  <2>1. /\ \A p \in 0..k : NotNames(b', p) = NotNames(b, p)
        /\ NotNames(b', k + 1) = NotNames(b, k) + (IF y.type # "identifier" THEN 1 ELSE 0)
    <3>1. Extends(b', b, k, y)
      BY <1>1, <1>3 DEF Extends
    <3> QED
      BY <3>1, AppendOthers
  <2>2. /\ NotNames(b, k) = index
        /\ \A q \in 1..k : b[q].type # "identifier" => b[q] = Argument(args[NotNames(b, q)])
    BY <1>1 DEF IInv, ArgumentsInOrder, Taken, NotNames, k
  <2>3. index \in Nat
    BY FormatFacts DEF IInv
  <2>4. NotNames(b', k + 1) = index'
    BY <2>1, <2>2, <2>3
  <2>5. ASSUME NEW q \in 1..(k + 1), b'[q].type # "identifier"
        PROVE  b'[q] = Argument(args[NotNames(b', q)])
    <3>1. CASE q = k + 1
      BY <1>3, <2>4, <2>5, <3>1
    <3>2. CASE q # k + 1
      <4>0. k \in Nat
        BY <1>1
      <4>1. q \in 1..k /\ q \in 0..k
        BY <3>2, <4>0
      <4> QED
        BY <1>3, <2>1, <2>2, <2>5, <4>1
    <3> QED
      BY <3>1, <3>2
  <2> QED
    BY <1>3, <2>4, <2>5 DEF ArgumentsInOrder, Taken, NotNames, Argument
<1>10. \A p \in Slots : p \in Slots' /\ (IsName(p)' <=> IsName(p))
  <2> TAKE p \in Slots
  <2>1. p \in 1..n /\ a[p] = Slot
    BY <1>5 DEF Slots
  <2>2. p \in 0..n /\ p \in Nat /\ p \in 1..(n + 1)
    BY <1>1, <2>1
  <2>3. SlotsUpTo(p)' = SlotsUpTo(p) /\ SlotsUpTo(p) \in 1..k
    BY <1>4, <1>5, <2>2 DEF SlotsUpTo, Count
  <2>4. p \in Slots'
    BY <1>2, <1>6, <2>1, <2>2
  <2> QED
    BY <1>3, <2>3, <2>4 DEF IsName
<1>11. \A p \in Nat : p = n + 1 => p \in Slots' /\ (IsName(p)' <=> y.type = "identifier")
  <2> SUFFICES ASSUME NEW p \in Nat, p = n + 1
               PROVE  p \in Slots' /\ (IsName(p)' <=> y.type = "identifier")
    OBVIOUS
  <2>1. SlotsUpTo(p)' = k + 1
    BY <1>4, <1>5 DEF SlotsUpTo, Count
  <2>2. n + 1 \in 1..(n + 1)
    BY <1>1
  <2> QED
    BY <1>2, <1>3, <1>6, <2>1, <2>2 DEF IsName
<1>12. \A p \in Slots' : p = n + 1 \/ (p \in Slots /\ p \in 1..n)
  <2> SUFFICES ASSUME NEW p \in 1..(n + 1), a'[p] = Slot, p # n + 1
               PROVE  p \in Slots /\ p \in 1..n
    BY <1>6
  <2>1. p \in 1..n
    BY <1>1
  <2> QED
    BY <1>1, <1>2, <2>1 DEF Slots
<1>13. Leftmost'
  <2> SUFFICES ASSUME NEW p \in Slots', p # Len(a')
               PROVE  IF IsName(p)' THEN a'[p + 1] # Quote /\ (a'[p + 1] = Slot => ~IsName(p + 1)')
                      ELSE a'[p + 1] # Mark /\ (a'[p + 1] = Slot => IsName(p + 1)')
    BY DEF Leftmost
  <2>1. p \in Slots /\ p \in 1..n /\ a[p] = Slot
    BY <1>2, <1>12 DEF Slots
  <2>2. CASE p = n
    <3>1. EndsInSlot
      <4>1. Len(a) \in 1..n
        BY <2>1, <2>2 DEF n
      <4>2. a # <<>>
        BY <4>1, EmptySeq
      <4> QED
        BY <2>1, <2>2, <4>2 DEF EndsInSlot, n
    <3>2. a'[p + 1] = Slot /\ (IsName(p + 1)' <=> y.type = "identifier")
      <4>1. p + 1 \in Nat /\ p + 1 = n + 1
        BY <1>1, <2>2
      <4> QED
        BY <1>2, <1>11, <4>1
    <3>3. IsName(p)' <=> y.type # "identifier"
      BY <1>10, <2>1, <2>2, <3>1 DEF n
    <3>4. Slot # Quote /\ Slot # Mark
      BY DEF Slot, Quote, Mark
    <3> QED
      BY <3>2, <3>3, <3>4
  <2>3. CASE p # n
    <3>1. p + 1 \in 1..n /\ a'[p + 1] = a[p + 1]
      BY <1>1, <1>2, <2>1, <2>3
    <3>2. IF IsName(p) THEN a[p + 1] # Quote /\ (a[p + 1] = Slot => ~IsName(p + 1))
          ELSE a[p + 1] # Mark /\ (a[p + 1] = Slot => IsName(p + 1))
      BY <2>1, <2>3 DEF IInv, Leftmost, n
    <3>3. a[p + 1] = Slot => (IsName(p + 1)' <=> IsName(p + 1))
      BY <1>1, <1>10, <3>1 DEF Slots
    <3> QED
      BY <1>10, <2>1, <3>1, <3>2, <3>3
  <2> QED
    BY <2>2, <2>3
<1>14. IsName(Len(a))' <=> y.type = "identifier"
  <2>1. n + 1 \in Nat /\ Len(a') = n + 1
    BY <1>1, <1>2
  <2>2. ASSUME NEW p \in Nat, p = n + 1
        PROVE  IsName(Len(a))' <=> IsName(p)'
    BY <2>1, <2>2 DEF IsName, SlotsUpTo
  <2> QED
    BY <1>11, <2>1, <2>2
<1> QED
  BY <1>7, <1>8, <1>9, <1>13, <1>14 DEF WellFilled

-----------------------------------------------------------------------------
(* The steps of the scanner, one by one.                                   *)
LEMMA Halves ==
  ASSUME NEW n \in Nat
  PROVE  /\ n % 2 = 0 => (n + 1) % 2 = 1
         /\ n % 2 = 1 => (n + 1) % 2 = 0
         /\ (n + 2) % 2 = n % 2
  OBVIOUS

(* The back quotes up to the next symbol, and to the one behind it.        *)
LEMMA QuotesRead ==
  ASSUME ScanTypeOK
  PROVE  /\ Count(format, Quote, i - 1) \in Nat
         /\ Count(format, Quote, (i + 1) - 1) =
              Count(format, Quote, i - 1) + (IF format[i] = Quote THEN 1 ELSE 0)
         /\ Count(format, Quote, (i + 2) - 1) =
              Count(format, Quote, i - 1) + (IF format[i] = Quote THEN 1 ELSE 0)
                                          + (IF format[i + 1] = Quote THEN 1 ELSE 0)
<1>1. i \in Nat /\ i - 1 \in Nat
  BY FormatFacts
<1>2. (i - 1) + 1 = i /\ (i + 1) - 1 = i /\ (i + 2) - 1 = i + 1
  BY <1>1
<1>3. /\ Count(format, Quote, i - 1) \in Nat
      /\ Count(format, Quote, (i - 1) + 1) =
           Count(format, Quote, i - 1) + (IF format[(i - 1) + 1] = Quote THEN 1 ELSE 0)
  BY <1>1, CountNext
<1>4. Count(format, Quote, i + 1) =
        Count(format, Quote, i) + (IF format[i + 1] = Quote THEN 1 ELSE 0)
  BY <1>1, CountNext
<1> QED
  BY <1>2, <1>3, <1>4

(* The symbol at the scanner, when there is one.                           *)
LEMMA SymbolFacts ==
  ASSUME ScanTypeOK, ~AtEnd
  PROVE  /\ i \in 1..Len(format)
         /\ i + 1 \in 1..(Len(format) + 1)
         /\ Doubled => i + 2 \in 1..(Len(format) + 1) /\ format[i + 1] = format[i]
         /\ ~Doubled /\ i + 1 <= Len(format) => format[i + 1] # format[i]
         /\ format[i] \in Symbols /\ format[i] # Slot
<1>1. i \in 1..Len(format) /\ format[i] \in Symbols /\ format[i] # Slot /\ Len(format) \in Nat
  BY FormatFacts
<1> QED
  BY <1>1 DEF Doubled

LEMMA DoubledSignStep ==
  ASSUME IInv, NEW s \in {Quote, Mark}, DoubledSign(s)
  PROVE  IInv'
<1>1. ScanTypeOK
  BY DEF IInv
<1>2. /\ mode = "text" /\ ~AtEnd /\ format[i] = s /\ Doubled
      /\ a' = Append(a, s) /\ i' = i + 2
      /\ UNCHANGED <<mode, format, args, c, b, index>>
  BY DEF DoubledSign, At
<1>3. /\ i + 2 \in 1..(Len(format) + 1) /\ format[i + 1] = s
      /\ s \in Symbols /\ s # Slot /\ s \in Output
  BY <1>1, <1>2, SymbolFacts DEF Output
<1>4. a \in Seq(Output)
  BY <1>1, FormatFacts
<1>5. ScanTypeOK'
  <2>1. a' \in Seq(Symbols \cup {Slot, Percent})
    BY <1>2, <1>3, <1>4, AppendProperties DEF Output
  <2> QED
    BY <1>1, <1>2, <1>3, <2>1 DEF ScanTypeOK
<1>6. WellFilled' /\ ~EndsInSlot'
  <2>1. EndsInSlot => IF IsName(Len(a)) THEN s # Quote ELSE s # Mark
    BY <1>2 DEF IInv, AfterSlot, EndsInSlot, At
  <2>2. mode' # "done"
    BY <1>2
  <2> QED
    BY <1>2, <1>3, <2>1, <2>2, SymbolAdded
<1>7. Parity'
  <2> DEFINE n == Count(format, Quote, i - 1)
  <2>1. n \in Nat /\ n % 2 = 0
    BY <1>1, <1>2, QuotesRead DEF IInv, Parity
  <2>2. Count(format, Quote, (i + 2) - 1) = n \/ Count(format, Quote, (i + 2) - 1) = n + 2
    BY <1>1, <1>2, <1>3, <2>1, QuotesRead
  <2> HIDE DEF n
  <2>3. Count(format, Quote, (i + 2) - 1) % 2 = 0
    BY <2>1, <2>2, Halves
  <2>4. Count(format', Quote, i' - 1) % 2 = 0
    BY <1>2, <2>3
  <2> QED
    BY <1>2, <2>4 DEF Parity
<1>8. Begun' /\ AfterSlot'
  BY <1>2, <1>6 DEF Begun, AfterSlot, EndsInSlot
<1> QED
  BY <1>5, <1>6, <1>7, <1>8 DEF IInv, WellFilled

LEMMA OpenNameStep ==
  ASSUME IInv, OpenName
  PROVE  IInv'
<1>1. ScanTypeOK
  BY DEF IInv
<1>2. /\ mode = "text" /\ ~AtEnd /\ format[i] = Quote /\ ~Doubled
      /\ mode' = "name" /\ c' = <<>> /\ i' = i + 1
      /\ UNCHANGED <<format, args, a, b, index>>
  BY DEF OpenName, At
<1>3. /\ i \in 1..Len(format)
      /\ i + 1 \in 1..(Len(format) + 1)
      /\ i + 1 <= Len(format) => format[i + 1] # Quote
  BY <1>1, <1>2, SymbolFacts
<1>4. ScanTypeOK'
  <2>1. c' \in Seq(Symbols)
    BY <1>2, EmptySeq
  <2> QED
    BY <1>1, <1>2, <1>3, <2>1 DEF ScanTypeOK
<1>5. WellFilled'
  BY <1>2, NothingAdded
<1>6. Begun'
  <2>1. Len(format) \in Nat
    BY <1>1, FormatFacts
  <2> QED
    BY <1>2, <1>3, <2>1 DEF Begun, At, AtEnd
<1>7. AfterSlot'
  <2>1. EndsInSlot => ~IsName(Len(a))
    BY <1>2 DEF IInv, AfterSlot, EndsInSlot, At
  <2> QED
    BY <1>2, <2>1 DEF AfterSlot, EndsInSlot, IsName, SlotsUpTo
<1>8. Parity'
  <2> DEFINE n == Count(format, Quote, i - 1)
  <2>1. n \in Nat /\ n % 2 = 0
    BY <1>1, <1>2, QuotesRead DEF IInv, Parity
  <2>2. Count(format, Quote, (i + 1) - 1) = n + 1
    BY <1>1, <1>2, QuotesRead
  <2> HIDE DEF n
  <2>3. Count(format', Quote, i' - 1) % 2 = 1
    BY <1>2, <2>1, <2>2, Halves
  <2> QED
    BY <1>2, <2>3 DEF Parity
<1> QED
  BY <1>4, <1>5, <1>6, <1>7, <1>8 DEF IInv, WellFilled

LEMMA NameSymbolStep ==
  ASSUME IInv, NameSymbol
  PROVE  IInv'
<1>1. ScanTypeOK
  BY DEF IInv
<1>2. /\ mode = "name" /\ ~AtEnd /\ (format[i] = Quote => Doubled)
      /\ c' = Append(c, format[i])
      /\ i' = IF format[i] = Quote THEN i + 2 ELSE i + 1
      /\ UNCHANGED <<mode, format, args, a, b, index>>
  BY DEF NameSymbol, At
<1>3. /\ i \in 1..Len(format)
      /\ i + 1 \in 1..(Len(format) + 1)
      /\ Doubled => i + 2 \in 1..(Len(format) + 1) /\ format[i + 1] = format[i]
      /\ format[i] \in Symbols
  BY <1>1, <1>2, SymbolFacts
<1>4. c \in Seq(Symbols) /\ c' \in Seq(Symbols) /\ c' # <<>>
  <2>1. c \in Seq(Symbols)
    BY <1>1 DEF ScanTypeOK
  <2>2. c' \in Seq(Symbols) /\ Len(c') = Len(c) + 1 /\ Len(c) \in Nat
    BY <1>2, <1>3, <2>1, AppendProperties, LenProperties
  <2> QED
    BY <2>1, <2>2, EmptySeq
<1>5. ScanTypeOK'
  BY <1>1, <1>2, <1>3, <1>4 DEF ScanTypeOK
<1>6. WellFilled'
  BY <1>2, NothingAdded
<1>7. Begun'
  BY <1>4 DEF Begun
<1>8. AfterSlot'
  <2>1. EndsInSlot => ~IsName(Len(a))
    BY <1>2 DEF IInv, AfterSlot, EndsInSlot
  <2> QED
    BY <1>2, <2>1 DEF AfterSlot, EndsInSlot, IsName, SlotsUpTo
<1>9. Parity'
  <2> DEFINE n == Count(format, Quote, i - 1)
  <2>1. n \in Nat /\ n % 2 = 1
    BY <1>1, <1>2, QuotesRead DEF IInv, Parity
  <2>2. Count(format, Quote, i' - 1) = n \/ Count(format, Quote, i' - 1) = n + 2
    <3>1. CASE format[i] = Quote
      BY <1>1, <1>2, <1>3, <2>1, <3>1, QuotesRead
    <3>2. CASE format[i] # Quote
      BY <1>1, <1>2, <2>1, <3>2, QuotesRead
    <3> QED
      BY <3>1, <3>2
  <2> HIDE DEF n
  <2>3. Count(format', Quote, i' - 1) % 2 = 1
    BY <1>2, <2>1, <2>2, Halves
  <2> QED
    BY <1>2, <2>3 DEF Parity
<1> QED
  BY <1>5, <1>6, <1>7, <1>8, <1>9 DEF IInv, WellFilled

LEMMA CloseNameStep ==
  ASSUME IInv, CloseName
  PROVE  IInv'
<1> DEFINE y == Identifier(c)
<1>1. ScanTypeOK
  BY DEF IInv
<1>2. /\ mode = "name" /\ ~AtEnd /\ format[i] = Quote /\ ~Doubled
      /\ mode' = "text"
      /\ a' = Append(a, Slot) /\ b' = Append(b, y) /\ i' = i + 1
      /\ UNCHANGED <<format, args, c, index>>
  BY DEF CloseName, At
<1>3. /\ i \in 1..Len(format)
      /\ i + 1 \in 1..(Len(format) + 1)
      /\ i + 1 <= Len(format) => format[i + 1] # Quote
  BY <1>1, <1>2, SymbolFacts
<1>4. y \in Filling /\ y.type = "identifier" /\ y.name = c
  BY <1>1 DEF ScanTypeOK, Filling, Identifier
<1>5. y.name # <<>>
  BY <1>2, <1>4 DEF IInv, Begun, At
<1> HIDE DEF y
<1>6. ScanTypeOK'
  <2>1. a \in Seq(Output) /\ b \in Seq(Filling) /\ Slot \in Output
    BY <1>1, FormatFacts DEF Output
  <2>2. a' \in Seq(Output) /\ b' \in Seq(Filling)
    BY <1>2, <1>4, <2>1, AppendProperties
  <2> QED
    BY <1>1, <1>2, <1>3, <2>2 DEF ScanTypeOK, Output, Filling
<1>7. WellFilled' /\ (IsName(Len(a))' <=> y.type = "identifier")
  <2>1. EndsInSlot => (IsName(Len(a)) <=> y.type # "identifier")
    BY <1>2, <1>4 DEF IInv, AfterSlot, EndsInSlot
  <2>2. mode' # "done"
    BY <1>2
  <2>3. IF y.type = "identifier" THEN y.name # <<>> /\ index' = index
        ELSE y = Argument(args[index + 1]) /\ index' = index + 1
    BY <1>2, <1>4, <1>5
  <2> QED
    BY <1>2, <1>4, <2>1, <2>2, <2>3, SlotAdded
<1>8. Begun'
  BY <1>2 DEF Begun
<1>9. AfterSlot'
  <2>1. ~At(Quote)'
    BY <1>2, <1>3, FormatFacts DEF At, AtEnd
  <2> QED
    BY <1>2, <1>4, <1>7, <2>1 DEF AfterSlot
<1>10. Parity'
  <2> DEFINE n == Count(format, Quote, i - 1)
  <2>1. n \in Nat /\ n % 2 = 1
    BY <1>1, <1>2, QuotesRead DEF IInv, Parity
  <2>2. Count(format, Quote, (i + 1) - 1) = n + 1
    BY <1>1, <1>2, QuotesRead
  <2> HIDE DEF n
  <2>3. Count(format', Quote, i' - 1) % 2 = 0
    BY <1>2, <2>1, <2>2, Halves
  <2> QED
    BY <1>2, <2>3 DEF Parity
<1> QED
  BY <1>6, <1>7, <1>8, <1>9, <1>10 DEF IInv, WellFilled

LEMMA TakeArgumentStep ==
  ASSUME IInv, TakeArgument
  PROVE  IInv'
<1> DEFINE y == Argument(args[index + 1])
<1>1. ScanTypeOK
  BY DEF IInv
<1>2. /\ mode = "text" /\ ~AtEnd /\ format[i] = Mark /\ ~Doubled /\ index < Len(args)
      /\ a' = Append(a, Slot) /\ b' = Append(b, y)
      /\ index' = index + 1 /\ i' = i + 1
      /\ UNCHANGED <<mode, format, args, c>>
  BY DEF TakeArgument, At
<1>3. /\ i \in 1..Len(format)
      /\ i + 1 \in 1..(Len(format) + 1)
      /\ i + 1 <= Len(format) => format[i + 1] # Mark
  BY <1>1, <1>2, SymbolFacts
<1>4. Len(args) \in Nat /\ index \in Nat /\ index + 1 \in 1..Len(args) /\ index + 1 \in 0..Len(args)
  <2>1. Len(args) \in Nat /\ index \in Nat
    BY <1>1, FormatFacts
  <2> QED
    BY <1>2, <2>1
<1>5. y \in Filling /\ y.type # "identifier"
  <2>1. args \in Seq(Args)
    BY <1>1 DEF ScanTypeOK
  <2>2. args[index + 1] \in Args
    BY <1>4, <2>1, ElementOfSeq
  <2>3. args[index + 1] \in [expression : BOOLEAN, value : Nat]
    BY <2>2, TemplateConstants
  <2>4. <<>> \in Seq(Symbols)
    BY EmptySeq
  <2> QED
    BY <2>3, <2>4 DEF Argument, Filling
<1> HIDE DEF y
<1>6. ScanTypeOK'
  <2>1. a \in Seq(Output) /\ b \in Seq(Filling) /\ Slot \in Output
    BY <1>1, FormatFacts DEF Output
  <2>2. a' \in Seq(Output) /\ b' \in Seq(Filling)
    BY <1>2, <1>5, <2>1, AppendProperties
  <2> QED
    BY <1>1, <1>2, <1>3, <1>4, <2>2 DEF ScanTypeOK, Output, Filling
<1>7. WellFilled' /\ (IsName(Len(a))' <=> y.type = "identifier")
  <2>1. EndsInSlot => (IsName(Len(a)) <=> y.type # "identifier")
    BY <1>2, <1>5 DEF IInv, AfterSlot, EndsInSlot, At
  <2>2. mode' # "done"
    BY <1>2
  <2>3. IF y.type = "identifier" THEN y.name # <<>> /\ index' = index
        ELSE y = Argument(args[index + 1]) /\ index' = index + 1
    BY <1>2, <1>5 DEF y
  <2> QED
    BY <1>2, <1>5, <2>1, <2>2, <2>3, SlotAdded
<1>8. Begun'
  BY <1>2 DEF Begun
<1>9. AfterSlot'
  <2>1. ~At(Mark)'
    BY <1>2, <1>3, FormatFacts DEF At, AtEnd
  <2> QED
    BY <1>2, <1>5, <1>7, <2>1 DEF AfterSlot
<1>10. Parity'
  <2>1. Count(format, Quote, i - 1) \in Nat /\ Count(format, Quote, i - 1) % 2 = 0
    BY <1>1, <1>2, QuotesRead DEF IInv, Parity
  <2>2. format[i] # Quote
    BY <1>2 DEF Mark, Quote
  <2>3. Count(format, Quote, (i + 1) - 1) = Count(format, Quote, i - 1)
    BY <1>1, <2>1, <2>2, QuotesRead
  <2>4. Count(format', Quote, i' - 1) % 2 = 0
    BY <1>2, <2>1, <2>3
  <2> QED
    BY <1>2, <2>4 DEF Parity
<1> QED
  BY <1>6, <1>7, <1>8, <1>9, <1>10 DEF IInv, WellFilled

LEMMA LiteralStep ==
  ASSUME IInv, Literal
  PROVE  IInv'
<1> DEFINE x == IF At("%") THEN Percent ELSE format[i]
<1>1. ScanTypeOK
  BY DEF IInv
<1>2. /\ mode = "text" /\ ~AtEnd /\ format[i] # Quote /\ format[i] # Mark
      /\ a' = Append(a, x) /\ i' = i + 1
      /\ UNCHANGED <<mode, format, args, c, b, index>>
  BY DEF Literal, At
<1>3. i + 1 \in 1..(Len(format) + 1) /\ format[i] \in Symbols /\ format[i] # Slot
  BY <1>1, <1>2, SymbolFacts
<1>4. x \in Output /\ x # Slot /\ x # Quote /\ x # Mark
  <2>1. Percent # Slot /\ Percent # Quote /\ Percent # Mark
    BY DEF Percent, Slot, Quote, Mark
  <2> QED
    BY <1>2, <1>3, <2>1 DEF Output
<1> HIDE DEF x
<1>5. ScanTypeOK'
  <2>1. a \in Seq(Output)
    BY <1>1, FormatFacts
  <2>2. a' \in Seq(Output)
    BY <1>2, <1>4, <2>1, AppendProperties
  <2> QED
    BY <1>1, <1>2, <1>3, <2>2 DEF ScanTypeOK, Output
<1>6. WellFilled' /\ ~EndsInSlot'
  <2>1. EndsInSlot => IF IsName(Len(a)) THEN x # Quote ELSE x # Mark
    BY <1>4
  <2>2. mode' # "done"
    BY <1>2
  <2> QED
    BY <1>2, <1>4, <2>1, <2>2, SymbolAdded
<1>7. Parity'
  <2>1. Count(format, Quote, i - 1) \in Nat /\ Count(format, Quote, i - 1) % 2 = 0
    BY <1>1, <1>2, QuotesRead DEF IInv, Parity
  <2>2. Count(format, Quote, (i + 1) - 1) = Count(format, Quote, i - 1)
    BY <1>1, <1>2, <2>1, QuotesRead
  <2>3. Count(format', Quote, i' - 1) % 2 = 0
    BY <1>2, <2>1, <2>2
  <2> QED
    BY <1>2, <2>3 DEF Parity
<1>8. Begun' /\ AfterSlot'
  BY <1>2, <1>6 DEF Begun, AfterSlot, EndsInSlot
<1> QED
  BY <1>5, <1>6, <1>7, <1>8 DEF IInv, WellFilled

(* The scanner stops, or its caller leaves.                                *)
LEMMA EndStep ==
  ASSUME IInv, Refuse \/ Accept \/ Leave
  PROVE  IInv'
<1>1. ScanTypeOK
  BY DEF IInv
<1>2. UNCHANGED <<format, args, i, a, c, b, index>> /\ mode' \in {"idle", "done", "failed"}
  BY DEF Refuse, Accept, Leave
<1>3. ScanTypeOK'
  BY <1>1, <1>2 DEF ScanTypeOK
<1>4. WellFilled'
  <2>1. mode' = "done" => index = Len(args)
    BY DEF Refuse, Accept, Leave
  <2> QED
    BY <1>2, <2>1, NothingAdded
<1>5. Begun' /\ AfterSlot'
  BY <1>2 DEF Begun, AfterSlot
<1>6. Parity'
  <2> SUFFICES ASSUME mode' = "failed", NoMarks
               PROVE  i = Len(format) + 1 /\ Count(format, Quote, i - 1) % 2 = 1
    BY <1>2 DEF Parity, NoMarks
  <2>1. /\ i \in 1..(Len(format) + 1) /\ Len(format) \in Nat /\ index \in Nat
        /\ DOMAIN format = 1..Len(format)
    BY <1>1, FormatFacts DEF ScanTypeOK
  <2>2. Len(args) = 0
    BY EmptySeq DEF NoMarks
  <2>3. ~At(Mark)
    BY <2>1 DEF At, AtEnd, NoMarks
  <2>4. mode = "name" /\ AtEnd
    BY <2>1, <2>2, <2>3 DEF Refuse, Accept, Leave
  <2> QED
    BY <2>1, <2>4 DEF AtEnd, IInv, Parity
<1> QED
  BY <1>3, <1>4, <1>5, <1>6 DEF IInv, WellFilled

(* Before the first symbol.                                                *)
AtStart ==
  /\ a = <<>> /\ b = <<>> /\ c = <<>> /\ i = 1 /\ index = 0
  /\ format \in Formats \cup {<<>>} /\ args \in Seq(Args)
  /\ mode \in {"idle", "text", "failed"}
  /\ mode = "failed" => format = <<>>

LEMMA Fresh == AtStart => IInv
<1> SUFFICES ASSUME AtStart PROVE IInv
  OBVIOUS
<1>0. /\ a = <<>> /\ b = <<>> /\ c = <<>> /\ i = 1 /\ index = 0
      /\ format \in Formats \cup {<<>>} /\ args \in Seq(Args)
      /\ mode \in {"idle", "text", "failed"}
      /\ mode = "failed" => format = <<>>
  BY DEF AtStart
<1>1. Len(a) = 0 /\ DOMAIN a = {} /\ Len(b) = 0 /\ DOMAIN b = {}
  <2>1. \A s \in Seq({}) : DOMAIN s = 1..Len(s)
    BY LenProperties
  <2> QED
    BY <1>0, <2>1, EmptySeq
<1>2. ScanTypeOK
  <2>1. Len(format) \in Nat
    <3>1. format \in Seq(Symbols)
      BY <1>0, TemplateConstants, EmptySeq
    <3> QED
      BY <3>1, LenProperties
  <2>2. Len(args) \in Nat
    BY <1>0, LenProperties
  <2>3. /\ <<>> \in Seq(Symbols \cup {Slot, Percent})
        /\ <<>> \in Seq(Symbols)
        /\ <<>> \in Seq(Filling)
    BY EmptySeq
  <2> QED
    BY <1>0, <2>1, <2>2, <2>3 DEF ScanTypeOK, Filling
<1>3. Count(format, Quote, 0) = 0 /\ Cardinality({}) = 0
  BY CountNext, FS_EmptySet
<1>4. Slots = {} /\ SlotsFilled
  BY <1>1, <1>3 DEF Slots, SlotsFilled
<1>5. NamesNotEmpty /\ Begun
  BY <1>0, <1>1 DEF NamesNotEmpty, Begun
<1>6. ArgumentsInOrder
  <2>1. {j \in 1..0 : b[j].type # "identifier"} = {}
    OBVIOUS
  <2> QED
    BY <1>0, <1>1, <1>3, <2>1 DEF ArgumentsInOrder, Taken
<1>7. Leftmost /\ AfterSlot
  BY <1>0, <1>4 DEF Leftmost, AfterSlot
<1>8. Parity
  <2>1. i - 1 = 0 /\ 0 % 2 = 0
    BY <1>0
  <2> QED
    BY <1>0, <1>3, <2>1 DEF Parity
<1> QED
  BY <1>2, <1>4, <1>5, <1>6, <1>7, <1>8 DEF IInv

LEMMA BeginStep ==
  ASSUME NEW f \in Formats \cup {<<>>}, NEW v \in Seq(Args), Begin(f, v)
  PROVE  IInv'
<1>1. /\ a' = <<>> /\ b' = <<>> /\ c' = <<>> /\ i' = 1 /\ index' = 0
      /\ format' \in Formats \cup {<<>>} /\ args' \in Seq(Args)
      /\ mode' \in {"idle", "text", "failed"} /\ (mode' = "failed" => format' = <<>>)
  BY DEF Begin
<1>2. AtStart' => IInv'
  BY Fresh, PTL
<1> QED
  BY <1>1, <1>2 DEF AtStart

LEMMA StepInvariant == IInv /\ [ScanNext]_scan => IInv'
<1> SUFFICES ASSUME IInv, [ScanNext]_scan PROVE IInv'
  OBVIOUS
<1>1. ASSUME NEW f \in Formats \cup {<<>>}, NEW v \in Seq(Args), Begin(f, v) PROVE IInv'
  BY <1>1, BeginStep
<1>2. ASSUME NEW s \in {Quote, Mark}, DoubledSign(s) PROVE IInv'
  BY <1>2, DoubledSignStep
<1>3. CASE OpenName
  BY <1>3, OpenNameStep
<1>4. CASE NameSymbol
  BY <1>4, NameSymbolStep
<1>5. CASE CloseName
  BY <1>5, CloseNameStep
<1>6. CASE TakeArgument
  BY <1>6, TakeArgumentStep
<1>7. CASE Literal
  BY <1>7, LiteralStep
<1>8. CASE Refuse \/ Accept \/ Leave
  BY <1>8, EndStep
<1>9. CASE UNCHANGED scan
  <2>1. UNCHANGED <<mode, format, args, i, a, c, b, index>>
    BY <1>9 DEF scan
  <2>2. WellFilled'
    <3>1. mode' = "done" => index = Len(args)
      BY <2>1 DEF IInv, ArgumentsInOrder
    <3> QED
      BY <2>1, <3>1, NothingAdded
  <2>3. ScanTypeOK'
    BY <2>1 DEF IInv, ScanTypeOK
  <2>4. Begun' /\ AfterSlot'
    BY <2>1 DEF IInv, Begun, AfterSlot, At, AtEnd, IsName, SlotsUpTo
  <2>5. Parity'
    BY <2>1 DEF IInv, Parity, NoMarks
  <2> QED
    BY <2>2, <2>3, <2>4, <2>5 DEF IInv, WellFilled
<1> QED
  BY <1>1, <1>2, <1>3, <1>4, <1>5, <1>6, <1>7, <1>8, <1>9 DEF ScanNext, Scan

LEMMA Invariant == ScanSpec => []IInv
<1>1. ScanInit => IInv
  <2> SUFFICES ASSUME ScanInit PROVE IInv
    OBVIOUS
  <2>1. <<>> \in Seq(Args)
    BY EmptySeq
  <2> QED
    BY <2>1, Fresh DEF ScanInit, AtStart
<1>2. IInv /\ [ScanNext]_scan => IInv'
  BY StepInvariant
<1> QED
  BY <1>1, <1>2, PTL DEF ScanSpec

-----------------------------------------------------------------------------
(* What has been read, written out again, is what was read.                *)
Text      == Symbols \cup {Quote, Mark, "%"}
Quoted(s) == [k \in DOMAIN s |-> QuoteRead(s[k])]
Pieces(s, t) == [p \in DOMAIN s |-> IF s[p] = Slot THEN FillingRead(t[Count(s, Slot, p)]) ELSE SignRead(s[p])]

Reading ==
  /\ mode = "text" => FlattenSeq(Pieces(a, b)) = SubSeq(format, 1, i - 1)
  /\ mode = "name" =>
       FlattenSeq(Pieces(a, b)) \o (<<Quote>> \o FlattenSeq(Quoted(c))) = SubSeq(format, 1, i - 1)
  /\ mode = "done" => FlattenSeq(Pieces(a, b)) = format

LEMMA RewrittenIs == FlattenSeq(Pieces(a, b)) = Rewritten
  BY DEF Rewritten, Pieces, Count, SlotsUpTo

LEMMA QuotedType ==
  ASSUME NEW s \in Seq(Text)
  PROVE  /\ Quoted(s) \in Seq(Seq(Text)) /\ FlattenSeq(Quoted(s)) \in Seq(Text)
         /\ Len(Quoted(s)) = Len(s)
<1>1. Len(s) \in Nat /\ DOMAIN s = 1..Len(s)
  BY LenProperties
<1>2. \A k \in 1..Len(s) : QuoteRead(s[k]) \in Seq(Text)
  <2> TAKE k \in 1..Len(s)
  <2>1. s[k] \in Text /\ Quote \in Text
    BY ElementOfSeq DEF Text
  <2> QED
    BY <2>1 DEF QuoteRead
<1>3. Quoted(s) \in [1..Len(s) -> Seq(Text)]
  BY <1>1, <1>2 DEF Quoted
<1>4. Quoted(s) \in Seq(Seq(Text))
  BY <1>1, <1>3, SeqDef
<1> QED
  BY <1>1, <1>3, <1>4, FlattenType, LenProperties

LEMMA QuotedNext ==
  ASSUME NEW s \in Seq(Text), NEW x \in Text
  PROVE  FlattenSeq(Quoted(Append(s, x))) = FlattenSeq(Quoted(s)) \o QuoteRead(x)
<1>1. /\ Len(s) \in Nat /\ DOMAIN s = 1..Len(s)
      /\ Append(s, x) \in Seq(Text) /\ DOMAIN Append(s, x) = 1..(Len(s) + 1)
      /\ Len(Append(s, x)) = Len(s) + 1
      /\ \A k \in 1..Len(s) : Append(s, x)[k] = s[k]
      /\ Append(s, x)[Len(s) + 1] = x
  BY AppendProperties, LenProperties
<1>2. Quoted(s) \in Seq(Seq(Text)) /\ Len(Quoted(s)) = Len(s)
  BY QuotedType
<1>3. QuoteRead(x) \in Seq(Text)
  <2>1. Quote \in Text
    BY DEF Text
  <2> QED
    BY <2>1 DEF QuoteRead
<1>4. Quoted(Append(s, x)) = Append(Quoted(s), QuoteRead(x))
  <2>1. Quoted(Append(s, x)) \in Seq(Seq(Text)) /\ Len(Quoted(Append(s, x))) = Len(s) + 1
    BY <1>1, QuotedType, LenProperties
  <2>2. /\ Append(Quoted(s), QuoteRead(x)) \in Seq(Seq(Text))
        /\ Len(Append(Quoted(s), QuoteRead(x))) = Len(s) + 1
        /\ \A k \in 1..Len(s) : Append(Quoted(s), QuoteRead(x))[k] = Quoted(s)[k]
        /\ Append(Quoted(s), QuoteRead(x))[Len(s) + 1] = QuoteRead(x)
    BY <1>2, <1>3, AppendProperties
  <2>3. \A k \in 1..(Len(s) + 1) : Quoted(Append(s, x))[k] = Append(Quoted(s), QuoteRead(x))[k]
    BY <1>1, <2>2 DEF Quoted
  <2> QED
    BY <2>1, <2>2, <2>3, SeqEqual
<1> QED
  BY <1>2, <1>3, <1>4, FlattenAppend

LEMMA PiecesType ==
  ASSUME ScanTypeOK, SlotsFilled
  PROVE  /\ Pieces(a, b) \in Seq(Seq(Text)) /\ Len(Pieces(a, b)) = Len(a)
         /\ FlattenSeq(Pieces(a, b)) \in Seq(Text)
<1>1. /\ Len(a) \in Nat /\ DOMAIN a = 1..Len(a) /\ a \in Seq(Output)
      /\ b \in Seq(Filling)
  BY FormatFacts
<1>2. Quote \in Text /\ Mark \in Text /\ "%" \in Text
  BY DEF Text
<1>3. ASSUME NEW y \in Filling PROVE FillingRead(y) \in Seq(Text)
  <2>1. y.name \in Seq(Text)
    <3>1. y.name \in Seq(Symbols)
      BY DEF Filling
    <3> QED
      BY <3>1, SeqMonotonic DEF Text
  <2>2. FlattenSeq([k \in DOMAIN y.name |-> QuoteRead(y.name[k])]) \in Seq(Text)
    BY <2>1, QuotedType DEF Quoted
  <2>3. <<Quote>> \in Seq(Text) /\ <<Mark>> \in Seq(Text)
    BY <1>2
  <2>4. BackQuote(y.name) \in Seq(Text)
    BY <2>2, <2>3, ConcatProperties DEF BackQuote
  <2> QED
    BY <2>3, <2>4 DEF FillingRead
<1>4. ASSUME NEW x \in Output, x # Slot PROVE SignRead(x) \in Seq(Text)
  <2>1. x \in Text \cup {Percent}
    BY <1>4 DEF Output, Text
  <2>2. CASE x \in {Quote, Mark}
    BY <1>2, <2>2 DEF SignRead
  <2>3. CASE x = Percent
    <3>1. x \notin {Quote, Mark}
      BY <2>3 DEF Percent, Quote, Mark
    <3>2. SignRead(x) = <<"%">>
      BY <2>3, <3>1 DEF SignRead
    <3> QED
      BY <1>2, <3>2
  <2>4. CASE x \notin {Quote, Mark} /\ x # Percent
    <3>1. SignRead(x) = <<x>> /\ x \in Text
      BY <2>1, <2>4 DEF SignRead
    <3> QED
      BY <3>1
  <2> QED
    BY <2>2, <2>3, <2>4
<1>5. ASSUME NEW p \in 1..Len(a)
      PROVE  (IF a[p] = Slot THEN FillingRead(b[Count(a, Slot, p)]) ELSE SignRead(a[p])) \in Seq(Text)
  <2>1. a[p] \in Output
    BY <1>1, ElementOfSeq
  <2>2. ASSUME a[p] = Slot PROVE b[Count(a, Slot, p)] \in Filling
    <3>1. p \in Slots /\ p \in Nat
      BY <1>1, <2>2 DEF Slots
    <3>2. Count(a, Slot, p) \in 1..Len(b)
      BY <3>1, SlotCount
    <3> QED
      BY <1>1, <3>2, ElementOfSeq
  <2> QED
    BY <1>3, <1>4, <2>1, <2>2
<1>6. Pieces(a, b) \in [1..Len(a) -> Seq(Text)]
  BY <1>1, <1>5 DEF Pieces
<1>7. Pieces(a, b) \in Seq(Seq(Text))
  BY <1>1, <1>6, SeqDef
<1> QED
  BY <1>1, <1>6, <1>7, FlattenType, LenProperties

LEMMA PieceAdded ==
  ASSUME IInv, IInv', NEW x \in Output, NEW y, a' = Append(a, x),
         IF x = Slot THEN y \in Filling /\ b' = Append(b, y) ELSE b' = b
  PROVE  LET piece == IF x = Slot THEN FillingRead(y) ELSE SignRead(x)
         IN  FlattenSeq(Pieces(a', b')) = FlattenSeq(Pieces(a, b)) \o piece
<1> DEFINE piece == IF x = Slot THEN FillingRead(y) ELSE SignRead(x)
           n == Len(a)
<1>0. ScanTypeOK /\ SlotsFilled
  BY DEF IInv
<1>1. /\ n \in Nat /\ DOMAIN a = 1..n /\ a \in Seq(Output)
      /\ Len(b) \in Nat /\ b \in Seq(Filling)
  BY <1>0, FormatFacts
<1>2. /\ DOMAIN a' = 1..(n + 1) /\ Len(a') = n + 1
      /\ \A q \in 1..n : a'[q] = a[q]
      /\ a'[n + 1] = x
  BY <1>1, AppendProperties, LenProperties
<1>3. Pieces(a, b) \in Seq(Seq(Text)) /\ Len(Pieces(a, b)) = n
  BY <1>0, PiecesType
<1>4. Pieces(a', b') \in Seq(Seq(Text)) /\ Len(Pieces(a', b')) = n + 1
  <2>1. (ScanTypeOK /\ SlotsFilled => Pieces(a, b) \in Seq(Seq(Text)) /\ Len(Pieces(a, b)) = Len(a))'
    BY PiecesType, PTL
  <2> QED
    BY <1>2, <2>1 DEF IInv
<1>5. /\ \A p \in 0..n : Count(a', Slot, p) = Count(a, Slot, p)
      /\ Count(a', Slot, n + 1) = Count(a, Slot, n) + (IF x = Slot THEN 1 ELSE 0)
  <2>1. Extends(a', a, n, x)
    BY <1>1, <1>2 DEF Extends
  <2> QED
    BY <2>1, AppendCount
<1>6. ASSUME NEW p \in 1..n PROVE Pieces(a', b')[p] = Pieces(a, b)[p]
  <2>1. /\ a'[p] = a[p] /\ Count(a', Slot, p) = Count(a, Slot, p)
        /\ p \in DOMAIN a /\ p \in DOMAIN a'
    BY <1>1, <1>2, <1>5
  <2>2. ASSUME a[p] = Slot PROVE b'[Count(a, Slot, p)] = b[Count(a, Slot, p)]
    <3>1. p \in Slots /\ p \in Nat
      BY <1>1, <2>2 DEF Slots
    <3>2. Count(a, Slot, p) \in 1..Len(b)
      BY <1>0, <3>1, SlotCount
    <3> QED
      BY <1>1, <3>2, AppendProperties
  <2> QED
    BY <2>1, <2>2 DEF Pieces
<1>7. Pieces(a', b')[n + 1] = piece
  <2>1. n + 1 \in DOMAIN a'
    BY <1>1, <1>2
  <2>2. Pieces(a', b')[n + 1] = IF x = Slot THEN FillingRead(b'[Count(a', Slot, n + 1)]) ELSE SignRead(x)
    BY <1>2, <2>1 DEF Pieces
  <2>3. ASSUME x = Slot PROVE b'[Count(a', Slot, n + 1)] = y
    <3>1. Count(a, Slot, n) = Len(b)
      BY <1>0, SlotCount
    <3>2. Count(a', Slot, n + 1) = Len(b) + 1
      BY <1>5, <2>3, <3>1
    <3> QED
      BY <1>1, <2>3, <3>2, AppendProperties
  <2> QED
    BY <2>2, <2>3
<1>8. piece \in Seq(Text)
  <2>1. n + 1 \in 1..Len(Pieces(a', b'))
    BY <1>1, <1>4
  <2> QED
    BY <1>4, <1>7, <2>1, ElementOfSeq
<1> HIDE DEF piece
<1>9. Pieces(a', b') = Append(Pieces(a, b), piece)
  <2>1. /\ Append(Pieces(a, b), piece) \in Seq(Seq(Text))
        /\ Len(Append(Pieces(a, b), piece)) = n + 1
        /\ \A k \in 1..n : Append(Pieces(a, b), piece)[k] = Pieces(a, b)[k]
        /\ Append(Pieces(a, b), piece)[n + 1] = piece
    BY <1>3, <1>8, AppendProperties
  <2>2. \A k \in 1..(n + 1) : Pieces(a', b')[k] = Append(Pieces(a, b), piece)[k]
    BY <1>1, <1>6, <1>7, <2>1
  <2> QED
    BY <1>4, <2>1, <2>2, SeqEqual
<1>10. FlattenSeq(Pieces(a', b')) = FlattenSeq(Pieces(a, b)) \o piece
  BY <1>3, <1>8, <1>9, FlattenAppend
<1> QED
  BY <1>10 DEF piece

LEMMA ConcatRegroups ==
  ASSUME NEW T
  PROVE  \A x, y, z \in Seq(T) : (x \o y) \o z = x \o (y \o z)
  BY ConcatAssociative

LEMMA ConcatInner ==
  ASSUME NEW T, NEW s \in Seq(T), NEW t \in Seq(T), NEW u \in Seq(T), NEW v \in Seq(T)
  PROVE  s \o (t \o (u \o v)) = (s \o (t \o u)) \o v
<1>1. t \o u \in Seq(T)
  BY ConcatProperties
<1>2. (t \o u) \o v = t \o (u \o v)
  BY ConcatRegroups, SMTT(60)
<1>3. (s \o (t \o u)) \o v = s \o ((t \o u) \o v)
  BY <1>1, ConcatRegroups, SMTT(60)
<1> QED
  BY <1>2, <1>3

LEMMA Pair ==
  ASSUME NEW T, NEW x \in T
  PROVE  <<x>> \o <<x>> = <<x, x>>
<1>1. <<x>> \in Seq(T) /\ <<x, x>> \in Seq(T) /\ Len(<<x>>) = 1 /\ Len(<<x, x>>) = 2
  OBVIOUS
<1>2. /\ <<x>> \o <<x>> \in Seq(T)
      /\ Len(<<x>> \o <<x>>) = 2
  BY <1>1, ConcatProperties
<1>3. (<<x>> \o <<x>>)[1] = <<x, x>>[1] /\ (<<x>> \o <<x>>)[2] = <<x, x>>[2]
  BY <1>1, ConcatProperties
<1>4. ASSUME NEW k \in 1..2 PROVE (<<x>> \o <<x>>)[k] = <<x, x>>[k]
  BY <1>3
<1> QED
  BY <1>1, <1>2, <1>4, SeqEqual

LEMMA ConcatTwice ==
  ASSUME NEW T, NEW s \in Seq(T), NEW x \in T
  PROVE  (s \o <<x>>) \o <<x>> = s \o <<x, x>>
<1>1. <<x>> \in Seq(T) /\ <<x, x>> \in Seq(T)
  OBVIOUS
<1>2. <<x>> \o <<x>> = <<x, x>>
  BY Pair
<1>3. (s \o <<x>>) \o <<x>> = s \o (<<x>> \o <<x>>)
  BY <1>1, ConcatAssociative
<1> QED
  BY <1>2, <1>3

LEMMA FormatRead ==
  ASSUME ScanTypeOK, ~AtEnd
  PROVE  /\ SubSeq(format, 1, i - 1) \in Seq(Text)
         /\ SubSeq(format, 1, (i + 1) - 1) = SubSeq(format, 1, i - 1) \o <<format[i]>>
         /\ Doubled => SubSeq(format, 1, (i + 2) - 1) = SubSeq(format, 1, i - 1) \o <<format[i], format[i]>>
<1>1. /\ i \in 1..Len(format) /\ Len(format) \in Nat /\ format \in Seq(Symbols)
      /\ format[i] \in Symbols
      /\ Doubled => i + 1 \in 1..Len(format) /\ format[i + 1] = format[i]
  BY FormatFacts, SymbolFacts
<1>2. format \in Seq(Text) /\ format[i] \in Text
  BY <1>1, SeqMonotonic DEF Text
<1>3. 1 \in 1..Len(format) /\ i \in 1..Len(format) /\ (i + 1) - 1 = i /\ (i + 2) - 1 = i + 1
  BY <1>1
<1>4. SubSeq(format, 1, i) = SubSeq(format, 1, i - 1) \o <<format[i]>>
  BY <1>2, <1>3, SubSeqRecursiveSecond
<1>5. ASSUME Doubled PROVE SubSeq(format, 1, i + 1) = SubSeq(format, 1, i) \o <<format[i]>>
  BY <1>1, <1>2, <1>3, <1>5, SubSeqRecursiveSecond
<1>6. SubSeq(format, 1, i - 1) \in Seq(Text)
  <2>1. \A k \in 1..(i - 1) : format[k] \in Text
    BY <1>1, <1>2, ElementOfSeq
  <2> QED
    BY <1>1, <2>1, SubSeqProperties
<1>7. (SubSeq(format, 1, i - 1) \o <<format[i]>>) \o <<format[i]>> =
        SubSeq(format, 1, i - 1) \o <<format[i], format[i]>>
  BY <1>2, <1>6, ConcatTwice
<1> QED
  BY <1>3, <1>4, <1>5, <1>6, <1>7

LEMMA NothingRead == FlattenSeq(Pieces(<<>>, <<>>)) = <<>> /\ FlattenSeq(Quoted(<<>>)) = <<>>
<1>1. DOMAIN <<>> = {}
  OBVIOUS
<1>2. Pieces(<<>>, <<>>) = <<>> /\ Quoted(<<>>) = <<>>
  BY <1>1 DEF Pieces, Quoted
<1> QED
  BY <1>2, FlattenNone

LEMMA ReadingStep ==
  ASSUME IInv, IInv', Reading, [ScanNext]_scan
  PROVE  Reading'
<1> DEFINE read == FlattenSeq(Pieces(a, b))
           name == FlattenSeq(Quoted(c))
<1>0. ScanTypeOK /\ SlotsFilled
  BY DEF IInv
<1>1. /\ c \in Seq(Symbols) /\ format \in Seq(Symbols) /\ Len(format) \in Nat
      /\ i \in 1..(Len(format) + 1)
  BY <1>0, FormatFacts DEF ScanTypeOK
<1>2. c \in Seq(Text) /\ format \in Seq(Text) /\ Quote \in Text /\ <<Quote>> \in Seq(Text)
  <2>1. c \in Seq(Text) /\ format \in Seq(Text)
    BY <1>1, SeqMonotonic DEF Text
  <2>2. Quote \in Text
    BY DEF Text
  <2> QED
    BY <2>1, <2>2
<1>3. read \in Seq(Text) /\ name \in Seq(Text) /\ <<Quote>> \o name \in Seq(Text)
  BY <1>0, <1>2, PiecesType, QuotedType, ConcatProperties
<1>r. /\ mode = "text" => read = SubSeq(format, 1, i - 1)
      /\ mode = "name" => read \o (<<Quote>> \o name) = SubSeq(format, 1, i - 1)
      /\ mode = "done" => read = format
  BY DEF Reading
<1>s. ~AtEnd =>
      /\ SubSeq(format, 1, (i + 1) - 1) = SubSeq(format, 1, i - 1) \o <<format[i]>>
      /\ Doubled => SubSeq(format, 1, (i + 2) - 1) = SubSeq(format, 1, i - 1) \o <<format[i], format[i]>>
      /\ format[i] \in Symbols /\ format[i] \in Output
  BY <1>0, FormatRead, SymbolFacts DEF Output
<1>v. Slot \in Output /\ Percent \in Output /\ Quote # Slot /\ Mark # Slot /\ Percent # Slot
      /\ Percent # Quote /\ Percent # Mark
  BY DEF Output, Slot, Percent, Quote, Mark
<1> HIDE DEF read, name
<1>4. ASSUME NEW s \in {Quote, Mark}, DoubledSign(s) PROVE Reading'
  <2>1. /\ mode = "text" /\ ~AtEnd /\ format[i] = s /\ Doubled /\ mode' = "text" /\ format' = format
        /\ a' = Append(a, s) /\ i' = i + 2 /\ b' = b
    BY <1>4 DEF DoubledSign, At
  <2>2. s \in Output /\ s # Slot
    BY <1>s, <1>v, <2>1
  <2>3. FlattenSeq(Pieces(a', b')) = read \o SignRead(s)
    BY <2>1, <2>2, PieceAdded DEF read
  <2>4. SignRead(s) = <<s, s>>
    <3>1. s \in {Quote, Mark}
      BY <1>4
    <3>2. SignRead(s) = CASE s \in {Quote, Mark} -> <<s, s>> [] s = Percent -> <<"%">> [] OTHER -> <<s>>
      BY DEF SignRead
    <3>3. s # Percent
      BY <1>v, <3>1
    <3> QED
      BY <3>1, <3>2, <3>3
  <2> QED
    BY <1>r, <1>s, <2>1, <2>3, <2>4 DEF Reading
<1>5. CASE OpenName
  <2>1. /\ mode = "text" /\ ~AtEnd /\ format[i] = Quote /\ mode' = "name" /\ c' = <<>>
        /\ i' = i + 1 /\ format' = format /\ a' = a /\ b' = b
    BY <1>5 DEF OpenName, At
  <2>2. FlattenSeq(Quoted(c')) = <<>> /\ <<Quote>> \o <<>> = <<Quote>>
    BY <1>2, <2>1, NothingRead, ConcatEmptySeq
  <2> QED
    BY <1>r, <1>s, <2>1, <2>2 DEF Reading, read
<1>6. CASE NameSymbol
  <2> DEFINE x == format[i]
  <2>1. /\ mode = "name" /\ ~AtEnd /\ (x = Quote => Doubled)
        /\ mode' = "name" /\ c' = Append(c, x) /\ i' = (IF x = Quote THEN i + 2 ELSE i + 1)
        /\ format' = format /\ a' = a /\ b' = b
    BY <1>6 DEF NameSymbol, At
  <2>2. x \in Text
    BY <1>s, <2>1 DEF Text
  <2>3. FlattenSeq(Quoted(c')) = name \o QuoteRead(x)
    <3> HIDE DEF x
    <3> QED
      BY <1>1, <1>2, <2>1, <2>2, QuotedNext DEF name
  <2>4. QuoteRead(x) \in Seq(Text)
    BY <1>2, <2>2 DEF QuoteRead
  <2>5. read \o (<<Quote>> \o (name \o QuoteRead(x))) = (read \o (<<Quote>> \o name)) \o QuoteRead(x)
    <3> HIDE DEF x
    <3>1. read \in Seq(Text) /\ <<Quote>> \in Seq(Text) /\ name \in Seq(Text) /\ QuoteRead(x) \in Seq(Text)
      BY <1>2, <1>3, <2>4
    <3> QED
      BY <3>1, ConcatInner
  <2>6. SubSeq(format, 1, i' - 1) = SubSeq(format, 1, i - 1) \o QuoteRead(x)
    BY <1>s, <2>1 DEF QuoteRead
  <2> QED
    BY <1>r, <2>1, <2>3, <2>5, <2>6 DEF Reading, read
<1>7. CASE CloseName
  <2> DEFINE y == Identifier(c)
  <2>1. /\ mode = "name" /\ ~AtEnd /\ format[i] = Quote /\ mode' = "text"
        /\ a' = Append(a, Slot) /\ b' = Append(b, y) /\ i' = i + 1 /\ format' = format
    BY <1>7 DEF CloseName, At
  <2>2. y \in Filling /\ FillingRead(y) = BackQuote(c)
    BY <1>1 DEF Filling, Identifier, FillingRead
  <2>3. BackQuote(c) = (<<Quote>> \o name) \o <<Quote>>
    BY DEF BackQuote, name, Quoted
  <2> HIDE DEF y
  <2>4. FlattenSeq(Pieces(a', b')) = read \o ((<<Quote>> \o name) \o <<Quote>>)
    BY <1>v, <2>1, <2>2, <2>3, PieceAdded DEF read
  <2>5. read \o ((<<Quote>> \o name) \o <<Quote>>) = (read \o (<<Quote>> \o name)) \o <<Quote>>
    BY <1>2, <1>3, ConcatAssociative
  <2> QED
    BY <1>r, <1>s, <2>1, <2>4, <2>5 DEF Reading
<1>8. CASE TakeArgument
  <2> DEFINE y == Argument(args[index + 1])
  <2>1. /\ mode = "text" /\ ~AtEnd /\ format[i] = Mark /\ mode' = "text" /\ index < Len(args)
        /\ a' = Append(a, Slot) /\ b' = Append(b, y) /\ i' = i + 1 /\ format' = format
    BY <1>8 DEF TakeArgument, At
  <2>2. y \in Filling
    <3>1. Len(args) \in Nat /\ index \in Nat /\ args \in Seq(Args)
      BY <1>0, FormatFacts DEF ScanTypeOK
    <3>2. args[index + 1] \in Args
      BY <2>1, <3>1, ElementOfSeq
    <3>3. args[index + 1] \in [expression : BOOLEAN, value : Nat]
      BY <3>2, TemplateConstants
    <3>4. <<>> \in Seq(Symbols)
      BY EmptySeq
    <3> QED
      BY <3>3, <3>4 DEF Argument, Filling
  <2>3. FillingRead(y) = <<Mark>>
    BY DEF FillingRead, Argument
  <2> HIDE DEF y
  <2>4. FlattenSeq(Pieces(a', b')) = read \o <<Mark>>
    BY <1>v, <2>1, <2>2, <2>3, PieceAdded DEF read
  <2> QED
    BY <1>r, <1>s, <2>1, <2>4 DEF Reading
<1>9. CASE Literal
  <2> DEFINE x == IF At("%") THEN Percent ELSE format[i]
  <2>1. /\ mode = "text" /\ ~AtEnd /\ format[i] # Quote /\ format[i] # Mark /\ mode' = "text"
        /\ a' = Append(a, x) /\ i' = i + 1 /\ format' = format /\ b' = b
    BY <1>9 DEF Literal, At
  <2>2. x \in Output /\ x # Slot
    BY <1>s, <1>v, <2>1 DEF Symbols
  <2>3. SignRead(x) = <<format[i]>>
    <3>1. CASE At("%")
      <4>1. x = Percent /\ format[i] = "%" /\ x \notin {Quote, Mark}
        BY <1>v, <3>1 DEF At
      <4> QED
        BY <4>1 DEF SignRead
    <3>2. CASE ~At("%")
      <4>1. x = format[i] /\ x \notin {Quote, Mark} /\ x # Percent
        BY <1>s, <2>1, <3>2 DEF Symbols
      <4> QED
        BY <4>1 DEF SignRead
    <3> QED
      BY <3>1, <3>2
  <2> HIDE DEF x
  <2>4. FlattenSeq(Pieces(a', b')) = read \o SignRead(x)
    BY <2>1, <2>2, PieceAdded DEF read
  <2> QED
    BY <1>r, <1>s, <2>1, <2>3, <2>4 DEF Reading
<1>10. CASE Accept
  <2>1. mode = "text" /\ i > Len(format) /\ mode' = "done" /\ UNCHANGED <<format, a, b>>
    BY <1>10 DEF Accept, AtEnd
  <2>2. i - 1 = Len(format)
    BY <1>1, <2>1
  <2>3. SubSeq(format, 1, i - 1) = format
    BY <1>2, <2>2, SubSeqFull
  <2> QED
    BY <1>r, <2>1, <2>3 DEF Reading, read
<1>11. CASE Refuse \/ Leave
  BY <1>11 DEF Refuse, Leave, Reading
<1>12. ASSUME NEW f \in Formats \cup {<<>>}, NEW v \in Seq(Args), Begin(f, v) PROVE Reading'
  <2>1. mode' \in {"text", "failed"} /\ i' = 1 /\ a' = <<>> /\ b' = <<>>
    BY <1>12 DEF Begin
  <2>2. SubSeq(format', 1, i' - 1) = <<>>
    BY <2>1, SubSeqEmpty
  <2>3. FlattenSeq(Pieces(a', b')) = <<>>
    BY <2>1, NothingRead
  <2> QED
    BY <2>1, <2>2, <2>3 DEF Reading
<1>13. CASE UNCHANGED scan
  BY <1>13 DEF scan, Reading
<1> QED
  BY <1>4, <1>5, <1>6, <1>7, <1>8, <1>9, <1>10, <1>11, <1>12, <1>13 DEF ScanNext, Scan

LEMMA ReadingAlways == ScanSpec => []Reading
<1>1. ScanInit => Reading
  BY DEF ScanInit, Reading
<1>2. IInv /\ IInv' /\ Reading /\ [ScanNext]_scan => Reading'
  BY ReadingStep
<1> QED
  BY <1>1, <1>2, Invariant, PTL DEF ScanSpec

-----------------------------------------------------------------------------
(* The theorems.                                                           *)

(* Every variable of newExpr has its type, for every format and list of    *)
(* arguments; the index never leaves the format or the arguments.          *)
THEOREM ScannerTypeCorrect == ScanSpec => []ScanTypeOK
<1>1. IInv => ScanTypeOK
  BY DEF IInv
<1> QED
  BY <1>1, Invariant, PTL

(* Sprintf always finds exactly as many values as its format has slots,    *)
(* and every argument of Expr, Cond or Not fills one slot, in order.       *)
THEOREM SprintfHasItsValues == ScanSpec => [](SlotsFilled /\ ArgumentsInOrder)
<1>1. IInv => SlotsFilled /\ ArgumentsInOrder
  BY DEF IInv
<1> QED
  BY <1>1, Invariant, PTL

(* The scanner reads a format from the left: a doubled sign is never taken *)
(* for the end of a name and the start of the next, nor for two markers,   *)
(* and no name is empty.                                                   *)
THEOREM ReadsFromTheLeft == ScanSpec => [](Leftmost /\ NamesNotEmpty)
<1>1. IInv => Leftmost /\ NamesNotEmpty
  BY DEF IInv
<1> QED
  BY <1>1, Invariant, PTL

(* Without arguments, a format without question marks is refused only for  *)
(* a back quote too many.                                                  *)
THEOREM OnlyQuotesRefused == ScanSpec => []RefusedForQuotes
<1>1. ASSUME IInv PROVE RefusedForQuotes
  <2> SUFFICES ASSUME mode = "failed", format # <<>>, NoMarks
               PROVE  Cardinality({p \in DOMAIN format : format[p] = Quote}) % 2 = 1
    BY DEF RefusedForQuotes, NoMarks
  <2>1. i = Len(format) + 1 /\ Count(format, Quote, i - 1) % 2 = 1
    BY <1>1 DEF IInv, Parity
  <2>2. Len(format) \in Nat /\ DOMAIN format = 1..Len(format)
    BY <1>1, FormatFacts DEF IInv
  <2>3. i - 1 = Len(format)
    BY <2>1, <2>2
  <2> QED
    BY <2>1, <2>2, <2>3 DEF Count
<1> QED
  BY <1>1, Invariant, PTL

(* The template that newExpr returns says what the format said, however    *)
(* long it is: written out again it is the format, symbol for symbol, and  *)
(* the reading is the leftmost one.                                        *)
THEOREM TemplatesReadBack == ScanSpec => []ReadsBack
<1>1. IInv /\ Reading /\ RefusedForQuotes => ReadsBack
  <2> SUFFICES ASSUME IInv, Reading, RefusedForQuotes PROVE ReadsBack
    OBVIOUS
  <2>1. mode = "done" => Rewritten = format
    BY RewrittenIs DEF Reading
  <2> QED
    BY <2>1 DEF ReadsBack, IInv
<1> QED
  BY <1>1, Invariant, ReadingAlways, OnlyQuotesRefused, PTL
=============================================================================
