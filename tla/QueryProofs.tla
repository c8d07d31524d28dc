----------------------------- MODULE QueryProofs -----------------------------
(***************************************************************************)
(* Proofs about the programs that use the query package: any number of     *)
(* conditions and statements, calls of Cond and Not with any formats.      *)
(***************************************************************************)
EXTENDS SelectRelation, TemplateProofs

-----------------------------------------------------------------------------
(* Sequences whose elements have no type in common.                        *)
IsSeq(s) == s \in Seq(ToSet(s))

LEMMA SeqIs ==
  ASSUME NEW S, NEW s \in Seq(S)
  PROVE  IsSeq(s)
<1>1. Len(s) \in Nat /\ DOMAIN s = 1..Len(s) /\ s = [k \in 1..Len(s) |-> s[k]]
  BY LenProperties
<1>2. s \in [1..Len(s) -> ToSet(s)]
  BY <1>1 DEF ToSet
<1> QED
  BY <1>1, <1>2, SeqDef DEF IsSeq

LEMMA IsSeqFacts ==
  ASSUME NEW s, IsSeq(s)
  PROVE  /\ Len(s) \in Nat /\ DOMAIN s = 1..Len(s)
         /\ s = [k \in 1..Len(s) |-> s[k]]
         /\ ToSet(s) = {s[k] : k \in 1..Len(s)}
<1>1. Len(s) \in Nat /\ DOMAIN s = 1..Len(s) /\ s \in [1..Len(s) -> ToSet(s)]
  BY LenProperties DEF IsSeq
<1> QED
  BY <1>1 DEF ToSet

LEMMA FunctionIsSeq ==
  ASSUME NEW n \in Nat, NEW s, DOMAIN s = 1..n, s = [k \in 1..n |-> s[k]]
  PROVE  IsSeq(s) /\ Len(s) = n
<1>1. s \in [1..n -> ToSet(s)]
  BY DEF ToSet
<1>2. s \in Seq(ToSet(s))
  BY <1>1, SeqDef
<1> QED
  BY <1>1, <1>2, LenProperties DEF IsSeq

LEMMA SeqWithin ==
  ASSUME NEW S, NEW s, IsSeq(s), \A k \in DOMAIN s : s[k] \in S
  PROVE  s \in Seq(S)
<1>1. ToSet(s) \subseteq S
  BY DEF ToSet
<1> QED
  BY <1>1, SeqMonotonic DEF IsSeq

LEMMA SeqsEqual ==
  ASSUME NEW s, NEW t, IsSeq(s), IsSeq(t), Len(s) = Len(t), \A k \in 1..Len(s) : s[k] = t[k]
  PROVE  s = t
<1> DEFINE S == ToSet(s) \cup ToSet(t)
<1>1. s \in Seq(S) /\ t \in Seq(S)
  BY SeqWithin DEF ToSet
<1> HIDE DEF S
<1> QED
  BY <1>1, SeqEqual

LEMMA ConcatIsSeq ==
  ASSUME NEW s, NEW t, IsSeq(s), IsSeq(t)
  PROVE  /\ IsSeq(s \o t)
         /\ Len(s \o t) = Len(s) + Len(t)
         /\ \A k \in 1..Len(s) : (s \o t)[k] = s[k]
         /\ \A k \in 1..Len(t) : (s \o t)[Len(s) + k] = t[k]
         /\ ToSet(s \o t) = ToSet(s) \cup ToSet(t)
<1> DEFINE S == ToSet(s) \cup ToSet(t)
<1>1. s \in Seq(S) /\ t \in Seq(S)
  BY SeqWithin DEF ToSet
<1>2. /\ Len(s) \in Nat /\ DOMAIN s = 1..Len(s) /\ ToSet(s) = {s[k] : k \in 1..Len(s)}
      /\ Len(t) \in Nat /\ DOMAIN t = 1..Len(t) /\ ToSet(t) = {t[k] : k \in 1..Len(t)}
  BY IsSeqFacts
<1> HIDE DEF S
<1>3. /\ s \o t \in Seq(S)
      /\ Len(s \o t) = Len(s) + Len(t)
      /\ \A k \in 1..(Len(s) + Len(t)) : (s \o t)[k] = IF k <= Len(s) THEN s[k] ELSE t[k - Len(s)]
  BY <1>1, ConcatProperties
<1>4. IsSeq(s \o t)
  BY <1>3, SeqIs
<1>5. \A k \in 1..Len(s) : (s \o t)[k] = s[k]
  BY <1>2, <1>3
<1>6. ASSUME NEW k \in 1..Len(t) PROVE (s \o t)[Len(s) + k] = t[k]
  <2>1. Len(s) + k \in 1..(Len(s) + Len(t)) /\ ~(Len(s) + k <= Len(s)) /\ (Len(s) + k) - Len(s) = k
    BY <1>2
  <2> QED
    BY <1>3, <2>1
<1>7. ToSet(s \o t) = {(s \o t)[k] : k \in 1..(Len(s) + Len(t))}
  BY <1>3, <1>4, IsSeqFacts
<1>8. ASSUME NEW k \in 1..(Len(s) + Len(t)) PROVE (s \o t)[k] \in ToSet(s) \cup ToSet(t)
  <2>1. CASE k <= Len(s)
    BY <1>2, <1>5, <2>1
  <2>2. CASE ~(k <= Len(s))
    <3>1. k - Len(s) \in 1..Len(t) /\ (s \o t)[k] = t[k - Len(s)]
      BY <1>2, <1>3, <2>2
    <3> QED
      BY <1>2, <3>1
  <2> QED
    BY <2>1, <2>2
<1>9. ToSet(s) \subseteq ToSet(s \o t)
  <2>1. ASSUME NEW k \in 1..Len(s) PROVE s[k] \in ToSet(s \o t)
    <3>1. k \in 1..(Len(s) + Len(t))
      BY <1>2
    <3> QED
      BY <1>5, <1>7, <3>1
  <2> QED
    BY <1>2, <2>1
<1>10. ToSet(t) \subseteq ToSet(s \o t)
  <2>1. ASSUME NEW k \in 1..Len(t) PROVE t[k] \in ToSet(s \o t)
    <3>1. Len(s) + k \in 1..(Len(s) + Len(t))
      BY <1>2
    <3> QED
      BY <1>6, <1>7, <3>1
  <2> QED
    BY <1>2, <2>1
<1> QED
  BY <1>3, <1>4, <1>5, <1>6, <1>7, <1>8, <1>9, <1>10

LEMMA OneIsSeq ==
  ASSUME NEW x
  PROVE  IsSeq(<<x>>) /\ Len(<<x>>) = 1 /\ <<x>>[1] = x /\ ToSet(<<x>>) = {x}
<1>1. <<x>> \in Seq({x}) /\ Len(<<x>>) = 1 /\ <<x>>[1] = x /\ DOMAIN <<x>> = 1..1
  OBVIOUS
<1>2. IsSeq(<<x>>)
  BY <1>1, SeqIs
<1> QED
  BY <1>1, <1>2 DEF ToSet

LEMMA TwoIsSeq ==
  ASSUME NEW x, NEW y
  PROVE  IsSeq(<<x, y>>) /\ Len(<<x, y>>) = 2 /\ <<x, y>>[1] = x /\ <<x, y>>[2] = y /\ ToSet(<<x, y>>) = {x, y}
<1>1. <<x, y>> \in Seq({x, y}) /\ Len(<<x, y>>) = 2 /\ <<x, y>>[1] = x /\ <<x, y>>[2] = y
      /\ DOMAIN <<x, y>> = 1..2
  OBVIOUS
<1>2. IsSeq(<<x, y>>)
  BY <1>1, SeqIs
<1> QED
  BY <1>1, <1>2 DEF ToSet

LEMMA NoneIsSeq == IsSeq(<<>>) /\ Len(<<>>) = 0 /\ ToSet(<<>>) = {} /\ DOMAIN <<>> = {}
<1>1. <<>> \in Seq({}) /\ Len(<<>>) = 0 /\ DOMAIN <<>> = {}
  OBVIOUS
<1> QED
  BY <1>1, SeqIs DEF ToSet

LEMMA AppendIsSeq ==
  ASSUME NEW s, NEW x, IsSeq(s)
  PROVE  /\ IsSeq(Append(s, x))
         /\ Len(Append(s, x)) = Len(s) + 1
         /\ DOMAIN Append(s, x) = 1..(Len(s) + 1)
         /\ \A k \in 1..Len(s) : Append(s, x)[k] = s[k]
         /\ Append(s, x)[Len(s) + 1] = x
         /\ ToSet(Append(s, x)) = ToSet(s) \cup {x}
<1> DEFINE S == ToSet(s) \cup {x}
<1>1. s \in Seq(S) /\ x \in S
  BY SeqWithin DEF ToSet
<1>2. Append(s, x) = s \o <<x>>
  BY <1>1, AppendIsConcat
<1>3. Append(s, x) \in Seq(S) /\ Append(s, x)[Len(s) + 1] = x
  BY <1>1, AppendProperties
<1>4. IsSeq(Append(s, x))
  BY <1>3, SeqIs
<1> HIDE DEF S
<1> QED
  BY <1>2, <1>3, <1>4, OneIsSeq, ConcatIsSeq, IsSeqFacts

LEMMA EmptyIsNone ==
  ASSUME NEW s, IsSeq(s)
  PROVE  s = <<>> <=> Len(s) = 0
  BY EmptySeq, LenProperties DEF IsSeq

LEMMA FlattenElements ==
  ASSUME NEW T, NEW ss \in Seq(Seq(T))
  PROVE  ToSet(FlattenSeq(ss)) = UNION {ToSet(ss[k]) : k \in DOMAIN ss}
<1> DEFINE S == {n \in Nat : \A tt \in Seq(Seq(T)) :
                   Len(tt) = n => ToSet(FlattenSeq(tt)) = UNION {ToSet(tt[k]) : k \in DOMAIN tt}}
<1>1. 0 \in S
  <2>1. ASSUME NEW tt \in Seq(Seq(T)), Len(tt) = 0
        PROVE ToSet(FlattenSeq(tt)) = UNION {ToSet(tt[k]) : k \in DOMAIN tt}
    <3>1. tt = <<>>
      BY <2>1, EmptySeq
    <3>2. ToSet(FlattenSeq(tt)) = {} /\ DOMAIN tt = {}
      BY <3>1, FlattenNone, NoneIsSeq
    <3> QED
      BY <3>2
  <2> QED
    BY <2>1
<1>2. ASSUME NEW n \in Nat, n \in S PROVE n + 1 \in S
  <2>1. ASSUME NEW tt \in Seq(Seq(T)), Len(tt) = n + 1
        PROVE ToSet(FlattenSeq(tt)) = UNION {ToSet(tt[k]) : k \in DOMAIN tt}
    <3>1. tt # <<>>
      BY <2>1, EmptySeq
    <3>2. PICK uu \in Seq(Seq(T)), x \in Seq(T) : tt = Append(uu, x)
      BY <3>1, SequenceEmptyOrAppend
    <3>3. IsSeq(uu) /\ IsSeq(x) /\ DOMAIN uu = 1..Len(uu)
      BY SeqIs, LenProperties
    <3>4. /\ Len(tt) = Len(uu) + 1 /\ Len(uu) \in Nat /\ DOMAIN tt = 1..(Len(uu) + 1)
          /\ \A k \in 1..Len(uu) : tt[k] = uu[k]
          /\ tt[Len(uu) + 1] = x
      BY <3>2, <3>3, AppendIsSeq, LenProperties
    <3>5. Len(uu) = n
      BY <2>1, <3>4
    <3>6. ToSet(FlattenSeq(uu)) = UNION {ToSet(uu[k]) : k \in DOMAIN uu}
      BY <1>2, <3>5
    <3>7. FlattenSeq(tt) = FlattenSeq(uu) \o x /\ FlattenSeq(uu) \in Seq(T)
      BY <3>2, FlattenAppend, FlattenType
    <3>8. IsSeq(FlattenSeq(uu))
      BY <3>7, SeqIs
    <3>9. ToSet(FlattenSeq(tt)) = ToSet(FlattenSeq(uu)) \cup ToSet(x)
      BY <3>3, <3>7, <3>8, ConcatIsSeq
    <3>10. {ToSet(tt[k]) : k \in DOMAIN tt} = {ToSet(uu[k]) : k \in DOMAIN uu} \cup {ToSet(x)}
      <4>1. \A k \in DOMAIN tt : k \in DOMAIN uu \/ k = Len(uu) + 1
        BY <3>3, <3>4
      <4>2. DOMAIN uu \subseteq DOMAIN tt /\ Len(uu) + 1 \in DOMAIN tt
        BY <3>3, <3>4
      <4> QED
        BY <3>3, <3>4, <4>1, <4>2
    <3> QED
      BY <3>6, <3>9, <3>10
  <2> QED
    BY <2>1
<1> HIDE DEF S
<1>3. Nat \subseteq S
  BY <1>1, <1>2, NatInductive
<1>4. Len(ss) \in Nat
  BY LenProperties
<1> QED
  BY <1>3, <1>4 DEF S

LEMMA FlattenIsSeq ==
  ASSUME NEW ss, IsSeq(ss), \A k \in DOMAIN ss : IsSeq(ss[k])
  PROVE  /\ IsSeq(FlattenSeq(ss))
         /\ ToSet(FlattenSeq(ss)) = UNION {ToSet(ss[k]) : k \in DOMAIN ss}
<1> DEFINE T == UNION {ToSet(ss[k]) : k \in DOMAIN ss}
<1>1. ASSUME NEW k \in DOMAIN ss PROVE ss[k] \in Seq(T)
  <2>1. \A j \in DOMAIN ss[k] : ss[k][j] \in T
    BY DEF ToSet
  <2> QED
    BY <2>1, SeqWithin
<1> HIDE DEF T
<1>2. ss \in Seq(Seq(T))
  BY <1>1, SeqWithin
<1> QED
  BY <1>2, FlattenElements, FlattenType, SeqIs

-----------------------------------------------------------------------------
(* What is in a sequence of parts: an error, expressions.                  *)
Bad(s)    == \E p \in ToSet(s) : p.t = "fail"
SubsIn(s) == {p.v : p \in {q \in ToSet(s) : q.t = "sub"}}

LEMMA PartsNone == IsSeq(<<>>) /\ ~Bad(<<>>) /\ SubsIn(<<>>) = {}
  BY NoneIsSeq DEF Bad, SubsIn

LEMMA PartWord ==
  ASSUME NEW x PROVE IsSeq(<<Word(x)>>) /\ ~Bad(<<Word(x)>>) /\ SubsIn(<<Word(x)>>) = {}
<1>1. Word(x).t = "word"
  BY DEF Word
<1> QED
  BY <1>1, OneIsSeq DEF Bad, SubsIn

LEMMA PartName ==
  ASSUME NEW x PROVE IsSeq(<<Name(x)>>) /\ ~Bad(<<Name(x)>>) /\ SubsIn(<<Name(x)>>) = {}
<1>1. Name(x).t = "name"
  BY DEF Name
<1> QED
  BY <1>1, OneIsSeq DEF Bad, SubsIn

LEMMA PartValue ==
  ASSUME NEW x PROVE IsSeq(<<Value(x)>>) /\ ~Bad(<<Value(x)>>) /\ SubsIn(<<Value(x)>>) = {}
<1>1. Value(x).t = "value"
  BY DEF Value
<1> QED
  BY <1>1, OneIsSeq DEF Bad, SubsIn

LEMMA PartSub ==
  ASSUME NEW x PROVE IsSeq(<<Sub(x)>>) /\ ~Bad(<<Sub(x)>>) /\ SubsIn(<<Sub(x)>>) = {x}
<1>1. Sub(x).t = "sub" /\ Sub(x).v = x
  BY DEF Sub
<1> QED
  BY <1>1, OneIsSeq DEF Bad, SubsIn

LEMMA PartFail == IsSeq(<<Fail>>) /\ Bad(<<Fail>>)
<1>1. Fail.t = "fail"
  BY DEF Fail
<1> QED
  BY <1>1, OneIsSeq DEF Bad

LEMMA PartsConcat ==
  ASSUME NEW s, NEW t, IsSeq(s), IsSeq(t)
  PROVE  /\ IsSeq(s \o t)
         /\ Bad(s \o t) <=> Bad(s) \/ Bad(t)
         /\ SubsIn(s \o t) = SubsIn(s) \cup SubsIn(t)
<1>1. IsSeq(s \o t) /\ ToSet(s \o t) = ToSet(s) \cup ToSet(t)
  BY ConcatIsSeq
<1> QED
  BY <1>1 DEF Bad, SubsIn

LEMMA PartsFlatten ==
  ASSUME NEW ss, IsSeq(ss), \A k \in DOMAIN ss : IsSeq(ss[k])
  PROVE  /\ IsSeq(FlattenSeq(ss))
         /\ Bad(FlattenSeq(ss)) <=> \E k \in DOMAIN ss : Bad(ss[k])
         /\ SubsIn(FlattenSeq(ss)) = UNION {SubsIn(ss[k]) : k \in DOMAIN ss}
<1>1. /\ IsSeq(FlattenSeq(ss))
      /\ ToSet(FlattenSeq(ss)) = UNION {ToSet(ss[k]) : k \in DOMAIN ss}
  BY FlattenIsSeq
<1> QED
  BY <1>1 DEF Bad, SubsIn

LEMMA PartsBracketed ==
  ASSUME NEW s, IsSeq(s)
  PROVE  IsSeq(Bracketed(s)) /\ (Bad(Bracketed(s)) <=> Bad(s)) /\ SubsIn(Bracketed(s)) = SubsIn(s)
<1>1. /\ IsSeq(<<Word("(")>>) /\ ~Bad(<<Word("(")>>) /\ SubsIn(<<Word("(")>>) = {}
      /\ IsSeq(<<Word(")")>>) /\ ~Bad(<<Word(")")>>) /\ SubsIn(<<Word(")")>>) = {}
  BY PartWord
<1> DEFINE open == <<Word("(")>>
           close == <<Word(")")>>
<1> HIDE DEF open, close
<1>2. /\ IsSeq(open \o s) /\ (Bad(open \o s) <=> Bad(s)) /\ SubsIn(open \o s) = SubsIn(s)
  BY <1>1, PartsConcat DEF open
<1>3. /\ IsSeq((open \o s) \o close) /\ (Bad((open \o s) \o close) <=> Bad(s))
      /\ SubsIn((open \o s) \o close) = SubsIn(s)
  BY <1>1, <1>2, PartsConcat DEF close
<1> QED
  BY <1>3 DEF open, close, Bracketed

LEMMA PartsJoined ==
  ASSUME NEW ps, NEW sep, IsSeq(ps), \A k \in DOMAIN ps : IsSeq(ps[k])
  PROVE  /\ IsSeq(Joined(ps, sep))
         /\ Bad(Joined(ps, sep)) <=> \E k \in DOMAIN ps : Bad(ps[k])
         /\ SubsIn(Joined(ps, sep)) = UNION {SubsIn(ps[k]) : k \in DOMAIN ps}
<1> DEFINE ss == [k \in 1..Len(ps) |-> IF k = 1 THEN ps[k] ELSE <<Word(sep)>> \o ps[k]]
<1>1. Len(ps) \in Nat /\ DOMAIN ps = 1..Len(ps)
  BY IsSeqFacts
<1>2. IsSeq(ss) /\ DOMAIN ss = 1..Len(ps)
  BY <1>1, FunctionIsSeq
<1>3. ASSUME NEW k \in DOMAIN ps
      PROVE IsSeq(ss[k]) /\ (Bad(ss[k]) <=> Bad(ps[k])) /\ SubsIn(ss[k]) = SubsIn(ps[k])
  <2>1. CASE k = 1
    BY <1>1, <2>1
  <2>2. CASE k # 1
    <3>1. ss[k] = <<Word(sep)>> \o ps[k]
      BY <1>1, <2>2
    <3> HIDE DEF ss
    <3>2. /\ IsSeq(<<Word(sep)>> \o ps[k])
          /\ Bad(<<Word(sep)>> \o ps[k]) <=> Bad(ps[k])
          /\ SubsIn(<<Word(sep)>> \o ps[k]) = SubsIn(ps[k])
      BY PartWord, PartsConcat
    <3> QED
      BY <3>1, <3>2
  <2> QED
    BY <2>1, <2>2
<1>4. Joined(ps, sep) = FlattenSeq(ss)
  BY DEF Joined
<1> HIDE DEF ss
<1>5. /\ IsSeq(FlattenSeq(ss))
      /\ Bad(FlattenSeq(ss)) <=> \E k \in DOMAIN ss : Bad(ss[k])
      /\ SubsIn(FlattenSeq(ss)) = UNION {SubsIn(ss[k]) : k \in DOMAIN ss}
  BY <1>1, <1>2, <1>3, PartsFlatten
<1>6. {SubsIn(ss[k]) : k \in DOMAIN ss} = {SubsIn(ps[k]) : k \in DOMAIN ps}
  BY <1>1, <1>2, <1>3
<1> QED
  BY <1>1, <1>2, <1>3, <1>4, <1>5, <1>6

-----------------------------------------------------------------------------
(* Functions defined by recursion over the naturals.                       *)
Iterates(f, g, x, V, n) ==
  /\ f \in [0..n -> V]
  /\ f[0] = x
  /\ \A j \in 1..n : f[j] = g[<<j, f[j - 1]>>]

LEMMA Iterated ==
  ASSUME NEW V, NEW x \in V, NEW n \in Nat, NEW g, \A j \in 1..n, r \in V : g[<<j, r>>] \in V
  PROVE  \E f : Iterates(f, g, x, V, n)
<1> DEFINE S == {m \in Nat : m > n \/ \E f : Iterates(f, g, x, V, m)}
<1>1. 0 \in S
  <2>1. Iterates([j \in 0..0 |-> x], g, x, V, 0)
    BY DEF Iterates
  <2> QED
    BY <2>1
<1>2. ASSUME NEW m \in Nat, m \in S PROVE m + 1 \in S
  <2> SUFFICES ASSUME m + 1 <= n PROVE \E f : Iterates(f, g, x, V, m + 1)
    OBVIOUS
  <2>1. PICK f : Iterates(f, g, x, V, m)
    BY <1>2
  <2> DEFINE y == g[<<m + 1, f[m]>>]
             h == [j \in 0..(m + 1) |-> IF j <= m THEN f[j] ELSE y]
  <2>2. y \in V
    <3>1. m + 1 \in 1..n /\ f[m] \in V
      BY <2>1 DEF Iterates
    <3> QED
      BY <3>1
  <2>3. h \in [0..(m + 1) -> V] /\ h[0] = x
    BY <2>1, <2>2 DEF Iterates
  <2>4. ASSUME NEW j \in 1..(m + 1) PROVE h[j] = g[<<j, h[j - 1]>>]
    <3>1. CASE j <= m
      <4>1. j \in 1..m /\ j - 1 \in 0..(m + 1) /\ j - 1 <= m /\ j \in 0..(m + 1)
        BY <3>1
      <4>2. h[j] = f[j] /\ h[j - 1] = f[j - 1]
        BY <3>1, <4>1
      <4> QED
        BY <2>1, <4>1, <4>2 DEF Iterates
    <3>2. CASE j = m + 1
      <4>1. h[m + 1] = y /\ h[m] = f[m] /\ (m + 1) - 1 = m
        OBVIOUS
      <4> QED
        BY <3>2, <4>1
    <3> QED
      BY <3>1, <3>2
  <2> HIDE DEF h
  <2> QED
    BY <2>3, <2>4 DEF Iterates
<1>3. Nat \subseteq S
  <2> HIDE DEF S
  <2> QED
    BY <1>1, <1>2, NatInductive
<1> QED
  BY <1>3

-----------------------------------------------------------------------------
(* The parts of a dotted name.                                             *)
SplitState(T) == [e : Seq(Seq(T)), d : Seq(T), half : BOOLEAN]
SplitStart == [e |-> <<>>, d |-> <<>>, half |-> FALSE]

LEMMA SplitStepType ==
  ASSUME NEW T, "." \in T, NEW s \in Seq(T), NEW j \in 1..Len(s), NEW r \in SplitState(T)
  PROVE  SplitStep(s, j, r) \in SplitState(T)
<1>1. r.e \in Seq(Seq(T)) /\ r.d \in Seq(T) /\ s[j] \in T
  BY ElementOfSeq DEF SplitState
<1>2. Append(r.d, s[j]) \in Seq(T) /\ Append(r.d, ".") \in Seq(T) /\ Append(r.e, r.d) \in Seq(Seq(T))
      /\ <<>> \in Seq(T)
  BY <1>1, AppendProperties, EmptySeq
<1> QED
  BY <1>1, <1>2 DEF SplitState, SplitStep

LEMMA SplitReads ==
  ASSUME NEW T, "." \in T, NEW s \in Seq(T)
  PROVE  /\ SplitRead(s, 0) = SplitStart
         /\ \A j \in 1..Len(s) : SplitRead(s, j) = SplitStep(s, j, SplitRead(s, j - 1))
<1> DEFINE n == Len(s)
           V == SplitState(T)
           F(f) == f = [j \in 0..n |-> IF j = 0 THEN SplitStart ELSE SplitStep(s, j, f[j - 1])]
           g == [p \in (1..n) \X V |-> SplitStep(s, p[1], p[2])]
           read == CHOOSE f : F(f)
<1>1. n \in Nat
  BY LenProperties
<1>2. SplitStart \in V
  BY EmptySeq DEF SplitStart, SplitState
<1>3. \A j \in 1..n, r \in V : g[<<j, r>>] = SplitStep(s, j, r) /\ g[<<j, r>>] \in V
  BY SplitStepType
<1> HIDE DEF g
<1>4. PICK f : Iterates(f, g, SplitStart, V, n)
  <2> HIDE DEF V, n
  <2> QED
    BY <1>1, <1>2, <1>3, Iterated
<1>5. F(f)
  <2>1. f = [j \in 0..n |-> f[j]] /\ f[0] = SplitStart /\ \A j \in 0..n : f[j] \in V
    BY <1>4 DEF Iterates
  <2>2. ASSUME NEW j \in 1..n PROVE f[j] = SplitStep(s, j, f[j - 1])
    <3>1. j - 1 \in 0..n
      BY <1>1
    <3>2. f[j - 1] \in V
      BY <2>1, <3>1
    <3>3. f[j] = g[<<j, f[j - 1]>>]
      BY <1>4 DEF Iterates
    <3> QED
      BY <1>3, <3>2, <3>3
  <2> DEFINE h == [j \in 0..n |-> IF j = 0 THEN SplitStart ELSE SplitStep(s, j, f[j - 1])]
  <2>3. ASSUME NEW j \in 0..n PROVE f[j] = h[j]
    <3>1. CASE j = 0
      BY <1>1, <2>1, <3>1
    <3>2. CASE j # 0
      <4>1. j \in 1..n
        BY <1>1, <3>2
      <4> QED
        BY <2>2, <3>2, <4>1
    <3> QED
      BY <3>1, <3>2
  <2>4. h = [j \in 0..n |-> h[j]]
    OBVIOUS
  <2> QED
    BY <2>1, <2>3, <2>4
<1>6. F(read)
  <2> HIDE DEF F
  <2> QED
    BY <1>5
<1>7. \A j \in 0..n : SplitRead(s, j) = read[j]
  BY DEF SplitRead, SplitStart
<1> HIDE DEF read
<1>8. read[0] = SplitStart /\ \A j \in 1..n : read[j] = SplitStep(s, j, read[j - 1])
  BY <1>1, <1>6
<1>9. 0 \in 0..n /\ \A j \in 1..n : j \in 0..n /\ j - 1 \in 0..n
  BY <1>1
<1> QED
  BY <1>7, <1>8, <1>9

LEMMA SplitReadType ==
  ASSUME NEW T, "." \in T, NEW s \in Seq(T), NEW n \in 0..Len(s)
  PROVE  SplitRead(s, n) \in SplitState(T)
<1> DEFINE S == {m \in Nat : m <= Len(s) => SplitRead(s, m) \in SplitState(T)}
<1>0. Len(s) \in Nat
  BY LenProperties
<1>1. 0 \in S
  <2>1. SplitStart \in SplitState(T)
    BY EmptySeq DEF SplitStart, SplitState
  <2> QED
    BY <2>1, SplitReads
<1>2. ASSUME NEW m \in Nat, m \in S PROVE m + 1 \in S
  <2> SUFFICES ASSUME m + 1 <= Len(s) PROVE SplitRead(s, m + 1) \in SplitState(T)
    OBVIOUS
  <2>1. m + 1 \in 1..Len(s) /\ (m + 1) - 1 = m /\ m <= Len(s)
    BY <1>0
  <2>2. SplitRead(s, m) \in SplitState(T)
    BY <1>2, <2>1
  <2>3. SplitRead(s, m + 1) = SplitStep(s, m + 1, SplitRead(s, m))
    BY <2>1, SplitReads
  <2> QED
    BY <2>1, <2>2, <2>3, SplitStepType
<1>3. Nat \subseteq S
  <2> HIDE DEF S
  <2> QED
    BY <1>1, <1>2, NatInductive
<1> QED
  BY <1>0, <1>3

LEMMA SplitType ==
  ASSUME NEW T, "." \in T, NEW s \in Seq(T)
  PROVE  Split(s) \in Seq(Seq(T))
<1>1. Len(s) \in 0..Len(s)
  BY LenProperties
<1>2. SplitRead(s, Len(s)) \in SplitState(T)
  BY <1>1, SplitReadType
<1>3. SplitRead(s, Len(s)).e \in Seq(Seq(T)) /\ SplitRead(s, Len(s)).d \in Seq(T)
  BY <1>2 DEF SplitState
<1> QED
  BY <1>3, AppendProperties DEF Split

LEMMA PartsDotted ==
  ASSUME NEW s, IsSeq(s)
  PROVE  IsSeq(Dotted(s)) /\ ~Bad(Dotted(s)) /\ SubsIn(Dotted(s)) = {}
<1> DEFINE T == ToSet(s) \cup {"."}
           parts == Split(s)
           ps == [k \in DOMAIN parts |-> <<Name(parts[k])>>]
<1>1. s \in Seq(T)
  BY SeqWithin DEF ToSet
<1>2. parts \in Seq(Seq(T))
  <2> HIDE DEF T
  <2> QED
    BY <1>1, SplitType DEF T
<1>3. IsSeq(parts)
  <2> HIDE DEF T, parts
  <2> QED
    BY <1>2, SeqIs
<1>4. Len(parts) \in Nat /\ DOMAIN parts = 1..Len(parts)
  BY <1>3, IsSeqFacts
<1> HIDE DEF parts
<1>5. IsSeq(ps) /\ DOMAIN ps = DOMAIN parts
  BY <1>4, FunctionIsSeq
<1>6. \A k \in DOMAIN ps : IsSeq(ps[k]) /\ ~Bad(ps[k]) /\ SubsIn(ps[k]) = {}
  BY <1>5, PartName
<1>7. Dotted(s) = Joined(ps, ".")
  BY DEF Dotted, parts
<1> HIDE DEF ps
<1> QED
  BY <1>5, <1>6, <1>7, PartsJoined

LEMMA PartsQuoted ==
  ASSUME NEW s, IsSeq(s)
  PROVE  IsSeq(NameExpr(s)) /\ ~Bad(NameExpr(s)) /\ SubsIn(NameExpr(s)) = {}
<1> DEFINE n    == LeadingQuotes(s)
           rest == SubSeq(s, n + 1, Len(s))
           qs   == [k \in 1..n |-> Word(Quote)]
           tail == IF rest = <<>> THEN <<Word(Quote)>> ELSE Dotted(rest)
<1>1. Len(s) \in Nat /\ DOMAIN s = 1..Len(s)
  BY IsSeqFacts
<1>2. n \in Nat
  <2> DEFINE led == {k \in DOMAIN s : \A j \in 1..k : s[j] = Quote}
  <2>1. IsFiniteSet(1..Len(s)) /\ led \subseteq 1..Len(s)
    BY <1>1, FS_Interval
  <2>2. IsFiniteSet(led)
    BY <2>1, FS_Subset
  <2> HIDE DEF led
  <2>3. Cardinality(led) \in Nat
    BY <2>2, FS_CardinalityType
  <2> QED
    BY <2>3 DEF LeadingQuotes, led
<1> HIDE DEF n
<1>3. IsSeq(rest)
  <2>1. \A k \in (n + 1)..Len(s) : s[k] \in ToSet(s)
    BY <1>1, <1>2 DEF ToSet
  <2>2. n + 1 \in Int /\ Len(s) \in Int
    BY <1>1, <1>2
  <2>3. rest \in Seq(ToSet(s))
    BY <2>1, <2>2, SubSeqProperties
  <2> HIDE DEF rest
  <2> QED
    BY <2>3, SeqIs
<1>4. IsSeq(qs) /\ ~Bad(qs) /\ SubsIn(qs) = {}
  <2>1. \A k \in DOMAIN qs : qs[k] = Word(Quote)
    OBVIOUS
  <2>2. IsSeq(qs)
    BY <1>2, FunctionIsSeq
  <2>3. \A p \in ToSet(qs) : p.t = "word"
    <3>1. Word(Quote).t = "word"
      BY DEF Word
    <3> QED
      BY <2>1, <3>1 DEF ToSet
  <2> HIDE DEF qs
  <2> QED
    BY <2>2, <2>3 DEF Bad, SubsIn
<1>5. IsSeq(tail) /\ ~Bad(tail) /\ SubsIn(tail) = {}
  <2> HIDE DEF rest
  <2> QED
    BY <1>3, PartWord, PartsDotted
<1>6. NameExpr(s) = qs \o tail
  BY DEF NameExpr, n
<1> HIDE DEF qs, tail
<1> QED
  BY <1>4, <1>5, <1>6, PartsConcat

(* A part, with its dots doubled.                                          *)
LEMMA PartReadNext ==
  ASSUME NEW T, "." \in T, NEW s \in Seq(T), NEW x \in T
  PROVE  /\ PartRead(s) \in Seq(T) /\ DotRead(x) \in Seq(T)
         /\ PartRead(Append(s, x)) = PartRead(s) \o DotRead(x)
<1> DEFINE ss == [k \in DOMAIN s |-> DotRead(s[k])]
           t == Append(s, x)
           tt == [k \in DOMAIN t |-> DotRead(t[k])]
<1>1. /\ Len(s) \in Nat /\ DOMAIN s = 1..Len(s) /\ \A k \in 1..Len(s) : s[k] \in T
      /\ DOMAIN t = 1..(Len(s) + 1) /\ (\A k \in 1..Len(s) : t[k] = s[k]) /\ t[Len(s) + 1] = x
      /\ t \in Seq(T)
  BY LenProperties, ElementOfSeq, AppendProperties
<1>2. ASSUME NEW y \in T PROVE DotRead(y) \in Seq(T)
  <2>1. <<".", ".">> \in Seq(T) /\ <<y>> \in Seq(T)
    OBVIOUS
  <2> QED
    BY <2>1 DEF DotRead
<1>3. ss \in Seq(Seq(T)) /\ Len(ss) = Len(s)
  <2>1. ss \in [1..Len(s) -> Seq(T)]
    BY <1>1, <1>2
  <2> HIDE DEF ss
  <2>2. ss \in Seq(Seq(T))
    BY <1>1, <2>1, SeqDef
  <2> QED
    BY <1>1, <2>1, <2>2, LenProperties
<1> HIDE DEF t
<1>4. /\ Append(ss, DotRead(x)) \in Seq(Seq(T))
      /\ Len(Append(ss, DotRead(x))) = Len(s) + 1
      /\ \A k \in 1..Len(s) : Append(ss, DotRead(x))[k] = ss[k]
      /\ Append(ss, DotRead(x))[Len(s) + 1] = DotRead(x)
  <2> HIDE DEF ss
  <2> QED
    BY <1>2, <1>3, AppendProperties
<1>5. tt \in Seq(Seq(T)) /\ Len(tt) = Len(s) + 1
  <2>1. \A k \in 1..(Len(s) + 1) : t[k] \in T
    BY <1>1
  <2>2. tt \in [1..(Len(s) + 1) -> Seq(T)]
    BY <1>1, <1>2, <2>1
  <2> HIDE DEF tt
  <2>3. tt \in Seq(Seq(T))
    BY <1>1, <2>2, SeqDef
  <2> QED
    BY <1>1, <2>2, <2>3, LenProperties
<1>6. ASSUME NEW k \in 1..(Len(s) + 1) PROVE tt[k] = Append(ss, DotRead(x))[k]
  <2>1. CASE k \in 1..Len(s)
    BY <1>1, <1>4, <2>1
  <2>2. CASE k = Len(s) + 1
    BY <1>1, <1>4, <2>2
  <2> QED
    BY <1>1, <2>1, <2>2
<1>7. tt = Append(ss, DotRead(x))
  <2> HIDE DEF ss, tt
  <2> QED
    BY <1>4, <1>5, <1>6, SeqEqual
<1>8. PartRead(s) = FlattenSeq(ss) /\ PartRead(t) = FlattenSeq(tt)
  BY DEF PartRead
<1> HIDE DEF ss, tt
<1> QED
  BY <1>2, <1>3, <1>7, <1>8, FlattenAppend, FlattenType DEF t

LEMMA PartReadNone == PartRead(<<>>) = <<>>
<1>1. DOMAIN <<>> = {}
  OBVIOUS
<1>2. [k \in DOMAIN <<>> |-> DotRead(<<>>[k])] = <<>>
  BY <1>1
<1> QED
  BY <1>2, FlattenNone DEF PartRead

LEMMA PartReadType ==
  ASSUME NEW T, "." \in T, NEW s \in Seq(T)
  PROVE  /\ PartRead(s) \in Seq(T)
         /\ s # <<>> => PartRead(s) # <<>> /\ PartRead(s)[1] = s[1]
<1> DEFINE Holds(t) == /\ PartRead(t) \in Seq(T)
                       /\ t # <<>> => PartRead(t) # <<>> /\ PartRead(t)[1] = t[1]
           S == {n \in Nat : \A t \in Seq(T) : Len(t) = n => Holds(t)}
<1>1. 0 \in S
  <2>1. ASSUME NEW t \in Seq(T), Len(t) = 0 PROVE Holds(t)
    BY <2>1, EmptySeq, PartReadNone
  <2> HIDE DEF Holds
  <2> QED
    BY <2>1
<1>2. ASSUME NEW n \in Nat, n \in S PROVE n + 1 \in S
  <2>1. ASSUME NEW t \in Seq(T), Len(t) = n + 1 PROVE Holds(t)
    <3>1. t # <<>>
      BY <2>1, EmptySeq
    <3>2. PICK u \in Seq(T), x \in T : t = Append(u, x)
      BY <3>1, SequenceEmptyOrAppend
    <3>3. Len(u) = n /\ Len(u) \in Nat /\ t[Len(u) + 1] = x /\ \A k \in 1..Len(u) : t[k] = u[k]
      <4>1. Len(t) = Len(u) + 1 /\ Len(u) \in Nat /\ t[Len(u) + 1] = x /\ \A k \in 1..Len(u) : t[k] = u[k]
        BY <3>2, AppendProperties, LenProperties
      <4> QED
        BY <2>1, <4>1
    <3>4. Holds(u)
      BY <1>2, <3>3
    <3>5. PartRead(u) \in Seq(T) /\ DotRead(x) \in Seq(T) /\ PartRead(t) = PartRead(u) \o DotRead(x)
      BY <3>2, PartReadNext
    <3>6. PartRead(t) \in Seq(T)
      BY <3>5, ConcatProperties
    <3>7. DotRead(x)[1] = x /\ DotRead(x) # <<>> /\ Len(DotRead(x)) \in Nat /\ Len(DotRead(x)) # 0
      <4>1. CASE x = "."
        <5>1. DotRead(x) = <<x, x>>
          BY <4>1 DEF DotRead
        <5> QED
          BY <5>1
      <4>2. CASE x # "."
        <5>1. DotRead(x) = <<x>>
          BY <4>2 DEF DotRead
        <5> QED
          BY <5>1
      <4> QED
        BY <4>1, <4>2
    <3>8. CASE u = <<>>
      <4>1. PartRead(u) = <<>>
        BY <3>8, PartReadNone
      <4>2. PartRead(t) = DotRead(x)
        BY <3>5, <4>1, ConcatEmptySeq
      <4>3. t[1] = x
        BY <3>3, <3>8, EmptySeq
      <4> QED
        BY <3>5, <3>7, <4>2, <4>3
    <3>9. CASE u # <<>>
      <4>1. PartRead(u) # <<>> /\ PartRead(u)[1] = u[1]
        BY <3>4, <3>9
      <4>2. Len(PartRead(u)) \in Nat \ {0} /\ Len(u) \in Nat \ {0}
        BY <3>5, <3>9, <4>1, EmptySeq
      <4>3. /\ Len(PartRead(t)) = Len(PartRead(u)) + Len(DotRead(x))
            /\ \A k \in 1..(Len(PartRead(u)) + Len(DotRead(x))) :
                 PartRead(t)[k] = IF k <= Len(PartRead(u)) THEN PartRead(u)[k]
                                  ELSE DotRead(x)[k - Len(PartRead(u))]
        BY <3>5, ConcatProperties
      <4>4. PartRead(t)[1] = PartRead(u)[1] /\ t[1] = u[1]
        BY <3>3, <3>7, <4>2, <4>3
      <4>5. PartRead(t) # <<>>
        BY <3>7, <4>2, <4>3, EmptySeq
      <4> QED
        BY <3>6, <4>1, <4>4, <4>5
    <3> QED
      BY <3>8, <3>9
  <2> HIDE DEF Holds
  <2> QED
    BY <2>1
<1>3. Nat \subseteq S
  <2> HIDE DEF S
  <2> QED
    BY <1>1, <1>2, NatInductive
<1>4. Len(s) \in Nat
  BY LenProperties
<1>5. Holds(s)
  <2> HIDE DEF Holds
  <2> QED
    BY <1>3, <1>4
<1> QED
  BY <1>5

(* After n symbols of s, the parts are e, and d has been read of the next. *)
Reads(s, n, e, d) == n \in 0..Len(s) /\ SplitRead(s, n) = [e |-> e, d |-> d, half |-> FALSE]

(* What is in s from n + 1 on.                                             *)
Stands(t, s, n) == n + Len(t) <= Len(s) /\ \A q \in 1..Len(t) : s[n + q] = t[q]

LEMMA ReadSymbol ==
  ASSUME NEW T, "." \in T, NEW s \in Seq(T), NEW n, NEW e, NEW d, NEW x \in T,
         Reads(s, n, e, d), Stands(DotRead(x), s, n)
  PROVE  Reads(s, n + Len(DotRead(x)), e, Append(d, x))
<1> DEFINE r == [e |-> e, d |-> d, half |-> FALSE]
<1>0. Len(s) \in Nat /\ n \in Nat /\ SplitRead(s, n) = r
  BY LenProperties DEF Reads
<1>1. CASE x # "."
  <2>1. DotRead(x) = <<x>>
    BY <1>1 DEF DotRead
  <2>2. Len(DotRead(x)) = 1 /\ DotRead(x)[1] = x
    BY <2>1
  <2>3. n + 1 \in 1..Len(s) /\ s[n + 1] = x /\ (n + 1) - 1 = n
    BY <1>0, <2>2 DEF Stands
  <2>4. SplitRead(s, n + 1) = SplitStep(s, n + 1, r)
    BY <1>0, <2>3, SplitReads
  <2>5. SplitStep(s, n + 1, r) = [e |-> e, d |-> Append(d, x), half |-> FALSE]
    BY <1>1, <2>3 DEF SplitStep
  <2> QED
    BY <1>0, <2>2, <2>3, <2>4, <2>5 DEF Reads
<1>2. CASE x = "."
  <2>1. DotRead(x) = <<x, x>>
    BY <1>2 DEF DotRead
  <2>2. Len(DotRead(x)) = 2 /\ DotRead(x)[1] = x /\ DotRead(x)[2] = x
    BY <2>1
  <2>3. /\ n + 1 \in 1..Len(s) /\ s[n + 1] = x /\ (n + 1) - 1 = n
        /\ n + 2 \in 1..Len(s) /\ s[n + 2] = x /\ (n + 2) - 1 = n + 1
        /\ (n + 1) + 1 = n + 2 /\ n + 1 # Len(s)
    BY <1>0, <2>2 DEF Stands
  <2> DEFINE q == [e |-> e, d |-> Append(d, x), half |-> TRUE]
  <2>4. SplitRead(s, n + 1) = q
    <3>1. SplitRead(s, n + 1) = SplitStep(s, n + 1, r)
      BY <1>0, <2>3, SplitReads
    <3>2. SplitStep(s, n + 1, r) = q
      BY <1>2, <2>3 DEF SplitStep
    <3> QED
      BY <3>1, <3>2
  <2>5. SplitRead(s, n + 2) = [e |-> e, d |-> Append(d, x), half |-> FALSE]
    <3>1. SplitRead(s, n + 2) = SplitStep(s, n + 2, q)
      BY <2>3, <2>4, SplitReads
    <3>2. SplitStep(s, n + 2, q) = [e |-> e, d |-> Append(d, x), half |-> FALSE]
      BY <1>2, <2>3 DEF SplitStep
    <3> QED
      BY <3>1, <3>2
  <2> QED
    BY <1>0, <2>2, <2>3, <2>5 DEF Reads
<1> QED
  BY <1>1, <1>2

LEMMA ReadDot ==
  ASSUME NEW T, "." \in T, NEW s \in Seq(T), NEW n, NEW e, NEW d,
         Reads(s, n, e, d), n + 1 < Len(s), s[n + 1] = ".", s[n + 2] # "."
  PROVE  Reads(s, n + 1, Append(e, d), <<>>)
<1> DEFINE r == [e |-> e, d |-> d, half |-> FALSE]
<1>0. Len(s) \in Nat /\ n \in Nat /\ SplitRead(s, n) = r
  BY LenProperties DEF Reads
<1>1. n + 1 \in 1..Len(s) /\ (n + 1) - 1 = n /\ n + 1 # Len(s) /\ (n + 1) + 1 = n + 2
  BY <1>0
<1>2. SplitRead(s, n + 1) = SplitStep(s, n + 1, r)
  BY <1>0, <1>1, SplitReads
<1>3. SplitStep(s, n + 1, r) = [e |-> Append(e, d), d |-> <<>>, half |-> FALSE]
  BY <1>1 DEF SplitStep
<1> QED
  BY <1>0, <1>1, <1>2, <1>3 DEF Reads

LEMMA StandsConcat ==
  ASSUME NEW T, NEW s \in Seq(T), NEW t \in Seq(T), NEW u \in Seq(T), NEW n \in Nat, Stands(t \o u, s, n)
  PROVE  Stands(t, s, n) /\ Stands(u, s, n + Len(t)) /\ Len(t \o u) = Len(t) + Len(u)
<1>1. /\ Len(t) \in Nat /\ Len(u) \in Nat /\ Len(s) \in Nat /\ Len(t \o u) = Len(t) + Len(u)
      /\ \A k \in 1..(Len(t) + Len(u)) : (t \o u)[k] = IF k <= Len(t) THEN t[k] ELSE u[k - Len(t)]
  BY LenProperties, ConcatProperties
<1>2. Stands(t, s, n)
  BY <1>1 DEF Stands
<1>3. ASSUME NEW q \in 1..Len(u) PROVE s[(n + Len(t)) + q] = u[q]
  <2>1. Len(t) + q \in 1..(Len(t) + Len(u)) /\ ~(Len(t) + q <= Len(t)) /\ (Len(t) + q) - Len(t) = q
        /\ n + (Len(t) + q) = (n + Len(t)) + q
    BY <1>1
  <2>2. s[n + (Len(t) + q)] = (t \o u)[Len(t) + q]
    BY <1>1, <2>1 DEF Stands
  <2> QED
    BY <1>1, <2>1, <2>2
<1>4. (n + Len(t)) + Len(u) <= Len(s)
  BY <1>1 DEF Stands
<1> QED
  BY <1>1, <1>2, <1>3, <1>4 DEF Stands

LEMMA StandsHalves ==
  ASSUME NEW T, NEW s \in Seq(T), NEW n \in Nat
  PROVE  \A y, z \in Seq(T) : Stands(y \o z, s, n) =>
           Stands(y, s, n) /\ Stands(z, s, n + Len(y)) /\ Len(y \o z) = Len(y) + Len(z)
  BY StandsConcat

LEMMA ReadPart ==
  ASSUME NEW T, "." \in T, NEW s \in Seq(T), NEW n \in Nat, NEW e, NEW x \in Seq(T),
         Reads(s, n, e, <<>>), Stands(PartRead(x), s, n)
  PROVE  Reads(s, n + Len(PartRead(x)), e, x)
<1> DEFINE Done(t) == Stands(PartRead(t), s, n) => Reads(s, n + Len(PartRead(t)), e, t)
           S == {m \in Nat : \A t \in Seq(T) : Len(t) = m => Done(t)}
<1>1. 0 \in S
  <2>1. ASSUME NEW t \in Seq(T), Len(t) = 0 PROVE Done(t)
    <3>1. t = <<>> /\ PartRead(t) = <<>>
      BY <2>1, EmptySeq, PartReadNone
    <3>2. n + Len(PartRead(t)) = n
      BY <3>1, EmptySeq
    <3> QED
      BY <3>1, <3>2
  <2> HIDE DEF Done
  <2> QED
    BY <2>1
<1>2. ASSUME NEW m \in Nat, m \in S PROVE m + 1 \in S
  <2>1. ASSUME NEW t \in Seq(T), Len(t) = m + 1 PROVE Done(t)
    <3>1. t # <<>>
      BY <2>1, EmptySeq
    <3>2. PICK u \in Seq(T), y \in T : t = Append(u, y)
      BY <3>1, SequenceEmptyOrAppend
    <3>3. Len(u) = m
      <4>1. Len(t) = Len(u) + 1 /\ Len(u) \in Nat
        BY <3>2, AppendProperties, LenProperties
      <4> QED
        BY <2>1, <4>1
    <3>4. Done(u)
      BY <1>2, <3>3
    <3>5. PartRead(u) \in Seq(T) /\ DotRead(y) \in Seq(T) /\ PartRead(t) = PartRead(u) \o DotRead(y)
      BY <3>2, PartReadNext
    <3> SUFFICES ASSUME Stands(PartRead(t), s, n) PROVE Reads(s, n + Len(PartRead(t)), e, t)
      OBVIOUS
    <3>6. /\ Stands(PartRead(u), s, n) /\ Stands(DotRead(y), s, n + Len(PartRead(u)))
          /\ Len(PartRead(t)) = Len(PartRead(u)) + Len(DotRead(y))
      BY <3>5, StandsConcat
    <3>7. Reads(s, n + Len(PartRead(u)), e, u)
      BY <3>4, <3>6
    <3>8. Reads(s, (n + Len(PartRead(u))) + Len(DotRead(y)), e, t)
      BY <3>2, <3>6, <3>7, ReadSymbol
    <3>9. (n + Len(PartRead(u))) + Len(DotRead(y)) = n + Len(PartRead(t))
      BY <3>5, <3>6, LenProperties
    <3> QED
      BY <3>8, <3>9
  <2> HIDE DEF Done
  <2> QED
    BY <2>1
<1>3. Nat \subseteq S
  <2> HIDE DEF S
  <2> QED
    BY <1>1, <1>2, NatInductive
<1>4. Len(x) \in Nat
  BY LenProperties
<1>5. Done(x)
  <2> HIDE DEF Done
  <2> QED
    BY <1>3, <1>4
<1> QED
  BY <1>5

(* A dotted name, part by part.                                            *)
QualifiedPart(k, x) == IF k = 1 THEN PartRead(x) ELSE <<".">> \o PartRead(x)

LEMMA QualifiedNext ==
  ASSUME NEW T, "." \in T, NEW parts \in Seq(Seq(T)), NEW x \in Seq(T)
  PROVE  /\ Qualified(parts) \in Seq(T)
         /\ QualifiedPart(Len(parts) + 1, x) \in Seq(T)
         /\ Qualified(Append(parts, x)) = Qualified(parts) \o QualifiedPart(Len(parts) + 1, x)
<1> DEFINE n == Len(parts)
           t == Append(parts, x)
           ss == [k \in DOMAIN parts |-> QualifiedPart(k, parts[k])]
           tt == [k \in DOMAIN t |-> QualifiedPart(k, t[k])]
           y == QualifiedPart(n + 1, x)
<1>1. /\ n \in Nat /\ DOMAIN parts = 1..n /\ \A k \in 1..n : parts[k] \in Seq(T)
      /\ DOMAIN t = 1..(n + 1) /\ (\A k \in 1..n : t[k] = parts[k]) /\ t[n + 1] = x
  BY LenProperties, ElementOfSeq, AppendProperties
<1>2. ASSUME NEW k, NEW u \in Seq(T) PROVE QualifiedPart(k, u) \in Seq(T)
  <2>1. <<".">> \in Seq(T)
    OBVIOUS
  <2> QED
    BY <2>1, PartReadType, ConcatProperties DEF QualifiedPart
<1>3. ss \in Seq(Seq(T)) /\ Len(ss) = n
  <2>1. ss \in [1..n -> Seq(T)]
    BY <1>1, <1>2
  <2> HIDE DEF ss, n
  <2>2. ss \in Seq(Seq(T))
    BY <1>1, <2>1, SeqDef
  <2> QED
    BY <1>1, <2>1, <2>2, LenProperties
<1>4. y \in Seq(T)
  BY <1>2
<1> HIDE DEF t, y, n
<1>5. /\ Append(ss, y) \in Seq(Seq(T)) /\ Len(Append(ss, y)) = n + 1
      /\ \A k \in 1..n : Append(ss, y)[k] = ss[k]
      /\ Append(ss, y)[n + 1] = y
  <2> HIDE DEF ss
  <2> QED
    BY <1>3, <1>4, AppendProperties
<1>6. tt \in Seq(Seq(T)) /\ Len(tt) = n + 1
  <2>1. \A k \in 1..(n + 1) : t[k] \in Seq(T)
    BY <1>1
  <2>2. tt \in [1..(n + 1) -> Seq(T)]
    BY <1>1, <1>2, <2>1
  <2> HIDE DEF tt
  <2>3. tt \in Seq(Seq(T))
    BY <1>1, <2>2, SeqDef
  <2> QED
    BY <1>1, <2>2, <2>3, LenProperties
<1>7. ASSUME NEW k \in 1..(n + 1) PROVE tt[k] = Append(ss, y)[k]
  <2>1. CASE k \in 1..n
    BY <1>1, <1>5, <2>1
  <2>2. CASE k = n + 1
    BY <1>1, <1>5, <2>2 DEF y
  <2> QED
    BY <1>1, <2>1, <2>2
<1>8. tt = Append(ss, y)
  <2> HIDE DEF ss, tt
  <2> QED
    BY <1>5, <1>6, <1>7, SeqEqual
<1>9. Qualified(parts) = FlattenSeq(ss) /\ Qualified(t) = FlattenSeq(tt)
  BY DEF Qualified, QualifiedPart
<1> HIDE DEF ss, tt
<1> QED
  BY <1>3, <1>4, <1>8, <1>9, FlattenAppend, FlattenType DEF t, y, n

LEMMA QualifiedType ==
  ASSUME NEW T, "." \in T, NEW parts \in Seq(Seq(T))
  PROVE  Qualified(parts) \in Seq(T)
<1>1. <<>> \in Seq(T)
  BY EmptySeq
<1> QED
  BY <1>1, QualifiedNext

LEMMA QualifiedRead ==
  ASSUME NEW T, "." \in T, NEW s \in Seq(T), NEW parts \in Seq(Seq(T)), parts # <<>>,
         \A j \in 2..Len(parts) : parts[j] # <<>> /\ parts[j][1] # ".",
         Stands(Qualified(parts), s, 0)
  PROVE  \E e, d : Reads(s, Len(Qualified(parts)), e, d) /\ Append(e, d) = parts
<1> DEFINE Plainly(ps) == \A j \in 2..Len(ps) : ps[j] # <<>> /\ ps[j][1] # "."
           Done(ps) == ps # <<>> /\ Plainly(ps) /\ Stands(Qualified(ps), s, 0) =>
                         \E e, d : Reads(s, Len(Qualified(ps)), e, d) /\ Append(e, d) = ps
           S == {m \in Nat : \A ps \in Seq(Seq(T)) : Len(ps) = m => Done(ps)}
<1>1. 0 \in S
  <2>1. ASSUME NEW ps \in Seq(Seq(T)), Len(ps) = 0 PROVE Done(ps)
    BY <2>1, EmptySeq
  <2> HIDE DEF Done
  <2> QED
    BY <2>1
<1>2. ASSUME NEW m \in Nat, m \in S PROVE m + 1 \in S
  <2>1. ASSUME NEW ps \in Seq(Seq(T)), Len(ps) = m + 1, ps # <<>>, Plainly(ps), Stands(Qualified(ps), s, 0)
        PROVE  \E e, d : Reads(s, Len(Qualified(ps)), e, d) /\ Append(e, d) = ps
    <3>2. PICK qs \in Seq(Seq(T)), x \in Seq(T) : ps = Append(qs, x)
      BY <2>1, SequenceEmptyOrAppend
    <3> DEFINE n == Len(Qualified(qs))
    <3>3. /\ Len(qs) = m /\ Len(qs) \in Nat /\ ps[m + 1] = x /\ Len(ps) = m + 1
          /\ \A k \in 1..m : ps[k] = qs[k]
      <4>1. /\ Len(ps) = Len(qs) + 1 /\ Len(qs) \in Nat /\ ps[Len(qs) + 1] = x
            /\ \A k \in 1..Len(qs) : ps[k] = qs[k]
        BY <3>2, AppendProperties, LenProperties
      <4>2. Len(qs) = m
        BY <2>1, <4>1
      <4> QED
        BY <2>1, <4>1, <4>2
    <3>4. Plainly(qs) /\ (m # 0 => x # <<>> /\ x[1] # ".")
      <4>1. \A j \in 2..Len(qs) : j \in 1..m /\ j \in 2..Len(ps)
        BY <3>3
      <4>2. m # 0 => m + 1 \in 2..Len(ps)
        BY <3>3
      <4> QED
        BY <2>1, <3>3, <4>1, <4>2
    <3>5. /\ Qualified(qs) \in Seq(T) /\ QualifiedPart(m + 1, x) \in Seq(T)
          /\ Qualified(ps) = Qualified(qs) \o QualifiedPart(m + 1, x)
      <4>1. /\ Qualified(qs) \in Seq(T) /\ QualifiedPart(Len(qs) + 1, x) \in Seq(T)
            /\ Qualified(Append(qs, x)) = Qualified(qs) \o QualifiedPart(Len(qs) + 1, x)
        BY QualifiedNext
      <4> QED
        BY <3>2, <3>3, <4>1
    <3>6. n \in Nat /\ Len(s) \in Nat
      BY <3>5, LenProperties
    <3>7. /\ Stands(Qualified(qs), s, 0) /\ Stands(QualifiedPart(m + 1, x), s, n)
          /\ Len(Qualified(ps)) = n + Len(QualifiedPart(m + 1, x))
      <4>1. 0 + n = n
        BY <3>6
      <4> HIDE DEF n
      <4>2. /\ Stands(Qualified(qs), s, 0) /\ Stands(QualifiedPart(m + 1, x), s, 0 + Len(Qualified(qs)))
            /\ Len(Qualified(ps)) = Len(Qualified(qs)) + Len(QualifiedPart(m + 1, x))
        BY <2>1, <3>5, StandsConcat
      <4> QED
        BY <4>1, <4>2 DEF n
    <3> HIDE DEF Plainly
    <3>8. CASE m = 0
      <4>1. qs = <<>> /\ QualifiedPart(m + 1, x) = PartRead(x)
        BY <3>3, <3>8, EmptySeq DEF QualifiedPart
      <4>2. Qualified(qs) = <<>>
        <5>1. DOMAIN qs = {}
          BY <4>1
        <5>2. [k \in DOMAIN qs |-> IF k = 1 THEN PartRead(qs[k]) ELSE <<".">> \o PartRead(qs[k])] = <<>>
          BY <5>1
        <5> QED
          BY <5>2, FlattenNone DEF Qualified
      <4>3. n = 0
        BY <4>2, EmptySeq
      <4>4. Reads(s, 0, <<>>, <<>>)
        BY <3>6, SplitReads DEF Reads, SplitStart
      <4>5. Reads(s, 0 + Len(PartRead(x)), <<>>, x)
        <5>1. Stands(PartRead(x), s, 0) /\ 0 \in Nat
          BY <3>7, <4>1, <4>3
        <5> QED
          BY <4>4, <5>1, ReadPart
      <4>6. 0 + Len(PartRead(x)) = Len(Qualified(ps))
        BY <3>7, <4>1, <4>3
      <4>7. Append(<<>>, x) = ps
        BY <3>2, <4>1
      <4> QED
        BY <4>5, <4>6, <4>7
    <3>9. CASE m # 0
      <4> DEFINE t == PartRead(x)
      <4>1. QualifiedPart(m + 1, x) = <<".">> \o t
        BY <3>9 DEF QualifiedPart
      <4>2. qs # <<>>
        BY <3>3, <3>9, EmptySeq
      <4>3. Done(qs)
        BY <1>2, <3>3
      <4>4. PICK e, d : Reads(s, n, e, d) /\ Append(e, d) = qs
        BY <3>4, <3>7, <4>2, <4>3
      <4>5. t \in Seq(T) /\ t # <<>> /\ t[1] # "." /\ Len(t) \in Nat \ {0} /\ <<".">> \in Seq(T)
            /\ Len(<<".">>) = 1 /\ <<".">>[1] = "."
        <5>1. t \in Seq(T) /\ t # <<>> /\ t[1] = x[1]
          BY <3>4, <3>9, PartReadType
        <5>2. Len(t) \in Nat \ {0}
          BY <5>1, EmptySeq
        <5>3. <<".">> \in Seq(T) /\ Len(<<".">>) = 1 /\ <<".">>[1] = "."
          OBVIOUS
        <5> QED
          BY <3>4, <3>9, <5>1, <5>2, <5>3
      <4> HIDE DEF t, n
      <4>6. Stands(<<".">>, s, n) /\ Stands(t, s, n + 1) /\ Len(<<".">> \o t) = 1 + Len(t)
        <5> DEFINE dot == <<".">>
        <5>1. Stands(dot \o t, s, n) /\ dot \in Seq(T) /\ Len(dot) = 1
          BY <3>7, <4>1, <4>5
        <5>2. t \in Seq(T) /\ n \in Nat
          BY <3>6, <4>5
        <5> HIDE DEF dot
        <5>3. \A y, z \in Seq(T) : Stands(y \o z, s, n) =>
                Stands(y, s, n) /\ Stands(z, s, n + Len(y)) /\ Len(y \o z) = Len(y) + Len(z)
          BY <5>2, StandsHalves, Zenon
        <5>4. Stands(dot, s, n) /\ Stands(t, s, n + Len(dot)) /\ Len(dot \o t) = Len(dot) + Len(t)
          BY <5>1, <5>2, <5>3
        <5> QED
          BY <5>1, <5>4 DEF dot
      <4>7. s[n + 1] = "." /\ s[(n + 1) + 1] = t[1] /\ (n + 1) + Len(t) <= Len(s)
        BY <4>5, <4>6 DEF Stands
      <4>8. n + 1 < Len(s) /\ s[n + 2] # "." /\ n + 1 \in Nat /\ (n + 1) + 1 = n + 2
        BY <3>6, <4>5, <4>7
      <4>9. Reads(s, n + 1, qs, <<>>)
        BY <4>4, <4>7, <4>8, ReadDot
      <4>10. Reads(s, (n + 1) + Len(t), qs, x)
        BY <4>6, <4>8, <4>9, ReadPart DEF t
      <4>11. (n + 1) + Len(t) = Len(Qualified(ps))
        <5>1. Len(Qualified(ps)) = n + (1 + Len(t))
          BY <3>7, <4>1, <4>6
        <5> QED
          BY <3>6, <4>5, <5>1
      <4> QED
        BY <3>2, <4>10, <4>11
    <3> QED
      BY <3>8, <3>9
  <2>2. ASSUME NEW ps \in Seq(Seq(T)), Len(ps) = m + 1 PROVE Done(ps)
    BY <2>1, <2>2
  <2> HIDE DEF Done
  <2> QED
    BY <2>2
<1>3. Nat \subseteq S
  <2> HIDE DEF S
  <2> QED
    BY <1>1, <1>2, NatInductive
<1>4. Len(parts) \in Nat
  BY LenProperties
<1>5. Done(parts)
  <2> HIDE DEF Done
  <2> QED
    BY <1>3, <1>4
<1> QED
  BY <1>5

(* A dotted name is split into the parts that it was written from, however *)
(* many there are and whatever they hold, unless a later one is empty or   *)
(* starts with a dot.  (Expand, expr.go:43-68)                             *)
THEOREM SplitsWhatWasJoined ==
  ASSUME NEW parts \in Seq(Seq(Symbols)), parts # <<>>,
         \A j \in 2..Len(parts) : parts[j] # <<>> /\ parts[j][1] # "."
  PROVE  Split(Qualified(parts)) = parts
<1> DEFINE T == Symbols \cup {"."}
           s == Qualified(parts)
<1>1. parts \in Seq(Seq(T))
  <2>1. Len(parts) \in Nat /\ \A k \in 1..Len(parts) : parts[k] \in Seq(Symbols)
    BY LenProperties, ElementOfSeq
  <2>2. \A k \in 1..Len(parts) : parts[k] \in Seq(T)
    BY <2>1, SeqMonotonic
  <2> HIDE DEF T
  <2> QED
    BY <2>1, <2>2, SeqIs, SeqWithin, IsSeqFacts
<1>2. "." \in T
  OBVIOUS
<1> HIDE DEF T
<1>3. s \in Seq(T)
  BY <1>1, <1>2, QualifiedType
<1>4. Len(s) \in Nat
  BY <1>3, LenProperties
<1>5. Stands(s, s, 0)
  BY <1>4 DEF Stands
<1>6. PICK e, d : Reads(s, Len(s), e, d) /\ Append(e, d) = parts
  <2> HIDE DEF s
  <2> QED
    BY <1>1, <1>2, <1>3, <1>5, QualifiedRead DEF s
<1> HIDE DEF s
<1>7. Split(s) = Append(e, d)
  BY <1>6 DEF Reads, Split
<1> QED
  BY <1>6, <1>7 DEF s

-----------------------------------------------------------------------------
(* How many things there are, and when.                                    *)
Sized ==
  /\ IsSeq(objs)
  /\ ~sent => Len(objs) <= MaxObjects
  /\ ~sent /\ mode # "idle" => Len(objs) < MaxObjects
  /\ clauses \in 0..MaxClauses

LEMMA LaterIsSeq ==
  ASSUME NEW s, IsSeq(s), NEW t, DOMAIN t = DOMAIN s, t = [k \in DOMAIN t |-> t[k]]
  PROVE  IsSeq(t) /\ Len(t) = Len(s)
<1>1. Len(s) \in Nat /\ DOMAIN s = 1..Len(s)
  BY IsSeqFacts
<1> QED
  BY <1>1, FunctionIsSeq

LEMMA FourIsSeq ==
  ASSUME NEW x, NEW y, NEW z, NEW u
  PROVE  /\ IsSeq(<<x, y, z, u>>) /\ Len(<<x, y, z, u>>) = 4
         /\ <<x, y, z, u>>[1] = x /\ <<x, y, z, u>>[2] = y /\ <<x, y, z, u>>[3] = z /\ <<x, y, z, u>>[4] = u
<1>1. <<x, y, z, u>> \in Seq({x, y, z, u})
  OBVIOUS
<1> QED
  BY <1>1, SeqIs

(* Whoever makes something.                                                *)
LEMMA Makes ==
  ASSUME Room, MakeSomething
  PROVE  \/ \E q \in Calls : Call(q)
         \/ \E v, means, refused, uses : Make(v, means, refused, uses) /\ UNCHANGED <<mode, clauses>>
<1>1. ASSUME NEW and, NEW ks, NEW r, Made(and, ks, r)
      PROVE  \E v, means, refused, uses : Make(v, means, refused, uses) /\ UNCHANGED <<mode, clauses>>
  BY <1>1 DEF Made
<1>2. ASSUME NEW k, NotOf(k)
      PROVE  \E v, means, refused, uses : Make(v, means, refused, uses) /\ UNCHANGED <<mode, clauses>>
  BY <1>2 DEF NotOf
<1>3. ASSUME NEW kind, NEW j, NewStatement(kind) \/ NewUsual(kind, j)
      PROVE  \E v, means, refused, uses : Make(v, means, refused, uses) /\ UNCHANGED <<mode, clauses>>
  BY <1>3 DEF NewStatement, NewUsual
<1>4. \A q \in (IF objs = <<>> THEN Calls ELSE Building) : q \in Calls
  BY QueryConstants
<1> HIDE DEF Make
<1> QED
  BY <1>1, <1>2, <1>3, <1>4 DEF MakeSomething, MakeAnything, ExtendLatest, Connect, Chain

(* Whoever calls a builder.                                                *)
LEMMA Builds ==
  ASSUME CallBuilder
  PROVE  /\ \/ \E x, items, uses : Build(x, items, uses)
            \/ SetLimit \/ SetOffset
         /\ Called
<1>1. \/ \E x, items, uses : Build(x, items, uses)
      \/ SetLimit \/ SetOffset
  BY DEF CallBuilder, BuildList, BuildFilter, BuildJoin, BuildSet, BuildColumn, BuildRow
<1>2. Called
  BY <1>1 DEF Build, SetLimit, SetOffset
<1> QED
  BY <1>1, <1>2

LEMMA BuildsOne ==
  ASSUME CallBuilder
  PROVE  DOMAIN objs' = DOMAIN objs /\ objs' = [k \in DOMAIN objs' |-> objs'[k]]
<1>1. CASE \E x, items, uses : Build(x, items, uses)
  BY <1>1 DEF Build
<1>2. CASE SetLimit
  BY <1>2 DEF SetLimit
<1>3. CASE SetOffset
  BY <1>3 DEF SetOffset
<1> QED
  BY <1>1, <1>2, <1>3, Builds

LEMMA SizedStep == Sized /\ [RelationNext]_<<vars, sent>> => Sized'
<1> SUFFICES ASSUME Sized, [RelationNext]_<<vars, sent>> PROVE Sized'
  OBVIOUS
<1>0. IsSeq(objs) /\ Len(objs) \in Nat /\ MaxObjects \in Nat /\ MaxClauses \in Nat /\ clauses \in 0..MaxClauses
  BY IsSeqFacts, QueryConstants DEF Sized
<1>1. ASSUME NEW r \in Relations, NEW columns \in Selections, SelectRelation(r, columns) PROVE Sized'
  <2>1. sent' = TRUE /\ clauses' = clauses /\ objs' = MadeFor(r, columns)
    BY <1>1 DEF SelectRelation
  <2>2. IsSeq(objs')
    BY <2>1, TwoIsSeq, FourIsSeq DEF MadeFor
  <2> QED
    BY <1>0, <2>1, <2>2 DEF Sized, IsSeq
<1>2. ASSUME ~sent, UNCHANGED sent, Room /\ MakeSomething PROVE Sized'
  <2>1. ASSUME NEW q, Call(q) PROVE Sized'
    <3>1. UNCHANGED <<objs, clauses>>
      BY <2>1 DEF Call
    <3> QED
      BY <1>0, <1>2, <3>1 DEF Sized, IsSeq, Room
  <2>2. ASSUME NEW v, NEW means, NEW refused, NEW uses, Make(v, means, refused, uses), UNCHANGED <<mode, clauses>>
        PROVE Sized'
    <3>1. mode = "idle" /\ Len(objs) < MaxObjects
      BY <1>2 DEF Room, Idle
    <3>2. IsSeq(objs') /\ Len(objs') = Len(objs) + 1
      BY <1>0, <2>2, AppendIsSeq DEF Make
    <3> QED
      BY <1>0, <1>2, <2>2, <3>1, <3>2 DEF Sized, IsSeq
  <2> QED
    BY <1>2, <2>1, <2>2, Makes
<1>3. ASSUME ~sent, UNCHANGED sent, ScanStep PROVE Sized'
  <2>1. mode # "idle"
    BY <1>3 DEF ScanStep, Scan, DoubledSign, OpenName, NameSymbol, CloseName, TakeArgument, Literal,
                Refuse, Accept
  <2>2. UNCHANGED <<objs, clauses>>
    BY <1>3 DEF ScanStep
  <2> QED
    BY <1>3, <2>1, <2>2 DEF Sized, IsSeq
<1>4. ASSUME ~sent, UNCHANGED sent, NEW neg \in BOOLEAN, Return(neg) PROVE Sized'
  <2>1. mode # "idle" /\ mode' = "idle" /\ UNCHANGED clauses
    BY <1>4 DEF Return, Leave
  <2>2. Len(objs) < MaxObjects
    BY <1>4, <2>1 DEF Sized
  <2>3. IsSeq(objs') /\ Len(objs') = Len(objs) + 1
    BY <1>0, <1>4, AppendIsSeq DEF Return, Make
  <2> QED
    BY <1>0, <1>4, <2>1, <2>2, <2>3 DEF Sized, IsSeq
<1>5. ASSUME ~sent, UNCHANGED sent, Chaining /\ CallBuilder PROVE Sized'
  <2>1. mode' = mode /\ clauses' = clauses + 1 /\ clauses < MaxClauses
    BY <1>5, Builds DEF Called, Chaining
  <2>2. IsSeq(objs') /\ Len(objs') = Len(objs)
    BY <1>0, <1>5, BuildsOne, LaterIsSeq
  <2> QED
    BY <1>0, <1>5, <2>1, <2>2 DEF Sized, IsSeq
<1>6. CASE UNCHANGED <<vars, sent>>
  BY <1>6 DEF Sized, IsSeq, vars
<1> QED
  BY <1>1, <1>2, <1>3, <1>4, <1>5, <1>6 DEF RelationNext, SelectRelations, Next

LEMMA SizedAlways == RelationSpec => []Sized
<1>1. RelationInit => Sized
  BY NoneIsSeq, QueryConstants DEF RelationInit, Init, ScanInit, Sized
<1> QED
  BY <1>1, SizedStep, PTL DEF RelationSpec

-----------------------------------------------------------------------------
(* The program drives the scanner as ScanSpec says.                        *)
LEMMA CallBegins ==
  ASSUME Sized, ~sent, Room, NEW q \in Calls, Call(q)
  PROVE  /\ UNCHANGED <<objs, heap, clauses>>
         /\ \E f \in Formats \cup {<<>>}, v \in Seq(Args) :
              /\ Begin(f, v)
              /\ \A j \in DOMAIN v : v[j].expression => v[j].value \in DOMAIN objs
<1>1. PICK at \in Nestable \cup {0} :
        /\ at = 0 <=> \A j \in DOMAIN q.args : ~q.args[j].expression
        /\ Begin(q.format, [j \in DOMAIN q.args |->
                             IF q.args[j].expression THEN [expression |-> TRUE, value |-> at] ELSE q.args[j]])
  BY DEF Call
<1> DEFINE x == [expression |-> TRUE, value |-> at]
           v == [j \in DOMAIN q.args |-> IF q.args[j].expression THEN x ELSE q.args[j]]
<1>2. q.format \in Formats \cup {<<>>} /\ q.args \in Seq(Args)
  BY QueryConstants
<1>3. Len(q.args) \in Nat /\ DOMAIN q.args = 1..Len(q.args) /\ \A j \in DOMAIN q.args : q.args[j] \in Args
  BY <1>2, LenProperties, ElementOfSeq
<1>4. at # 0 => at \in DOMAIN objs /\ x \in Args
  <2>1. Len(objs) \in Nat /\ DOMAIN objs = 1..Len(objs) /\ Len(objs) <= MaxObjects /\ MaxObjects \in Nat
    BY IsSeqFacts, QueryConstants DEF Sized
  <2>2. at # 0 => at \in DOMAIN objs
    BY DEF Nestable
  <2> QED
    BY <2>1, <2>2, QueryConstants
<1>5. ASSUME NEW j \in DOMAIN v PROVE v[j] \in Args /\ (v[j].expression => v[j].value \in DOMAIN objs)
  <2>1. j \in DOMAIN q.args /\ v[j] = IF q.args[j].expression THEN x ELSE q.args[j]
    OBVIOUS
  <2>2. CASE q.args[j].expression
    <3>1. v[j] = x /\ at # 0
      BY <1>1, <2>1, <2>2
    <3>2. x.value = at
      OBVIOUS
    <3> QED
      BY <1>4, <3>1, <3>2
  <2>3. CASE ~q.args[j].expression
    <3>1. v[j] = q.args[j]
      BY <2>1, <2>3
    <3> QED
      BY <1>3, <2>1, <2>3, <3>1
  <2> QED
    BY <2>2, <2>3
<1>6. DOMAIN v = 1..Len(q.args) /\ v = [j \in 1..Len(q.args) |-> v[j]]
  BY <1>3
<1>7. Begin(q.format, v)
  BY <1>1
<1> HIDE DEF v
<1>8. v \in Seq(Args)
  BY <1>3, <1>5, <1>6, FunctionIsSeq, SeqWithin
<1>9. UNCHANGED <<objs, heap, clauses>>
  BY DEF Call
<1> QED
  BY <1>2, <1>5, <1>7, <1>8, <1>9

LEMMA RelationScans == Sized /\ [RelationNext]_<<vars, sent>> => [ScanNext]_scan
<1> SUFFICES ASSUME Sized, [RelationNext]_<<vars, sent>> PROVE [ScanNext]_scan
  OBVIOUS
<1>1. ASSUME NEW r \in Relations, NEW columns \in Selections, SelectRelation(r, columns) PROVE UNCHANGED scan
  BY <1>1 DEF SelectRelation, scan
<1>2. ASSUME ~sent, Room /\ MakeSomething PROVE [ScanNext]_scan
  <2>1. ASSUME NEW q \in Calls, Call(q) PROVE ScanNext
    BY <1>2, <2>1, CallBegins DEF ScanNext
  <2>2. ASSUME NEW and, NEW ks, NEW r, Made(and, ks, r) PROVE UNCHANGED scan
    BY <2>2 DEF Made, scan
  <2>3. ASSUME NEW k, NotOf(k) PROVE UNCHANGED scan
    BY <2>3 DEF NotOf, scan
  <2>4. ASSUME NEW kind, NEW j, NewStatement(kind) \/ NewUsual(kind, j) PROVE UNCHANGED scan
    BY <2>4 DEF NewStatement, NewUsual, scan
  <2>5. \A q \in (IF objs = <<>> THEN Calls ELSE Building) : q \in Calls
    BY QueryConstants
  <2> QED
    BY <1>2, <2>1, <2>2, <2>3, <2>4, <2>5 DEF MakeSomething, MakeAnything, ExtendLatest, Connect, Chain
<1>3. CASE ScanStep
  BY <1>3 DEF ScanStep, ScanNext
<1>4. ASSUME NEW neg \in BOOLEAN, Return(neg) PROVE ScanNext
  BY <1>4 DEF Return, ScanNext
<1>5. CASE CallBuilder
  BY <1>5, Builds DEF Called, scan
<1>6. CASE UNCHANGED <<vars, sent>>
  BY <1>6 DEF vars, scan
<1> QED
  BY <1>1, <1>2, <1>3, <1>4, <1>5, <1>6 DEF RelationNext, SelectRelations, Next

LEMMA ProgramScans == RelationSpec => ScanSpec
<1>1. RelationInit => ScanInit
  BY DEF RelationInit, Init
<1> QED
  BY <1>1, RelationScans, SizedAlways, PTL DEF RelationSpec, ScanSpec

(* Programs read templates as the scanner does on its own: what is written *)
(* out again is the format.  (newExpr, called by Expr, Cond and Not)       *)
THEOREM ProgramsReadBack == RelationSpec => []ReadsBack
  BY ProgramScans, TemplatesReadBack

-----------------------------------------------------------------------------
(* What the things made look like.  n bounds the places that one refers    *)
(* to, h is the heap, and cs are the places of conditions.                 *)
CondOK(v, n) ==
  /\ v.kind = "cond"
  /\ v = [kind |-> "cond", not |-> v.not, failed |-> v.failed, a |-> v.a, b |-> v.b]
  /\ v.not \in BOOLEAN /\ v.failed \in BOOLEAN
  /\ IsSeq(v.a) /\ IsSeq(v.b)
  /\ Count(v.a, Slot, Len(v.a)) = Len(v.b)
  /\ \A k \in DOMAIN v.b :
       /\ v.b[k].type \in {"identifier", "marker", "expression"}
       /\ IsSeq(v.b[k].name)
       /\ v.b[k].type = "expression" => v.b[k].value \in 1..n

LogicOK(v, h) ==
  /\ v.kind = "logic"
  /\ v = [kind |-> "logic", and |-> v.and, failed |-> v.failed, array |-> v.array, len |-> v.len]
  /\ v.and \in BOOLEAN /\ v.failed \in BOOLEAN
  /\ v.array \in DOMAIN h
  /\ v.len \in Nat /\ v.len <= Len(h[v.array].of)

ConditionOK(v, n, h) == CondOK(v, n) \/ LogicOK(v, h)

ArrayOK(x, n, h) ==
  /\ x = [of |-> x.of, room |-> x.room]
  /\ IsSeq(x.of)
  /\ \A k \in DOMAIN x.of : ConditionOK(x.of[k], n, h)

(* The items of a statement.                                               *)
StringOK(x)        == x.is = "string" /\ IsSeq(x.s)
ObjectOK(x, n)     == x.is = "object" /\ x.k \in 1..n
FilterOK(x, n, cs) == ObjectOK(x, n) /\ x.k \in cs
ItemOK(x, n)       == StringOK(x) \/ ObjectOK(x, n) \/ x = Neither
JoinOK(x, n, cs) ==
  /\ StringOK(x.to) \/ ObjectOK(x.to, n)
  /\ IsSeq(x.by)
  /\ \A k \in DOMAIN x.by : StringOK(x.by[k]) \/ FilterOK(x.by[k], n, cs) \/ x.by[k] = Neither
SetOK(x, n) == x.to.is = "value" \/ ObjectOK(x.to, n)

ClauseOK(x, item, n, cs) ==
  CASE x = "Join"                -> JoinOK(item, n, cs)
    [] x \in {"Where", "Having"} -> FilterOK(item, n, cs)
    [] x = "Set"                 -> SetOK(item, n)
    [] x = "Columns"             -> TRUE
    [] x = "Values"              -> IsSeq(item)
    [] OTHER                     -> ItemOK(item, n)

(* The places that an item refers to, and a statement.                     *)
PlacesOf(x) == IF x.is = "object" THEN {x.k} ELSE {}
ItemUses(x, item) ==
  CASE x = "Join" -> PlacesOf(item.to) \cup UNION {PlacesOf(item.by[k]) : k \in DOMAIN item.by}
    [] x = "Set"  -> PlacesOf(item.to)
    [] x \in {"Columns", "Values"} -> {}
    [] OTHER      -> PlacesOf(item)
ClauseUses(x, items) == UNION {ItemUses(x, items[k]) : k \in DOMAIN items}
UsesOf(v) == UNION {ClauseUses(x, v.cl[x]) : x \in BuildersOf(v.kind)}

Kinds == {"select", "insert", "update", "delete"}
StatementOK(v, n, cs) ==
  /\ v.kind \in Kinds
  /\ v = [kind |-> v.kind, cl |-> v.cl, limit |-> v.limit, offset |-> v.offset]
  /\ v.cl = [x \in BuildersOf(v.kind) |-> v.cl[x]]
  /\ \A x \in BuildersOf(v.kind) :
       /\ IsSeq(v.cl[x])
       /\ \A k \in DOMAIN v.cl[x] : ClauseOK(x, v.cl[x][k], n, cs)

ThingOK(x, n, h, cs) ==
  /\ x = [v |-> x.v, means |-> x.means, refused |-> x.refused, uses |-> x.uses]
  /\ x.refused \in BOOLEAN
  /\ x.uses \subseteq 1..n
  /\ \/ ConditionOK(x.v, n, h)
     \/ StatementOK(x.v, n, cs) /\ x.uses = UsesOf(x.v) /\ ~x.refused

WellMade ==
  /\ IsSeq(objs) /\ IsSeq(heap)
  /\ \A k \in DOMAIN objs : ThingOK(objs[k], k - 1, heap, Places)
  /\ \A m \in DOMAIN heap : ArrayOK(heap[m], Len(objs) - 1, heap)

(* The arguments in hand are among the things made.                        *)
ArgumentsMade == \A j \in DOMAIN args : args[j].expression => args[j].value \in DOMAIN objs

-----------------------------------------------------------------------------
(* What was well made stays so when there is more.                         *)
More(g, h) == \A m \in DOMAIN g : m \in DOMAIN h /\ h[m] = g[m]

LEMMA ConditionMore ==
  ASSUME NEW v, NEW n, NEW m, 1..n \subseteq 1..m, NEW g, NEW h, More(g, h), ConditionOK(v, n, g)
  PROVE  ConditionOK(v, m, h)
<1>1. CASE CondOK(v, n)
  <2>1. CondOK(v, m)
    BY <1>1 DEF CondOK
  <2> QED
    BY <2>1 DEF ConditionOK
<1>2. CASE LogicOK(v, g)
  <2>1. LogicOK(v, h)
    BY <1>2 DEF LogicOK, More
  <2> QED
    BY <2>1 DEF ConditionOK
<1> QED
  BY <1>1, <1>2 DEF ConditionOK

LEMMA ArrayMore ==
  ASSUME NEW x, NEW n, NEW m, 1..n \subseteq 1..m, NEW g, NEW h, More(g, h), ArrayOK(x, n, g)
  PROVE  ArrayOK(x, m, h)
<1>1. \A k \in DOMAIN x.of : ConditionOK(x.of[k], m, h)
  BY ConditionMore DEF ArrayOK
<1> QED
  BY <1>1 DEF ArrayOK

LEMMA ClauseMore ==
  ASSUME NEW x, NEW item, NEW n, NEW cs, NEW ds, cs \subseteq ds, ClauseOK(x, item, n, cs)
  PROVE  ClauseOK(x, item, n, ds)
<1>1. CASE x = "Join"
  BY <1>1 DEF ClauseOK, JoinOK, FilterOK
<1>2. CASE x \in {"Where", "Having"}
  BY <1>2 DEF ClauseOK, FilterOK
<1>3. CASE x \notin {"Join", "Where", "Having"}
  BY <1>3 DEF ClauseOK
<1> QED
  BY <1>1, <1>2, <1>3

LEMMA ThingMore ==
  ASSUME NEW x, NEW n, NEW g, NEW h, More(g, h), NEW cs, NEW ds, cs \subseteq ds, ThingOK(x, n, g, cs)
  PROVE  ThingOK(x, n, h, ds)
<1>1. ConditionOK(x.v, n, g) => ConditionOK(x.v, n, h)
  BY ConditionMore
<1>2. StatementOK(x.v, n, cs) => StatementOK(x.v, n, ds)
  BY ClauseMore DEF StatementOK
<1> QED
  BY <1>1, <1>2 DEF ThingOK

LEMMA Kind ==
  ASSUME NEW v, NEW n, NEW h, NEW cs
  PROVE  /\ ConditionOK(v, n, h) => IsCondition(v)
         /\ StatementOK(v, n, cs) => ~IsCondition(v)
<1>1. ConditionOK(v, n, h) => IsCondition(v)
  BY DEF ConditionOK, CondOK, LogicOK, IsCondition
<1>2. StatementOK(v, n, cs) => ~IsCondition(v)
  BY DEF StatementOK, Kinds, IsCondition
<1> QED
  BY <1>1, <1>2

(* A condition of the program, and one in an array.                        *)
LEMMA PlaceOK ==
  ASSUME WellMade, NEW k \in Places
  PROVE  /\ k \in 1..Len(objs) /\ Len(objs) \in Nat /\ k \in DOMAIN objs
         /\ IsCondition(objs[k].v)
         /\ ConditionOK(objs[k].v, k - 1, heap)
         /\ objs[k].uses \subseteq 1..(k - 1)
<1>1. k \in DOMAIN objs /\ IsCondition(objs[k].v)
  BY DEF Places
<1>2. Len(objs) \in Nat /\ DOMAIN objs = 1..Len(objs)
  BY IsSeqFacts DEF WellMade
<1>3. ThingOK(objs[k], k - 1, heap, Places)
  BY <1>1 DEF WellMade
<1> QED
  BY <1>1, <1>2, <1>3, Kind DEF ThingOK

(* Something more is made, and arrays with it.                             *)
LEMMA WellMadeMore ==
  ASSUME WellMade, NEW v, NEW means, NEW refused, NEW uses, Make(v, means, refused, uses),
         refused \in BOOLEAN, uses \subseteq 1..Len(objs),
         \/ ConditionOK(v, Len(objs), heap')
         \/ StatementOK(v, Len(objs), Places) /\ uses = UsesOf(v) /\ ~refused,
         IsSeq(heap'), More(heap, heap'),
         \A m \in DOMAIN heap' \ DOMAIN heap : ArrayOK(heap'[m], Len(objs), heap')
  PROVE  WellMade'
<1> DEFINE x == [v |-> v, means |-> means, refused |-> refused, uses |-> uses]
           n == Len(objs)
<1>1. IsSeq(objs) /\ n \in Nat /\ DOMAIN objs = 1..n
  BY IsSeqFacts DEF WellMade
<1>2. objs' = Append(objs, x)
  BY DEF Make
<1>3. /\ IsSeq(objs') /\ Len(objs') = n + 1 /\ DOMAIN objs' = 1..(n + 1)
      /\ (\A k \in 1..n : objs'[k] = objs[k]) /\ objs'[n + 1] = x
  BY <1>1, <1>2, AppendIsSeq
<1>4. Places \subseteq Places'
  BY <1>1, <1>3 DEF Places, IsCondition
<1>5. x.v = v /\ x.means = means /\ x.refused = refused /\ x.uses = uses
  OBVIOUS
<1> HIDE DEF x
<1>6. ThingOK(x, n, heap', Places')
  <2>1. StatementOK(v, n, Places) => StatementOK(v, n, Places')
    BY <1>4, ClauseMore DEF StatementOK
  <2>2. x = [v |-> x.v, means |-> x.means, refused |-> x.refused, uses |-> x.uses]
    BY DEF x
  <2> QED
    BY <1>5, <2>1, <2>2 DEF ThingOK
<1>7. ASSUME NEW k \in DOMAIN objs' PROVE ThingOK(objs'[k], k - 1, heap', Places')
  <2>1. CASE k \in 1..n
    <3>1. ThingOK(objs[k], k - 1, heap, Places)
      BY <1>1, <2>1 DEF WellMade
    <3>2. ThingOK(objs[k], k - 1, heap', Places')
      BY <1>4, <3>1, ThingMore
    <3> QED
      BY <1>3, <2>1, <3>2
  <2>2. CASE k = n + 1
    <3>1. k - 1 = n
      BY <1>1, <2>2
    <3> QED
      BY <1>3, <1>6, <2>2, <3>1
  <2> QED
    BY <1>1, <1>3, <2>1, <2>2
<1>8. ASSUME NEW m \in DOMAIN heap' PROVE ArrayOK(heap'[m], n, heap')
  <2>1. CASE m \in DOMAIN heap
    <3>1. ArrayOK(heap[m], n - 1, heap) /\ heap'[m] = heap[m]
      BY <2>1 DEF WellMade, More
    <3>2. 1..(n - 1) \subseteq 1..n
      BY <1>1
    <3> HIDE DEF n
    <3> QED
      BY <3>1, <3>2, ArrayMore
  <2> QED
    BY <2>1
<1>9. Len(objs') - 1 = n
  BY <1>1, <1>3
<1> HIDE DEF n
<1> QED
  BY <1>3, <1>7, <1>8, <1>9 DEF WellMade, IsSeq

-----------------------------------------------------------------------------
(* Arrays of operands.                                                     *)
LEMMA HeapFacts ==
  ASSUME WellMade
  PROVE  /\ Len(heap) \in Nat /\ DOMAIN heap = 1..Len(heap)
         /\ Len(objs) \in Nat /\ DOMAIN objs = 1..Len(objs)
         /\ \A m \in DOMAIN heap :
              /\ IsSeq(heap[m].of) /\ Len(heap[m].of) \in Nat /\ DOMAIN heap[m].of = 1..Len(heap[m].of)
              /\ \A k \in DOMAIN heap[m].of : ConditionOK(heap[m].of[k], Len(objs) - 1, heap)
  BY IsSeqFacts DEF WellMade, ArrayOK

LEMMA OperandsAre ==
  ASSUME WellMade, NEW v, LogicOK(v, heap)
  PROVE  /\ IsSeq(Operands(v)) /\ Len(Operands(v)) = v.len /\ DOMAIN Operands(v) = 1..v.len
         /\ \A k \in 1..v.len : /\ Operands(v)[k] = heap[v.array].of[k]
                                /\ k \in DOMAIN heap[v.array].of
                                /\ ConditionOK(Operands(v)[k], Len(objs) - 1, heap)
<1> DEFINE of == heap[v.array].of
           S == ToSet(of)
<1>1. /\ v.array \in DOMAIN heap /\ v.len \in Nat /\ v.len <= Len(of)
      /\ Len(of) \in Nat /\ DOMAIN of = 1..Len(of)
      /\ \A k \in DOMAIN of : ConditionOK(of[k], Len(objs) - 1, heap)
  BY HeapFacts DEF LogicOK
<1>2. \A k \in 1..v.len : k \in DOMAIN of /\ of[k] \in S
  BY <1>1 DEF ToSet
<1> HIDE DEF S
<1>3. /\ SubSeq(of, 1, v.len) \in Seq(S)
      /\ Len(SubSeq(of, 1, v.len)) = IF 1 <= v.len THEN (v.len - 1) + 1 ELSE 0
      /\ \A k \in 1..((v.len - 1) + 1) : SubSeq(of, 1, v.len)[k] = of[(1 + k) - 1]
  BY <1>1, <1>2, SubSeqProperties
<1>4. Len(SubSeq(of, 1, v.len)) = v.len /\ \A k \in 1..v.len : SubSeq(of, 1, v.len)[k] = of[k]
  BY <1>1, <1>3
<1>5. IsSeq(SubSeq(of, 1, v.len)) /\ DOMAIN SubSeq(of, 1, v.len) = 1..v.len
  BY <1>3, <1>4, SeqIs, LenProperties
<1> QED
  BY <1>1, <1>2, <1>4, <1>5 DEF Operands

(* A connective is made, with an array of its own.                         *)
LEMMA LogicMade ==
  ASSUME WellMade, NEW vs, IsSeq(vs), \A k \in DOMAIN vs : ConditionOK(vs[k], Len(objs), heap),
         NEW and \in BOOLEAN, NEW failed \in BOOLEAN, NEW room, NEW means, NEW uses, uses \subseteq 1..Len(objs),
         heap' = Append(heap, Array(vs, room)),
         Make(LogicOf(and, failed, Len(heap) + 1, Len(vs)), means, FALSE, uses)
  PROVE  WellMade'
<1> DEFINE v == LogicOf(and, failed, Len(heap) + 1, Len(vs))
           x == Array(vs, room)
<1>1. IsSeq(heap) /\ Len(heap) \in Nat /\ DOMAIN heap = 1..Len(heap) /\ Len(vs) \in Nat
  BY HeapFacts, IsSeqFacts DEF WellMade
<1>2. x.of = vs /\ x = [of |-> x.of, room |-> x.room]
  BY DEF Array
<1>3. /\ v.kind = "logic" /\ v.and = and /\ v.failed = failed /\ v.array = Len(heap) + 1 /\ v.len = Len(vs)
      /\ v = [kind |-> "logic", and |-> v.and, failed |-> v.failed, array |-> v.array, len |-> v.len]
  BY DEF LogicOf
<1> HIDE DEF x
<1>4. /\ IsSeq(heap') /\ DOMAIN heap' = 1..(Len(heap) + 1)
      /\ (\A m \in 1..Len(heap) : heap'[m] = heap[m]) /\ heap'[Len(heap) + 1] = x
  BY <1>1, AppendIsSeq DEF x
<1>5. More(heap, heap') /\ Len(heap) + 1 \in DOMAIN heap'
  BY <1>1, <1>4 DEF More
<1> HIDE DEF v
<1>6. LogicOK(v, heap')
  BY <1>1, <1>2, <1>3, <1>4, <1>5 DEF LogicOK
<1>7. ArrayOK(x, Len(objs), heap')
  BY <1>2, <1>5, ConditionMore DEF ArrayOK
<1>8. \A m \in DOMAIN heap' \ DOMAIN heap : ArrayOK(heap'[m], Len(objs), heap')
  BY <1>1, <1>4, <1>7
<1>9. Make(v, means, FALSE, uses)
  BY DEF v
<1>10. ConditionOK(v, Len(objs), heap')
  BY <1>6 DEF ConditionOK
<1> QED
  BY <1>4, <1>5, <1>8, <1>9, <1>10, WellMadeMore

(* The conditions that are connected.                                      *)
LEMMA PlaceMore ==
  ASSUME WellMade, NEW k \in Places
  PROVE  ConditionOK(objs[k].v, Len(objs), heap)
<1>1. 1..(k - 1) \subseteq 1..Len(objs) /\ ConditionOK(objs[k].v, k - 1, heap)
  BY PlaceOK
<1>2. More(heap, heap)
  BY DEF More
<1> QED
  BY <1>1, <1>2, ConditionMore

LEMMA ValuesOfTwo ==
  ASSUME NEW j, NEW k
  PROVE  ValuesAt(<<j, k>>) = <<objs[j].v, objs[k].v>> /\ ValuesAt(<<k>>) = <<objs[k].v>>
<1>1. DOMAIN <<j, k>> = 1..2 /\ <<j, k>>[1] = j /\ <<j, k>>[2] = k /\ DOMAIN <<k>> = 1..1 /\ <<k>>[1] = k
  OBVIOUS
<1>2. ValuesAt(<<j, k>>) = [m \in 1..2 |-> objs[<<j, k>>[m]].v]
  BY <1>1 DEF ValuesAt
<1>3. ValuesAt(<<k>>) = [m \in 1..1 |-> objs[<<k>>[m]].v]
  BY <1>1 DEF ValuesAt
<1>4. \A f : f = [m \in 1..2 |-> objs[<<j, k>>[m]].v] => f = <<objs[j].v, objs[k].v>>
  BY <1>1
<1>5. \A f : f = [m \in 1..1 |-> objs[<<k>>[m]].v] => f = <<objs[k].v>>
  BY <1>1
<1> QED
  BY <1>2, <1>3, <1>4, <1>5

(* What Connect and Chain do.                                              *)
Joins(and, failed, vs, room, j, k) ==
  /\ heap' = Append(heap, Array(vs, room))
  /\ \E means : Make(LogicOf(and, failed, Len(heap) + 1, Len(vs)), means, FALSE, {j, k})
  /\ UNCHANGED <<mode, format, args, i, a, c, b, index, clauses>>

LEMMA ConnectJoins ==
  ASSUME NEW and, NEW j, NEW k, NEW room, Connect(and, j, k, room)
  PROVE  \E x : Joins(and, objs[j].v.failed \/ objs[k].v.failed, <<objs[j].v, objs[k].v>>, x, j, k)
<1> DEFINE vs == <<objs[j].v, objs[k].v>>
           x == IF room THEN 1 ELSE 0
           r == NewLogic(and, vs, x)
<1>1. Made(and, <<j, k>>, r)
  BY ValuesOfTwo DEF Connect
<1>2. Len(vs) = 2 /\ DOMAIN vs = 1..2 /\ vs[1] = objs[j].v /\ vs[2] = objs[k].v
  OBVIOUS
<1>3. ToSet(<<j, k>>) = {j, k}
  BY TwoIsSeq
<1> HIDE DEF vs, x
<1>4. (\E m \in DOMAIN vs : vs[m].failed) <=> objs[j].v.failed \/ objs[k].v.failed
  BY <1>2
<1>5. r.heap = Append(heap, Array(vs, x)) /\ r.v = LogicOf(and, \E m \in DOMAIN vs : vs[m].failed, Len(heap) + 1, Len(vs))
  BY <1>2 DEF NewLogic
<1> QED
  BY <1>1, <1>3, <1>4, <1>5 DEF Made, Joins, vs

LEMMA OneAndOne ==
  ASSUME NEW x, NEW y
  PROVE  <<x>> \o <<y>> = <<x, y>>
<1> DEFINE s == <<x>>
           t == <<y>>
           u == <<x, y>>
<1>1. /\ IsSeq(s) /\ Len(s) = 1 /\ s[1] = x
      /\ IsSeq(t) /\ Len(t) = 1 /\ t[1] = y
      /\ IsSeq(u) /\ Len(u) = 2 /\ u[1] = x /\ u[2] = y
  BY OneIsSeq, TwoIsSeq
<1> HIDE DEF s, t, u
<1>2. /\ IsSeq(s \o t) /\ Len(s \o t) = Len(s) + Len(t)
      /\ (\A m \in 1..Len(s) : (s \o t)[m] = s[m]) /\ \A m \in 1..Len(t) : (s \o t)[Len(s) + m] = t[m]
  BY <1>1, ConcatIsSeq
<1>3. Len(s \o t) = 2 /\ (s \o t)[1] = x /\ (s \o t)[1 + 1] = y
  BY <1>1, <1>2
<1>4. \A m \in 1..2 : (s \o t)[m] = u[m]
  BY <1>1, <1>3
<1>5. s \o t = u
  BY <1>1, <1>2, <1>3, <1>4, SeqsEqual
<1> QED
  BY <1>5 DEF s, t, u

LEMMA ChainJoins ==
  ASSUME WellMade, NEW and, NEW j \in Places, NEW k \in Places, Chain(and, j, k)
  PROVE  \/ Joins(and, objs[j].v.failed \/ objs[k].v.failed, <<objs[j].v, objs[k].v>>, 1, j, k)
         \/ /\ LogicOK(objs[j].v, heap)
            /\ Joins(and, objs[j].v.failed, Operands(objs[j].v) \o <<objs[k].v>>, 1, j, k)
<1> DEFINE v == objs[j].v
           w == objs[k].v
           r == Method(v, and, <<w>>)
<1>1. Made(and, <<j, k>>, r)
  BY ValuesOfTwo DEF Chain
<1>2. ToSet(<<j, k>>) = {j, k} /\ Len(<<w>>) = 1
  BY TwoIsSeq, OneIsSeq
<1>3. CASE v.kind = "logic" /\ v.and = and
  <2>1. LogicOK(v, heap)
    BY <1>3, PlaceMore DEF ConditionOK, CondOK
  <2> DEFINE vs == Operands(v) \o <<w>>
  <2>2. Len(vs) = v.len + 1
    BY <2>1, OperandsAre, OneIsSeq, ConcatIsSeq
  <2>3. r = Extend(v, <<w>>)
    BY <1>3 DEF Method
  <2>4. r.heap = Append(heap, Array(vs, 1)) /\ r.v = LogicOf(v.and, v.failed, Len(heap) + 1, v.len + Len(<<w>>))
    BY <2>3 DEF Extend
  <2> HIDE DEF vs, r
  <2>5. r.v = LogicOf(and, v.failed, Len(heap) + 1, Len(vs))
    BY <1>2, <1>3, <2>2, <2>4
  <2>6. Joins(and, v.failed, vs, 1, j, k)
    BY <1>1, <1>2, <2>4, <2>5 DEF Made, Joins
  <2> QED
    BY <2>1, <2>6 DEF vs
<1>4. CASE ~(v.kind = "logic" /\ v.and = and)
  <2> DEFINE vs == <<v, w>>
  <2>1. <<v>> \o <<w>> = vs
    BY OneAndOne
  <2>2. r = NewLogic(and, vs, 1)
    BY <1>4, <2>1 DEF Method
  <2>3. Len(vs) = 2 /\ DOMAIN vs = 1..2 /\ vs[1] = v /\ vs[2] = w
    OBVIOUS
  <2> HIDE DEF vs, r
  <2>4. (\E m \in DOMAIN vs : vs[m].failed) <=> v.failed \/ w.failed
    BY <2>3
  <2>5. /\ r.heap = Append(heap, Array(vs, 1))
        /\ r.v = LogicOf(and, \E m \in DOMAIN vs : vs[m].failed, Len(heap) + 1, Len(vs))
    BY <2>2, <2>3 DEF NewLogic
  <2>6. Joins(and, v.failed \/ w.failed, vs, 1, j, k)
    BY <1>1, <1>2, <2>4, <2>5 DEF Made, Joins
  <2> QED
    BY <2>6 DEF vs
<1> QED
  BY <1>3, <1>4

LEMMA FailedIsBoolean ==
  ASSUME NEW v, NEW n, NEW h, ConditionOK(v, n, h)
  PROVE  v.failed \in BOOLEAN
  BY DEF ConditionOK, CondOK, LogicOK

LEMMA JoinsMake ==
  ASSUME WellMade, NEW j \in Places, NEW k \in Places, NEW vs, IsSeq(vs),
         \A m \in DOMAIN vs : ConditionOK(vs[m], Len(objs), heap),
         NEW and \in BOOLEAN, NEW failed \in BOOLEAN, NEW room, Joins(and, failed, vs, room, j, k)
  PROVE  WellMade'
<1>1. {j, k} \subseteq 1..Len(objs)
  BY PlaceOK
<1>2. PICK means : Make(LogicOf(and, failed, Len(heap) + 1, Len(vs)), means, FALSE, {j, k})
  BY DEF Joins
<1>3. heap' = Append(heap, Array(vs, room))
  BY DEF Joins
<1> QED
  BY <1>1, <1>2, <1>3, LogicMade

LEMMA ConnectMakes ==
  ASSUME WellMade, NEW and \in BOOLEAN, NEW j \in Places, NEW k \in Places, NEW room,
         Connect(and, j, k, room) \/ Chain(and, j, k)
  PROVE  WellMade'
<1> DEFINE v == objs[j].v
           w == objs[k].v
           two == <<v, w>>
           more == Operands(v) \o <<w>>
<1>1. /\ ConditionOK(v, Len(objs), heap) /\ ConditionOK(w, Len(objs), heap)
      /\ v.failed \in BOOLEAN /\ w.failed \in BOOLEAN /\ (v.failed \/ w.failed) \in BOOLEAN
  BY PlaceMore, FailedIsBoolean
<1>2. IsSeq(two) /\ \A m \in DOMAIN two : ConditionOK(two[m], Len(objs), heap)
  BY <1>1, TwoIsSeq, IsSeqFacts
<1>3. ASSUME LogicOK(v, heap) PROVE IsSeq(more) /\ \A m \in DOMAIN more : ConditionOK(more[m], Len(objs), heap)
  <2>1. More(heap, heap) /\ 1..(Len(objs) - 1) \subseteq 1..Len(objs)
    BY HeapFacts DEF More
  <2>2. \A m \in 1..v.len : ConditionOK(Operands(v)[m], Len(objs), heap)
    BY <1>3, <2>1, OperandsAre, ConditionMore
  <2>3. /\ IsSeq(more) /\ Len(more) = v.len + 1 /\ v.len \in Nat
        /\ (\A m \in 1..v.len : more[m] = Operands(v)[m])
        /\ \A m \in 1..1 : more[v.len + m] = <<w>>[m]
    BY <1>3, OperandsAre, OneIsSeq, ConcatIsSeq DEF LogicOK
  <2>4. more[v.len + 1] = w /\ DOMAIN more = 1..(v.len + 1)
    BY <2>3, IsSeqFacts, OneIsSeq
  <2> HIDE DEF more
  <2> QED
    BY <1>1, <2>2, <2>3, <2>4
<1> HIDE DEF two, more
<1>4. ASSUME NEW x, Joins(and, v.failed \/ w.failed, two, x, j, k) PROVE WellMade'
  BY <1>1, <1>2, <1>4, JoinsMake
<1>5. ASSUME LogicOK(v, heap), Joins(and, v.failed, more, 1, j, k) PROVE WellMade'
  BY <1>1, <1>3, <1>5, JoinsMake
<1>6. CASE Connect(and, j, k, room)
  BY <1>4, <1>6, ConnectJoins DEF two
<1>7. CASE Chain(and, j, k)
  BY <1>4, <1>5, <1>7, ChainJoins DEF two, more
<1> QED
  BY <1>6, <1>7

-----------------------------------------------------------------------------
(* Negation.  The negated arrays lie behind the others.                    *)
Mirrors(h) ==
  /\ IsSeq(h) /\ Len(h) = Len(heap) + Len(heap)
  /\ More(heap, h)
  /\ \A m \in DOMAIN heap :
       /\ m + Len(heap) \in DOMAIN h
       /\ h[m + Len(heap)] = NegatedArray(heap[m])
  /\ \A m \in DOMAIN h \ DOMAIN heap : \E j \in DOMAIN heap : m = j + Len(heap)

LEMMA NegatedHeapIs ==
  ASSUME WellMade, NEW v
  PROVE  IF v.kind = "cond" THEN NegatedHeap(v) = heap ELSE Mirrors(NegatedHeap(v))
<1>1. CASE v.kind = "cond"
  BY <1>1 DEF NegatedHeap
<1>2. CASE v.kind # "cond"
  <2> DEFINE t == [m \in DOMAIN heap |-> NegatedArray(heap[m])]
             n == Len(heap)
  <2>1. NegatedHeap(v) = heap \o t
    BY <1>2 DEF NegatedHeap
  <2>2. n \in Nat /\ DOMAIN heap = 1..n /\ IsSeq(heap)
    BY HeapFacts DEF WellMade
  <2>3. IsSeq(t) /\ Len(t) = n /\ \A m \in 1..n : t[m] = NegatedArray(heap[m])
    BY <2>2, FunctionIsSeq
  <2> DEFINE h == heap \o t
  <2> HIDE DEF t
  <2>4. /\ IsSeq(h) /\ Len(h) = n + n
        /\ (\A m \in 1..n : h[m] = heap[m])
        /\ \A m \in 1..n : h[n + m] = t[m]
    BY <2>2, <2>3, ConcatIsSeq
  <2>5. DOMAIN h = 1..(n + n)
    BY <2>4, IsSeqFacts
  <2> HIDE DEF h
  <2>6. More(heap, h)
    BY <2>2, <2>4, <2>5 DEF More
  <2>7. ASSUME NEW m \in DOMAIN heap
        PROVE  m + n \in DOMAIN h /\ h[m + n] = NegatedArray(heap[m])
    <3>1. m \in 1..n /\ m + n = n + m /\ m + n \in 1..(n + n)
      BY <2>2
    <3> QED
      BY <2>3, <2>4, <2>5, <3>1
  <2>8. ASSUME NEW m \in DOMAIN h \ DOMAIN heap
        PROVE  \E j \in DOMAIN heap : m = j + n
    <3>1. m - n \in DOMAIN heap /\ m = (m - n) + n
      BY <2>2, <2>5
    <3> QED
      BY <3>1
  <2> HIDE DEF n
  <2>9. Mirrors(h)
    BY <2>4, <2>6, <2>7, <2>8 DEF Mirrors, n
  <2> QED
    BY <1>2, <2>1, <2>9 DEF h
<1> QED
  BY <1>1, <1>2

LEMMA NegatedCond ==
  ASSUME NEW v, NEW n, CondOK(v, n)
  PROVE  /\ CondOK(Negated(v), n)
         /\ Negated(v).failed = v.failed /\ Negated(v).a = v.a /\ Negated(v).b = v.b
         /\ Negated(v).not = ~v.not
<1>1. v = [kind |-> "cond", not |-> v.not, failed |-> v.failed, a |-> v.a, b |-> v.b] /\ v.kind = "cond"
  BY DEF CondOK
<1>2. Negated(v) = [v EXCEPT !.not = ~v.not]
  BY <1>1 DEF Negated
<1>3. Negated(v) = [kind |-> "cond", not |-> ~v.not, failed |-> v.failed, a |-> v.a, b |-> v.b]
  BY <1>1, <1>2
<1>4. /\ Negated(v).kind = "cond" /\ Negated(v).not = ~v.not /\ Negated(v).failed = v.failed
      /\ Negated(v).a = v.a /\ Negated(v).b = v.b
  BY <1>3
<1>5. Negated(v) = [kind |-> "cond", not |-> Negated(v).not, failed |-> Negated(v).failed,
                    a |-> Negated(v).a, b |-> Negated(v).b]
  BY <1>3, <1>4
<1> QED
  BY <1>4, <1>5 DEF CondOK

LEMMA NegatedArrayIs ==
  ASSUME WellMade, NEW m \in DOMAIN heap
  PROVE  /\ NegatedArray(heap[m]) = [of |-> NegatedArray(heap[m]).of, room |-> NegatedArray(heap[m]).room]
         /\ IsSeq(NegatedArray(heap[m]).of)
         /\ Len(NegatedArray(heap[m]).of) = Len(heap[m].of)
         /\ DOMAIN NegatedArray(heap[m]).of = DOMAIN heap[m].of
         /\ \A k \in DOMAIN heap[m].of : NegatedArray(heap[m]).of[k] = Negated(heap[m].of[k])
<1> DEFINE of == heap[m].of
           t == [k \in DOMAIN of |-> Negated(of[k])]
<1>1. Len(of) \in Nat /\ DOMAIN of = 1..Len(of)
  BY HeapFacts
<1>2. NegatedArray(heap[m]) = [of |-> t, room |-> 0]
  BY DEF NegatedArray, Array
<1>3. IsSeq(t) /\ Len(t) = Len(of)
  BY <1>1, FunctionIsSeq
<1> QED
  BY <1>1, <1>2, <1>3

LEMMA NegatedLogic ==
  ASSUME WellMade, NEW v, NEW h, LogicOK(v, heap), Mirrors(h)
  PROVE  /\ LogicOK(Negated(v), h)
         /\ Negated(v).failed = v.failed /\ Negated(v).len = v.len /\ Negated(v).and = ~v.and
         /\ Negated(v).array = v.array + Len(heap)
         /\ h[Negated(v).array] = NegatedArray(heap[v.array])
<1>1. v.kind = "logic"
  BY DEF LogicOK
<1>2. Negated(v) = LogicOf(~v.and, v.failed, v.array + Len(heap), v.len)
  BY <1>1 DEF Negated
<1>3. /\ Negated(v).kind = "logic" /\ Negated(v).and = ~v.and /\ Negated(v).failed = v.failed
      /\ Negated(v).array = v.array + Len(heap) /\ Negated(v).len = v.len
      /\ Negated(v) = [kind |-> "logic", and |-> Negated(v).and, failed |-> Negated(v).failed,
                       array |-> Negated(v).array, len |-> Negated(v).len]
  BY <1>2 DEF LogicOf
<1>4. v.array + Len(heap) \in DOMAIN h /\ h[v.array + Len(heap)] = NegatedArray(heap[v.array])
  BY DEF LogicOK, Mirrors
<1>5. v.len \in Nat /\ v.len <= Len(NegatedArray(heap[v.array]).of) /\ v.failed \in BOOLEAN
  <2>1. v.array \in DOMAIN heap /\ v.len \in Nat /\ v.len <= Len(heap[v.array].of) /\ v.failed \in BOOLEAN
    BY DEF LogicOK
  <2> QED
    BY <2>1, NegatedArrayIs
<1> QED
  BY <1>3, <1>4, <1>5 DEF LogicOK

LEMMA NegatedOK ==
  ASSUME WellMade, NEW v, NEW n, NEW h, ConditionOK(v, n, heap), v.kind # "cond" => Mirrors(h)
  PROVE  ConditionOK(Negated(v), n, h)
<1>1. CASE CondOK(v, n)
  BY <1>1, NegatedCond DEF ConditionOK
<1>2. CASE LogicOK(v, heap)
  <2>1. v.kind # "cond"
    BY <1>2 DEF LogicOK
  <2> QED
    BY <1>2, <2>1, NegatedLogic DEF ConditionOK
<1> QED
  BY <1>1, <1>2 DEF ConditionOK

LEMMA NotMakes ==
  ASSUME WellMade, NEW k \in Places, NotOf(k)
  PROVE  WellMade'
<1> DEFINE v == objs[k].v
<1>1. ConditionOK(v, Len(objs), heap) /\ {k} \subseteq 1..Len(objs) /\ Len(objs) \in Nat
  BY PlaceMore, PlaceOK
<1>2. heap' = NegatedHeap(v) /\ Make(Negated(v), (SUBSET Columns) \ objs[k].means, FALSE, {k})
  BY DEF NotOf
<1> HIDE DEF v
<1>3. IF v.kind = "cond" THEN heap' = heap ELSE Mirrors(heap')
  BY <1>2, NegatedHeapIs
<1>4. ConditionOK(Negated(v), Len(objs), heap')
  BY <1>1, <1>3, NegatedOK
<1>5. IsSeq(heap') /\ More(heap, heap')
  BY <1>3 DEF WellMade, Mirrors, More
<1>6. ASSUME NEW m \in DOMAIN heap' \ DOMAIN heap PROVE ArrayOK(heap'[m], Len(objs), heap')
  <2>1. Mirrors(heap')
    BY <1>3, <1>6
  <2>2. PICK j \in DOMAIN heap : m = j + Len(heap)
    BY <1>6, <2>1 DEF Mirrors
  <2>3. heap'[m] = NegatedArray(heap[j])
    BY <2>1, <2>2 DEF Mirrors
  <2> DEFINE x == NegatedArray(heap[j])
  <2>4. /\ x = [of |-> x.of, room |-> x.room] /\ IsSeq(x.of) /\ DOMAIN x.of = DOMAIN heap[j].of
        /\ \A q \in DOMAIN heap[j].of : x.of[q] = Negated(heap[j].of[q])
    BY NegatedArrayIs
  <2>5. ASSUME NEW q \in DOMAIN heap[j].of PROVE ConditionOK(Negated(heap[j].of[q]), Len(objs), heap')
    <3>1. ConditionOK(heap[j].of[q], Len(objs) - 1, heap)
      BY HeapFacts
    <3>2. More(heap, heap) /\ 1..(Len(objs) - 1) \subseteq 1..Len(objs)
      BY <1>1 DEF More
    <3>3. ConditionOK(heap[j].of[q], Len(objs), heap)
      BY <3>1, <3>2, ConditionMore
    <3> QED
      BY <2>1, <3>3, NegatedOK
  <2> HIDE DEF x
  <2>6. ArrayOK(x, Len(objs), heap')
    BY <2>4, <2>5 DEF ArrayOK
  <2> QED
    BY <2>3, <2>6 DEF x
<1> QED
  BY <1>1, <1>2, <1>4, <1>5, <1>6, WellMadeMore

-----------------------------------------------------------------------------
(* Statements.                                                             *)
LEMMA UsesIs ==
  ASSUME NEW v, NEW u
  PROVE  u \in UsesOf(v) <=> \E x \in BuildersOf(v.kind) : u \in ClauseUses(x, v.cl[x])
  BY DEF UsesOf

LEMMA SetClause ==
  ASSUME NEW v, NEW n, NEW cs, StatementOK(v, n, cs), NEW x \in BuildersOf(v.kind), NEW items, IsSeq(items),
         \A k \in DOMAIN items : ClauseOK(x, items[k], n, cs),
         ClauseUses(x, v.cl[x]) \subseteq ClauseUses(x, items),
         NEW w, w = [v EXCEPT !.cl[x] = items]
  PROVE  /\ StatementOK(w, n, cs) /\ w.kind = v.kind
         /\ w.cl[x] = items /\ \A y \in BuildersOf(v.kind) \ {x} : w.cl[y] = v.cl[y]
         /\ UsesOf(w) = UsesOf(v) \cup ClauseUses(x, items)
<1> DEFINE K == BuildersOf(v.kind)
<1>1. /\ v.kind \in Kinds
      /\ v = [kind |-> v.kind, cl |-> v.cl, limit |-> v.limit, offset |-> v.offset]
      /\ v.cl = [y \in K |-> v.cl[y]]
      /\ \A y \in K : /\ IsSeq(v.cl[y])
                      /\ \A k \in DOMAIN v.cl[y] : ClauseOK(y, v.cl[y][k], n, cs)
  BY DEF StatementOK
<1> DEFINE cl == [y \in K |-> IF y = x THEN items ELSE v.cl[y]]
<1>2. w = [kind |-> v.kind, cl |-> cl, limit |-> v.limit, offset |-> v.offset]
  <2>1. [v.cl EXCEPT ![x] = items] = cl
    BY <1>1
  <2>2. w = [v EXCEPT !.cl = [v.cl EXCEPT ![x] = items]]
    OBVIOUS
  <2> HIDE DEF cl
  <2> QED
    BY <1>1, <2>1, <2>2
<1>4. /\ cl[x] = items /\ (\A y \in K \ {x} : cl[y] = v.cl[y])
      /\ cl = [y \in K |-> cl[y]]
  OBVIOUS
<1> HIDE DEF cl
<1>3. /\ w.kind = v.kind /\ w.cl = cl
      /\ w = [kind |-> w.kind, cl |-> w.cl, limit |-> w.limit, offset |-> w.offset]
  <2>1. w.kind = v.kind /\ w.cl = cl /\ w.limit = v.limit /\ w.offset = v.offset
    BY <1>2
  <2> QED
    BY <1>2, <2>1
<1>5. ASSUME NEW y \in K PROVE IsSeq(cl[y]) /\ \A k \in DOMAIN cl[y] : ClauseOK(y, cl[y][k], n, cs)
  <2>1. CASE y = x
    BY <1>4, <2>1
  <2>2. CASE y # x
    BY <1>1, <1>4, <2>2
  <2> QED
    BY <2>1, <2>2
<1>6. StatementOK(w, n, cs)
  BY <1>1, <1>3, <1>4, <1>5 DEF StatementOK
<1>7. UsesOf(w) = UsesOf(v) \cup ClauseUses(x, items)
  <2>1. \A y \in K : ClauseUses(y, w.cl[y]) = IF y = x THEN ClauseUses(x, items) ELSE ClauseUses(y, v.cl[y])
    BY <1>3, <1>4
  <2>2. ASSUME NEW u \in UsesOf(w) PROVE u \in UsesOf(v) \cup ClauseUses(x, items)
    <3>1. PICK y \in K : u \in ClauseUses(y, w.cl[y])
      BY <1>3, UsesIs
    <3> QED
      BY <2>1, <3>1, UsesIs
  <2>3. ASSUME NEW u \in UsesOf(v) PROVE u \in UsesOf(w)
    <3>1. PICK y \in K : u \in ClauseUses(y, v.cl[y])
      BY UsesIs
    <3>2. u \in ClauseUses(y, w.cl[y])
      BY <2>1, <3>1
    <3> QED
      BY <1>3, <3>2, UsesIs
  <2>4. ASSUME NEW u \in ClauseUses(x, items) PROVE u \in UsesOf(w)
    BY <1>3, <2>1, <2>4, UsesIs
  <2> QED
    BY <2>2, <2>3, <2>4
<1> QED
  BY <1>3, <1>4, <1>6, <1>7

LEMMA NoUses ==
  ASSUME NEW x
  PROVE  ClauseUses(x, <<>>) = {}
  BY NoneIsSeq DEF ClauseUses

LEMMA OneUses ==
  ASSUME NEW x, NEW item
  PROVE  ClauseUses(x, <<item>>) = ItemUses(x, item)
<1>1. DOMAIN <<item>> = {1} /\ <<item>>[1] = item
  OBVIOUS
<1> QED
  BY <1>1 DEF ClauseUses

LEMMA ConcatUses ==
  ASSUME NEW x, NEW s, NEW t, IsSeq(s), IsSeq(t)
  PROVE  ClauseUses(x, s \o t) = ClauseUses(x, s) \cup ClauseUses(x, t)
<1>1. ASSUME NEW u, IsSeq(u) PROVE ClauseUses(x, u) = UNION {ItemUses(x, item) : item \in ToSet(u)}
  BY DEF ClauseUses, ToSet
<1>2. IsSeq(s \o t) /\ ToSet(s \o t) = ToSet(s) \cup ToSet(t)
  BY ConcatIsSeq
<1>3. /\ ClauseUses(x, s) = UNION {ItemUses(x, item) : item \in ToSet(s)}
      /\ ClauseUses(x, t) = UNION {ItemUses(x, item) : item \in ToSet(t)}
      /\ ClauseUses(x, s \o t) = UNION {ItemUses(x, item) : item \in ToSet(s \o t)}
  BY <1>1, <1>2
<1> QED
  BY <1>2, <1>3

LEMMA BareOK ==
  ASSUME NEW kind \in Kinds, NEW n, NEW cs
  PROVE  /\ StatementOK(Bare(kind), n, cs) /\ UsesOf(Bare(kind)) = {}
         /\ Bare(kind).kind = kind /\ \A x \in BuildersOf(kind) : Bare(kind).cl[x] = <<>>
<1> DEFINE v == Bare(kind)
           none == [x \in BuildersOf(kind) |-> <<>>]
<1>1. v = [kind |-> kind, cl |-> none, limit |-> 0, offset |-> 0]
  BY DEF Bare
<1>2. /\ v.kind = kind /\ v.cl = none
      /\ v = [kind |-> v.kind, cl |-> v.cl, limit |-> v.limit, offset |-> v.offset]
  BY <1>1
<1>3. v.cl = [x \in BuildersOf(v.kind) |-> v.cl[x]] /\ \A x \in BuildersOf(kind) : v.cl[x] = <<>>
  BY <1>2
<1> HIDE DEF v, none
<1>4. StatementOK(v, n, cs)
  BY <1>2, <1>3, NoneIsSeq DEF StatementOK
<1>5. UsesOf(v) = {}
  BY <1>2, <1>3, NoUses DEF UsesOf
<1> QED
  BY <1>2, <1>3, <1>4, <1>5 DEF v

(* One clause after another of a statement that has nothing yet.           *)
LEMMA FirstItem ==
  ASSUME NEW v, NEW n, NEW cs, StatementOK(v, n, cs), NEW x \in BuildersOf(v.kind), v.cl[x] = <<>>,
         NEW item, ClauseOK(x, item, n, cs), NEW w, w = [v EXCEPT !.cl[x] = <<item>>]
  PROVE  /\ StatementOK(w, n, cs) /\ w.kind = v.kind
         /\ \A y \in BuildersOf(v.kind) \ {x} : w.cl[y] = v.cl[y]
         /\ UsesOf(w) = UsesOf(v) \cup ItemUses(x, item)
<1> DEFINE items == <<item>>
<1>1. /\ IsSeq(items) /\ (\A k \in DOMAIN items : ClauseOK(x, items[k], n, cs))
      /\ ClauseUses(x, items) = ItemUses(x, item)
      /\ ClauseUses(x, v.cl[x]) = {}
  <2>1. DOMAIN items = {1} /\ items[1] = item
    OBVIOUS
  <2> QED
    BY <2>1, OneIsSeq, OneUses, NoUses
<1>2. w = [v EXCEPT !.cl[x] = items]
  OBVIOUS
<1> HIDE DEF items
<1>3. ClauseUses(x, v.cl[x]) \subseteq ClauseUses(x, items)
  BY <1>1
<1> QED
  BY <1>1, <1>2, <1>3, SetClause

LEMMA WhereItem ==
  ASSUME NEW v, NEW n, NEW cs, StatementOK(v, n, cs), "Where" \in BuildersOf(v.kind), v.cl["Where"] = <<>>,
         NEW j \in {0} \cup cs, j # 0 => j \in 1..n,
         NEW w, w = [v EXCEPT !.cl["Where"] = IF j = 0 THEN <<>> ELSE <<Obj(j)>>]
  PROVE  StatementOK(w, n, cs) /\ w.kind = v.kind /\ UsesOf(w) = UsesOf(v) \cup ({j} \ {0})
<1>1. CASE j = 0
  <2> DEFINE items == <<>>
  <2>1. /\ IsSeq(items) /\ (\A k \in DOMAIN items : ClauseOK("Where", items[k], n, cs))
        /\ ClauseUses("Where", items) = {} /\ ClauseUses("Where", v.cl["Where"]) = {}
    BY NoneIsSeq, NoUses
  <2>2. w = [v EXCEPT !.cl["Where"] = items]
    BY <1>1
  <2>3. ClauseUses("Where", v.cl["Where"]) \subseteq ClauseUses("Where", items) /\ {j} \ {0} = {}
    BY <1>1, <2>1
  <2> HIDE DEF items
  <2> QED
    BY <2>1, <2>2, <2>3, SetClause
<1>2. CASE j # 0
  <2>1. w = [v EXCEPT !.cl["Where"] = <<Obj(j)>>]
    BY <1>2
  <2>2. Obj(j).is = "object" /\ Obj(j).k = j
    BY DEF Obj
  <2>3. FilterOK(Obj(j), n, cs)
    BY <1>2, <2>2 DEF FilterOK, ObjectOK
  <2>4. ClauseOK("Where", Obj(j), n, cs)
    BY <2>3 DEF ClauseOK
  <2>5. ItemUses("Where", Obj(j)) = {j} \ {0}
    <3>1. ItemUses("Where", Obj(j)) = PlacesOf(Obj(j))
      BY DEF ItemUses
    <3> QED
      BY <1>2, <2>2, <3>1 DEF PlacesOf
  <2> QED
    BY <2>1, <2>4, <2>5, FirstItem
<1> QED
  BY <1>1, <1>2

LEMMA BuildersAre ==
  /\ BuildersOf("select") = {"Select", "From", "Join", "Where", "GroupBy", "Having", "OrderBy"}
  /\ BuildersOf("insert") = {"Columns", "Values"}
  /\ BuildersOf("update") = {"Set", "Where", "OrderBy"}
  /\ BuildersOf("delete") = {"Where", "OrderBy"}
<1>1. BuildersOf("select") = {"Select", "From", "Join", "Where", "GroupBy", "Having", "OrderBy"}
  BY DEF BuildersOf
<1>2. BuildersOf("insert") = {"Columns", "Values"}
  BY DEF BuildersOf
<1>3. BuildersOf("update") = {"Set", "Where", "OrderBy"}
  BY DEF BuildersOf
<1>4. BuildersOf("delete") = {"Where", "OrderBy"}
  BY DEF BuildersOf
<1> QED
  BY <1>1, <1>2, <1>3, <1>4

LEMMA ColumnsInOrder ==
  /\ IsSeq(SetToSeq(Columns)) /\ Len(SetToSeq(Columns)) = Cardinality(Columns)
  /\ Cardinality(Columns) \in Nat
<1> DEFINE N == Cardinality(Columns)
           One(f) == \A x, y \in DOMAIN f : f[x] = f[y] => x = y
<1>1. N \in Nat /\ ExistsBijection(1..N, Columns)
  BY QueryConstants, FS_CardinalityType
<1>2. \E f \in [1..N -> Columns] : One(f)
  BY <1>1, Zenon DEF ExistsBijection, Bijection, Injection, Surjection, IsInjective
<1>3. SetToSeq(Columns) = CHOOSE f \in [1..N -> Columns] : One(f)
  BY DEF SetToSeq, IsInjective
<1>4. SetToSeq(Columns) \in [1..N -> Columns]
  BY <1>2, <1>3
<1> QED
  BY <1>1, <1>4, FunctionIsSeq

LEMMA UsualOK ==
  ASSUME NEW kind \in Kinds, NEW n, NEW cs, NEW j \in {0} \cup cs, j # 0 => j \in 1..n,
         kind = "insert" => j = 0
  PROVE  StatementOK(Usual(kind, j), n, cs) /\ UsesOf(Usual(kind, j)) = {j} \ {0}
<1> DEFINE where == IF j = 0 THEN <<>> ELSE <<Obj(j)>>
           v == Bare(kind)
<1>1. StatementOK(v, n, cs) /\ UsesOf(v) = {} /\ v.kind = kind /\ \A x \in BuildersOf(kind) : v.cl[x] = <<>>
  BY BareOK
<1>2. CASE kind = "select"
  <2> DEFINE u == [v EXCEPT !.cl["From"] = <<Str(<<"t">>)>>]
             w == [u EXCEPT !.cl["Where"] = where]
  <2>1. Usual(kind, j) = w
    BY <1>2 DEF Usual
  <2>2. "From" \in BuildersOf(v.kind) /\ "Where" \in BuildersOf(v.kind) \ {"From"}
    BY <1>1, <1>2, BuildersAre
  <2>3. Str(<<"t">>).is = "string" /\ Str(<<"t">>).s = <<"t">>
    BY DEF Str
  <2>4. ClauseOK("From", Str(<<"t">>), n, cs) /\ ItemUses("From", Str(<<"t">>)) = {}
    <3>1. ItemOK(Str(<<"t">>), n) /\ PlacesOf(Str(<<"t">>)) = {}
      BY <2>3, OneIsSeq DEF ItemOK, StringOK, PlacesOf
    <3> QED
      BY <3>1 DEF ClauseOK, ItemUses
  <2> HIDE DEF v
  <2>5. /\ StatementOK(u, n, cs) /\ u.kind = v.kind /\ UsesOf(u) = {} /\ u.cl["Where"] = <<>>
    BY <1>1, <2>2, <2>4, FirstItem
  <2> HIDE DEF u
  <2>6. StatementOK(w, n, cs) /\ UsesOf(w) = {j} \ {0}
    BY <2>2, <2>5, WhereItem
  <2> QED
    BY <2>1, <2>6
<1>3. CASE kind = "update"
  <2> DEFINE item == [column |-> First, to |-> [is |-> "value", x |-> ValueFor[First]]]
             u == [v EXCEPT !.cl["Set"] = <<item>>]
             w == [u EXCEPT !.cl["Where"] = where]
  <2>1. Usual(kind, j) = w
    BY <1>3 DEF Usual
  <2>2. "Set" \in BuildersOf(v.kind) /\ "Where" \in BuildersOf(v.kind) \ {"Set"}
    BY <1>1, <1>3, BuildersAre
  <2>3. item.to.is = "value"
    OBVIOUS
  <2> HIDE DEF item
  <2>4. ClauseOK("Set", item, n, cs) /\ ItemUses("Set", item) = {}
    BY <2>3 DEF ClauseOK, SetOK, ItemUses, PlacesOf
  <2> HIDE DEF v
  <2>5. /\ StatementOK(u, n, cs) /\ u.kind = v.kind /\ UsesOf(u) = {} /\ u.cl["Where"] = <<>>
    BY <1>1, <2>2, <2>4, FirstItem
  <2> HIDE DEF u
  <2>6. StatementOK(w, n, cs) /\ UsesOf(w) = {j} \ {0}
    BY <2>2, <2>5, WhereItem
  <2> QED
    BY <2>1, <2>6
<1>4. CASE kind = "delete"
  <2> DEFINE w == [v EXCEPT !.cl["Where"] = where]
  <2>1. Usual(kind, j) = w
    BY <1>4 DEF Usual
  <2>2. "Where" \in BuildersOf(v.kind)
    BY <1>1, <1>4, BuildersAre
  <2> HIDE DEF v
  <2>6. StatementOK(w, n, cs) /\ UsesOf(w) = {j} \ {0}
    BY <1>1, <2>2, WhereItem
  <2> QED
    BY <2>1, <2>6
<1>5. CASE kind = "insert"
  <2> DEFINE columns == SetToSeq(Columns)
             row == RowOf(1, Cardinality(Columns))
             u == [v EXCEPT !.cl["Columns"] = columns]
             w == [u EXCEPT !.cl["Values"] = <<row>>]
  <2>1. Usual(kind, j) = w
    BY <1>5 DEF Usual
  <2>2. "Columns" \in BuildersOf(v.kind) /\ "Values" \in BuildersOf(v.kind) \ {"Columns"}
    BY <1>1, <1>5, BuildersAre
  <2>3. IsSeq(columns) /\ IsSeq(row)
    BY ColumnsInOrder, FunctionIsSeq DEF RowOf
  <2> HIDE DEF columns, row
  <2>4. /\ \A k \in DOMAIN columns : ClauseOK("Columns", columns[k], n, cs)
        /\ ClauseUses("Columns", columns) = {} /\ ClauseUses("Columns", v.cl["Columns"]) = {}
    <3>1. \A x, item : x = "Columns" => ItemUses(x, item) = {} /\ ClauseOK(x, item, n, cs)
      BY DEF ClauseOK, ItemUses
    <3> QED
      BY <3>1 DEF ClauseUses
  <2>5. ClauseOK("Values", row, n, cs) /\ ItemUses("Values", row) = {}
    BY <2>3 DEF ClauseOK, ItemUses
  <2> HIDE DEF v
  <2>6. /\ StatementOK(u, n, cs) /\ u.kind = v.kind /\ UsesOf(u) = {} /\ u.cl["Values"] = <<>>
    BY <1>1, <2>2, <2>3, <2>4, SetClause
  <2> HIDE DEF u
  <2>7. StatementOK(w, n, cs) /\ UsesOf(w) = {}
    BY <2>2, <2>5, <2>6, FirstItem
  <2> QED
    BY <1>5, <2>1, <2>7
<1> QED
  BY <1>2, <1>3, <1>4, <1>5 DEF Kinds

LEMMA NewMakes ==
  ASSUME WellMade, NEW kind \in Kinds, NEW j \in {0} \cup Places, NewStatement(kind) \/ NewUsual(kind, j)
  PROVE  WellMade'
<1>1. IsSeq(heap) /\ Len(objs) \in Nat /\ j # 0 => j \in 1..Len(objs)
  BY HeapFacts, PlaceOK
<1>2. ASSUME NEW v, NEW uses, StatementOK(v, Len(objs), Places), UsesOf(v) = uses, uses \subseteq 1..Len(objs),
             Make(v, {}, FALSE, uses), heap' = heap
      PROVE  WellMade'
  <2>1. IsSeq(heap') /\ More(heap, heap') /\ DOMAIN heap' \ DOMAIN heap = {}
    BY <1>2 DEF More, WellMade
  <2> QED
    BY <1>2, <2>1, WellMadeMore
<1>3. CASE NewStatement(kind)
  <2>1. Make(Bare(kind), {}, FALSE, {}) /\ heap' = heap
    BY <1>3 DEF NewStatement
  <2> QED
    BY <1>2, <2>1, BareOK
<1>4. CASE NewUsual(kind, j)
  <2>1. Make(Usual(kind, j), {}, FALSE, {j} \ {0}) /\ heap' = heap /\ (kind = "insert" => j = 0)
    BY <1>4 DEF NewUsual
  <2>2. j # 0 => j \in 1..Len(objs)
    BY PlaceOK
  <2>3. StatementOK(Usual(kind, j), Len(objs), Places) /\ UsesOf(Usual(kind, j)) = {j} \ {0}
    BY <2>1, <2>2, UsualOK
  <2> QED
    BY <1>2, <2>1, <2>2, <2>3
<1> QED
  BY <1>3, <1>4

(* A call of Cond or Not returns.                                          *)
LEMMA FillingsMade ==
  ASSUME ScanTypeOK, ArgumentsInOrder, ArgumentsMade
  PROVE  \A k \in DOMAIN b :
           /\ b[k].type \in {"identifier", "marker", "expression"}
           /\ b[k].name \in Seq(Symbols)
           /\ b[k].type = "expression" => b[k].value \in DOMAIN objs
<1> SUFFICES ASSUME NEW k \in DOMAIN b
             PROVE  /\ b[k].type \in {"identifier", "marker", "expression"}
                    /\ b[k].name \in Seq(Symbols)
                    /\ b[k].type = "expression" => b[k].value \in DOMAIN objs
  OBVIOUS
<1>1. b \in Seq(Filling) /\ Len(b) \in Nat /\ DOMAIN b = 1..Len(b) /\ Len(args) \in Nat /\ index \in 0..Len(args)
  BY FormatFacts DEF ScanTypeOK
<1>2. b[k] \in Filling
  BY <1>1, ElementOfSeq
<1>3. ASSUME b[k].type = "expression" PROVE b[k].value \in DOMAIN objs
  <2>1. b[k] = Argument(args[Taken(k)])
    BY <1>3 DEF ArgumentsInOrder
  <2>2. \A p \in Nat : Taken(p) = NotNames(b, p)
    BY DEF Taken, NotNames
  <2>3. NotNames(b, k) \in 1..NotNames(b, Len(b))
    BY <1>1, <1>3, NotNamesBounds
  <2>4. Taken(k) \in 1..Len(args)
    BY <1>1, <2>2, <2>3 DEF ArgumentsInOrder
  <2>5. DOMAIN args = 1..Len(args) /\ args \in Seq(Args)
    BY LenProperties DEF ScanTypeOK
  <2>6. args[Taken(k)] \in Args
    BY <2>4, <2>5, ElementOfSeq
  <2>7. b[k].type = (IF args[Taken(k)].expression THEN "expression" ELSE "marker") /\ b[k].value = args[Taken(k)].value
    BY <2>1 DEF Argument
  <2>8. args[Taken(k)].expression
    BY <1>3, <2>7
  <2> QED
    BY <2>4, <2>5, <2>7, <2>8 DEF ArgumentsMade
<1> QED
  BY <1>2, <1>3 DEF Filling

LEMMA ReturnMakes ==
  ASSUME WellMade, ScanTypeOK, SlotsFilled, ArgumentsInOrder, ArgumentsMade, NEW neg \in BOOLEAN, Return(neg)
  PROVE  WellMade'
<1> DEFINE failed == mode = "failed"
           v == CondOf(neg, failed)
           uses == {b[k].value : k \in {j \in DOMAIN b : b[j].type = "expression"}}
<1>1. heap' = heap /\ \E means : Make(v, means, failed, uses)
  BY DEF Return
<1>2. /\ v.kind = "cond" /\ v.not = neg /\ v.failed = failed /\ v.a = a /\ v.b = b
      /\ v = [kind |-> "cond", not |-> v.not, failed |-> v.failed, a |-> v.a, b |-> v.b]
  BY DEF CondOf
<1>3. /\ IsSeq(a) /\ IsSeq(b) /\ Count(a, Slot, Len(a)) = Len(b)
      /\ DOMAIN objs = 1..Len(objs)
  BY FormatFacts, SeqIs, SlotCount, HeapFacts
<1>4. \A k \in DOMAIN b :
        /\ b[k].type \in {"identifier", "marker", "expression"}
        /\ IsSeq(b[k].name)
        /\ b[k].type = "expression" => b[k].value \in 1..Len(objs)
  BY <1>3, FillingsMade, SeqIs
<1>5. uses \subseteq 1..Len(objs) /\ failed \in BOOLEAN
  BY <1>4
<1> HIDE DEF v, uses, failed
<1>6. CondOK(v, Len(objs))
  BY <1>2, <1>3, <1>4, <1>5 DEF CondOK
<1>7. IsSeq(heap') /\ More(heap, heap') /\ DOMAIN heap' \ DOMAIN heap = {}
  BY <1>1 DEF More, WellMade
<1>8. ConditionOK(v, Len(objs), heap')
  BY <1>6 DEF ConditionOK
<1> QED
  BY <1>1, <1>5, <1>7, <1>8, WellMadeMore

-----------------------------------------------------------------------------
(* Builders.                                                               *)
LEMMA UsesWithin ==
  ASSUME NEW x, NEW items, NEW n, NEW cs, \A k \in DOMAIN items : ClauseOK(x, items[k], n, cs)
  PROVE  ClauseUses(x, items) \subseteq 1..n
<1>1. ASSUME NEW item, ClauseOK(x, item, n, cs) PROVE ItemUses(x, item) \subseteq 1..n
  <2>1. CASE x = "Join"
    <3>1. JoinOK(item, n, cs)
      BY <1>1, <2>1 DEF ClauseOK
    <3>2. ItemUses(x, item) = PlacesOf(item.to) \cup UNION {PlacesOf(item.by[k]) : k \in DOMAIN item.by}
      BY <2>1 DEF ItemUses
    <3>3. PlacesOf(item.to) \subseteq 1..n
      BY <3>1 DEF JoinOK, StringOK, ObjectOK, PlacesOf
    <3>4. ASSUME NEW k \in DOMAIN item.by PROVE PlacesOf(item.by[k]) \subseteq 1..n
      <4>1. StringOK(item.by[k]) \/ FilterOK(item.by[k], n, cs) \/ item.by[k] = Neither
        BY <3>1 DEF JoinOK
      <4>2. Neither.is # "object"
        BY DEF Neither
      <4> QED
        BY <4>1, <4>2 DEF StringOK, FilterOK, ObjectOK, PlacesOf
    <3> QED
      BY <3>2, <3>3, <3>4
  <2>2. CASE x \in {"Where", "Having"}
    <3>1. FilterOK(item, n, cs) /\ ItemUses(x, item) = PlacesOf(item)
      BY <1>1, <2>2 DEF ClauseOK, ItemUses
    <3> QED
      BY <3>1 DEF FilterOK, ObjectOK, PlacesOf
  <2>3. CASE x = "Set"
    <3>1. SetOK(item, n) /\ ItemUses(x, item) = PlacesOf(item.to)
      BY <1>1, <2>3 DEF ClauseOK, ItemUses
    <3> QED
      BY <3>1 DEF SetOK, ObjectOK, PlacesOf
  <2>4. CASE x \in {"Columns", "Values"}
    BY <2>4 DEF ItemUses
  <2>5. CASE x \notin {"Join", "Where", "Having", "Set", "Columns", "Values"}
    <3>1. ItemOK(item, n) /\ ItemUses(x, item) = PlacesOf(item)
      BY <1>1, <2>5 DEF ClauseOK, ItemUses
    <3>2. Neither.is # "object"
      BY DEF Neither
    <3> QED
      BY <3>1, <3>2 DEF ItemOK, StringOK, ObjectOK, PlacesOf
  <2> QED
    BY <2>1, <2>2, <2>3, <2>4, <2>5
<1> QED
  BY <1>1 DEF ClauseUses

(* The statement made last becomes another.                                *)
NowBecomes(w, uses) ==
  /\ StatementOK(w, Now - 1, Places) /\ UsesOf(w) = uses /\ uses \subseteq 1..(Now - 1)
  /\ heap' = heap
  /\ objs' = [objs EXCEPT ![Now] =
                [v |-> w, means |-> objs[Now].means, refused |-> objs[Now].refused, uses |-> uses]]

LEMMA NowIs ==
  ASSUME WellMade, Now > 0, Now \notin Places
  PROVE  /\ Now \in Nat \ {0} /\ DOMAIN objs = 1..Now /\ Now \in DOMAIN objs
         /\ ThingOK(objs[Now], Now - 1, heap, Places)
         /\ ~IsCondition(objs[Now].v) /\ ~objs[Now].refused
         /\ StatementOK(objs[Now].v, Now - 1, Places) /\ objs[Now].uses = UsesOf(objs[Now].v)
         /\ objs[Now].uses \subseteq 1..(Now - 1)
         /\ objs[Now] = [v |-> objs[Now].v, means |-> objs[Now].means, refused |-> objs[Now].refused,
                         uses |-> objs[Now].uses]
<1>1. Now \in Nat \ {0} /\ DOMAIN objs = 1..Now /\ Now \in DOMAIN objs
  BY HeapFacts DEF Now
<1>2. ThingOK(objs[Now], Now - 1, heap, Places) /\ ~IsCondition(objs[Now].v)
  BY <1>1 DEF WellMade, Places
<1> QED
  BY <1>1, <1>2, Kind DEF ThingOK

LEMMA NowChanges ==
  ASSUME WellMade, Now > 0, Now \notin Places, NEW w, NEW uses, NowBecomes(w, uses)
  PROVE  /\ WellMade'
         /\ DOMAIN objs' = DOMAIN objs /\ Len(objs') = Len(objs) /\ Places' = Places
         /\ \A k \in DOMAIN objs \ {Now} : objs'[k] = objs[k]
         /\ objs'[Now].v = w /\ objs'[Now].uses = uses /\ objs'[Now].refused = objs[Now].refused
<1> DEFINE n == Now
           x == objs[n]
           y == [v |-> w, means |-> x.means, refused |-> x.refused, uses |-> uses]
<1>1. n \in Nat \ {0} /\ DOMAIN objs = 1..n /\ n \in DOMAIN objs /\ IsSeq(objs) /\ ~IsCondition(x.v) /\ ~x.refused
  BY NowIs DEF WellMade
<1>2. x.refused \in BOOLEAN
  BY NowIs DEF ThingOK
<1>3. StatementOK(w, n - 1, Places) /\ UsesOf(w) = uses /\ uses \subseteq 1..(n - 1) /\ heap' = heap
  BY DEF NowBecomes
<1>5. y.v = w /\ y.means = x.means /\ y.refused = x.refused /\ y.uses = uses
  OBVIOUS
<1>6. objs' = [objs EXCEPT ![n] = y]
  BY DEF NowBecomes
<1> HIDE DEF n
<1>7. y = [v |-> y.v, means |-> y.means, refused |-> y.refused, uses |-> y.uses]
  BY <1>5
<1> HIDE DEF x, y
<1>8. /\ DOMAIN objs' = 1..n /\ objs'[n] = y /\ (\A k \in 1..n \ {n} : objs'[k] = objs[k])
      /\ IsSeq(objs') /\ Len(objs') = n
  <2>1. DOMAIN objs' = 1..n /\ objs' = [k \in 1..n |-> objs'[k]]
    BY <1>1, <1>6
  <2> QED
    BY <1>1, <1>6, <2>1, FunctionIsSeq
<1>9. ~IsCondition(y.v)
  BY <1>3, <1>5, Kind
<1>10. Places' = Places
  <2>1. \A k \in 1..n : IsCondition(objs'[k].v) <=> IsCondition(objs[k].v)
    BY <1>1, <1>8, <1>9 DEF x
  <2> QED
    BY <1>1, <1>8, <2>1 DEF Places, IsCondition
<1>11. ThingOK(y, n - 1, heap', Places')
  BY <1>1, <1>2, <1>3, <1>5, <1>7, <1>10 DEF ThingOK
<1>12. ASSUME NEW k \in DOMAIN objs' PROVE ThingOK(objs'[k], k - 1, heap', Places')
  <2>1. CASE k = n
    BY <1>8, <1>11, <2>1
  <2>2. CASE k # n
    <3>1. ThingOK(objs[k], k - 1, heap, Places) /\ objs'[k] = objs[k]
      BY <1>1, <1>8, <2>2 DEF WellMade
    <3> QED
      BY <1>3, <1>10, <3>1
  <2> QED
    BY <2>1, <2>2
<1>13. WellMade'
  BY <1>3, <1>8, <1>12 DEF WellMade, IsSeq, Now, n
<1>14. /\ DOMAIN objs' = DOMAIN objs /\ Len(objs') = n /\ Places' = Places
       /\ \A k \in DOMAIN objs \ {n} : objs'[k] = objs[k]
  BY <1>1, <1>8, <1>10
<1>15. objs'[n].v = w /\ objs'[n].uses = uses /\ objs'[n].refused = x.refused
  BY <1>5, <1>8
<1> QED
  BY <1>13, <1>14, <1>15 DEF n, x, Now

(* Builder x is given more.                                                *)
LEMMA BuildChanges ==
  ASSUME WellMade, Now > 0, Now \notin Places, NEW x, NEW items, NEW uses, Build(x, items, uses),
         IsSeq(items), \A k \in DOMAIN items : ClauseOK(x, items[k], Now - 1, Places),
         uses = ClauseUses(x, items)
  PROVE  \E w, all : NowBecomes(w, all)
<1> DEFINE n == Now
           v == objs[n].v
           w == [v EXCEPT !.cl[x] = v.cl[x] \o items]
           all == objs[n].uses \cup uses
<1>1. StatementOK(v, n - 1, Places) /\ objs[n].uses = UsesOf(v) /\ UsesOf(v) \subseteq 1..(n - 1)
  BY NowIs
<1>2. x \in DOMAIN v.cl
  BY DEF Build
<1>3. x \in BuildersOf(v.kind)
  BY <1>1, <1>2 DEF StatementOK
<1>4. IsSeq(v.cl[x]) /\ \A k \in DOMAIN v.cl[x] : ClauseOK(x, v.cl[x][k], n - 1, Places)
  BY <1>1, <1>3 DEF StatementOK
<1> DEFINE more == v.cl[x] \o items
<1> HIDE DEF v
<1>5. /\ IsSeq(more) /\ ToSet(more) = ToSet(v.cl[x]) \cup ToSet(items)
      /\ ClauseUses(x, more) = ClauseUses(x, v.cl[x]) \cup uses
  BY <1>4, ConcatIsSeq, ConcatUses
<1>6. \A k \in DOMAIN more : ClauseOK(x, more[k], n - 1, Places)
  <2>1. \A item \in ToSet(v.cl[x]) \cup ToSet(items) : ClauseOK(x, item, n - 1, Places)
    BY <1>4 DEF ToSet
  <2>2. \A k \in DOMAIN more : more[k] \in ToSet(more)
    BY DEF ToSet
  <2> QED
    BY <1>5, <2>1, <2>2
<1>7. uses \subseteq 1..(n - 1)
  BY UsesWithin
<1>8. ClauseUses(x, v.cl[x]) \subseteq ClauseUses(x, more) /\ ClauseUses(x, v.cl[x]) \subseteq UsesOf(v)
  BY <1>3, <1>5, UsesIs
<1> HIDE DEF more
<1>9. StatementOK(w, n - 1, Places) /\ UsesOf(w) = UsesOf(v) \cup ClauseUses(x, more)
  <2>1. w = [v EXCEPT !.cl[x] = more]
    BY DEF more
  <2> HIDE DEF w, n
  <2> QED
    BY <1>1, <1>3, <1>5, <1>6, <1>8, <2>1, SetClause
<1>10. UsesOf(w) = all
  BY <1>1, <1>5, <1>8, <1>9 DEF v
<1>11. heap' = heap /\ objs' = [objs EXCEPT ![n] = [v |-> w, means |-> objs[n].means,
                                                   refused |-> objs[n].refused, uses |-> all]]
  <2> DEFINE y == objs[n]
  <2>1. y = [v |-> y.v, means |-> y.means, refused |-> y.refused, uses |-> y.uses]
    BY NowIs
  <2>2. objs' = [objs EXCEPT ![n] = [[y EXCEPT !.v = [y.v EXCEPT !.cl[x] = y.v.cl[x] \o items]]
                                       EXCEPT !.uses = y.uses \cup uses]]
    BY NowIs DEF Build
  <2>3. w = [y.v EXCEPT !.cl[x] = y.v.cl[x] \o items] /\ all = y.uses \cup uses
    BY DEF v
  <2>4. heap' = heap
    BY DEF Build, Called
  <2> HIDE DEF y, w, all
  <2>5. objs' = [objs EXCEPT ![n] = [[y EXCEPT !.v = w] EXCEPT !.uses = all]]
    BY <2>2, <2>3
  <2> DEFINE z == [y EXCEPT !.v = w]
  <2>6. z = [v |-> w, means |-> y.means, refused |-> y.refused, uses |-> y.uses]
    BY <2>1
  <2> HIDE DEF z
  <2>7. [z EXCEPT !.uses = all] = [v |-> w, means |-> y.means, refused |-> y.refused, uses |-> all]
    BY <2>6
  <2>8. objs' = [objs EXCEPT ![n] = [z EXCEPT !.uses = all]]
    BY <2>5 DEF z
  <2> QED
    BY <2>4, <2>7, <2>8 DEF y
<1> QED
  BY <1>1, <1>7, <1>9, <1>10, <1>11 DEF NowBecomes

(* What builders are given.                                                *)
LEMMA BoundedIs ==
  ASSUME NEW S, NEW n \in Nat, NEW s \in BoundedSeq(S, n)
  PROVE  \E m \in Nat : s \in [1..m -> S]
<1>1. s \in UNION {[1..m -> S] : m \in 0..n}
  BY DEF BoundedSeq, SeqOf
<1>2. PICK T \in {[1..m -> S] : m \in 0..n} : s \in T
  BY <1>1
<1>3. PICK m \in 0..n : T = [1..m -> S]
  BY <1>2
<1> QED
  BY <1>2, <1>3

LEMMA UsedIs ==
  ASSUME NEW s, IsSeq(s)
  PROVE  Used(s) = UNION {PlacesOf(s[k]) : k \in DOMAIN s}
<1>1. Used(s) = UNION {PlacesOf(y) : y \in ToSet(s)}
  <2>1. \A u : u \in Used(s) <=> \E y \in ToSet(s) : y.is = "object" /\ u = y.k
    BY DEF Used
  <2>2. \A u : u \in UNION {PlacesOf(y) : y \in ToSet(s)} <=> \E y \in ToSet(s) : y.is = "object" /\ u = y.k
    BY DEF PlacesOf
  <2> QED
    BY <2>1, <2>2
<1> QED
  BY <1>1 DEF ToSet

LEMMA UsedOne ==
  ASSUME NEW item
  PROVE  Used(<<item>>) = PlacesOf(item)
<1>1. ToSet(<<item>>) = {item}
  BY OneIsSeq
<1> QED
  BY <1>1 DEF Used, PlacesOf

LEMMA GivenItems ==
  ASSUME WellMade, Now > 0, Now \notin Places
  PROVE  /\ \A x \in Strings : StringOK(x) /\ PlacesOf(x) = {}
         /\ \A x \in Others : ObjectOK(x, Now - 1)
         /\ \A x \in Filters : FilterOK(x, Now - 1, Places)
<1>1. Now \in Nat \ {0} /\ DOMAIN objs = 1..Now
  BY NowIs
<1>2. ASSUME NEW x \in Strings PROVE StringOK(x) /\ PlacesOf(x) = {}
  <2>1. x.is = "string" /\ x.s \in Seq(Symbols)
    BY QueryConstants
  <2> QED
    BY <2>1, SeqIs DEF StringOK, PlacesOf
<1>3. \A k : Obj(k).is = "object" /\ Obj(k).k = k
  BY DEF Obj
<1>4. \A k \in DOMAIN objs \ {Now} : k \in 1..(Now - 1)
  BY <1>1
<1>5. ASSUME NEW x \in Others PROVE ObjectOK(x, Now - 1)
  <2>1. PICK k \in Nestable \ {Now} : x = Obj(k)
    BY DEF Others
  <2> QED
    BY <1>3, <1>4, <2>1 DEF ObjectOK, Nestable
<1>6. ASSUME NEW x \in Filters PROVE FilterOK(x, Now - 1, Places)
  <2>1. PICK k \in Places : x = Obj(k)
    BY DEF Filters
  <2>2. k \in DOMAIN objs \ {Now}
    BY DEF Places
  <2> QED
    BY <1>3, <1>4, <2>1, <2>2 DEF FilterOK, ObjectOK
<1> QED
  BY <1>2, <1>5, <1>6

LEMMA BuildOne ==
  ASSUME WellMade, Now > 0, Now \notin Places, NEW x, NEW item, NEW uses, Build(x, <<item>>, uses),
         ClauseOK(x, item, Now - 1, Places), uses = ItemUses(x, item)
  PROVE  \E w, all : NowBecomes(w, all)
<1> DEFINE items == <<item>>
<1>1. /\ IsSeq(items) /\ (\A k \in DOMAIN items : ClauseOK(x, items[k], Now - 1, Places))
      /\ uses = ClauseUses(x, items) /\ Build(x, items, uses)
  <2>1. DOMAIN items = {1} /\ items[1] = item
    OBVIOUS
  <2> QED
    BY <2>1, OneIsSeq, OneUses
<1> HIDE DEF items
<1> QED
  BY <1>1, BuildChanges

LEMMA ListChanges ==
  ASSUME WellMade, Now > 0, Now \notin Places, BuildList
  PROVE  \E w, all : NowBecomes(w, all)
<1>1. PICK x \in {"Select", "From", "GroupBy", "OrderBy"}, item \in Strings \cup Others \cup {Neither} :
        Build(x, <<item>>, Used(<<item>>))
  BY DEF BuildList
<1>2. ItemOK(item, Now - 1)
  BY GivenItems DEF ItemOK
<1>3. ClauseOK(x, item, Now - 1, Places) /\ ItemUses(x, item) = PlacesOf(item)
  BY <1>2 DEF ClauseOK, ItemUses
<1> QED
  BY <1>1, <1>3, UsedOne, BuildOne

LEMMA FilterChanges ==
  ASSUME WellMade, Now > 0, Now \notin Places, BuildFilter
  PROVE  \E w, all : NowBecomes(w, all)
<1>1. PICK x \in {"Where", "Having"}, items \in BoundedSeq(Filters, 2) : Build(x, items, Used(items))
  BY DEF BuildFilter
<1>2. PICK n \in Nat : items \in [1..n -> Filters]
  BY BoundedIs
<1>3. IsSeq(items) /\ DOMAIN items = 1..n
  BY <1>2, FunctionIsSeq
<1>4. \A k \in DOMAIN items : FilterOK(items[k], Now - 1, Places)
  BY <1>2, GivenItems
<1>5. \A item : /\ FilterOK(item, Now - 1, Places) => ClauseOK(x, item, Now - 1, Places)
                /\ ItemUses(x, item) = PlacesOf(item)
  BY DEF ClauseOK, ItemUses
<1>6. Used(items) = ClauseUses(x, items)
  BY <1>3, <1>5, UsedIs DEF ClauseUses
<1> QED
  BY <1>1, <1>3, <1>4, <1>5, <1>6, BuildChanges

LEMMA JoinChanges ==
  ASSUME WellMade, Now > 0, Now \notin Places, BuildJoin
  PROVE  \E w, all : NowBecomes(w, all)
<1> DEFINE Bys == BoundedSeq(Strings \cup Filters \cup {Neither}, 1) \cup (Strings \X Filters)
<1>0. \E way : \E to \in Strings \cup Others, by \in Bys :
        Build("Join", <<[way |-> way, to |-> to, by |-> by]>>, Used(<<to>> \o by))
  BY Zenon DEF BuildJoin
<1>1. PICK way : \E to \in Strings \cup Others, by \in Bys :
        Build("Join", <<[way |-> way, to |-> to, by |-> by]>>, Used(<<to>> \o by))
  BY <1>0
<1>9. PICK to \in Strings \cup Others, by \in Bys :
        Build("Join", <<[way |-> way, to |-> to, by |-> by]>>, Used(<<to>> \o by))
  BY <1>1
<1> DEFINE item == [way |-> way, to |-> to, by |-> by]
<1>2. StringOK(to) \/ ObjectOK(to, Now - 1)
  BY GivenItems
<1>3. IsSeq(by) /\ \A k \in DOMAIN by : StringOK(by[k]) \/ FilterOK(by[k], Now - 1, Places) \/ by[k] = Neither
  <2>1. CASE by \in BoundedSeq(Strings \cup Filters \cup {Neither}, 1)
    <3>1. PICK n \in Nat : by \in [1..n -> Strings \cup Filters \cup {Neither}]
      BY <2>1, BoundedIs
    <3>2. IsSeq(by)
      BY <3>1, FunctionIsSeq
    <3> QED
      BY <3>1, <3>2, GivenItems
  <2>2. CASE by \in Strings \X Filters
    <3>1. PICK s \in Strings, f \in Filters : by = <<s, f>>
      BY <2>2
    <3>2. IsSeq(by) /\ by[1] = s /\ by[2] = f /\ DOMAIN by = 1..2
      BY <3>1, TwoIsSeq, IsSeqFacts
    <3> QED
      BY <3>2, GivenItems
  <2> QED
    BY <2>1, <2>2
<1>4. item.to = to /\ item.by = by
  OBVIOUS
<1> HIDE DEF item
<1>5. JoinOK(item, Now - 1, Places)
  BY <1>2, <1>3, <1>4 DEF JoinOK
<1>6. ClauseOK("Join", item, Now - 1, Places)
  BY <1>5 DEF ClauseOK
<1>7. Used(<<to>> \o by) = ItemUses("Join", item)
  <2> DEFINE ps == UNION {PlacesOf(y) : y \in ToSet(by)}
  <2>1. IsSeq(<<to>> \o by) /\ ToSet(<<to>> \o by) = {to} \cup ToSet(by)
    BY <1>3, OneIsSeq, ConcatIsSeq
  <2>2. Used(<<to>> \o by) = PlacesOf(to) \cup ps
    <3> DEFINE s == <<to>> \o by
    <3> HIDE DEF s
    <3>1. IsSeq(s) => Used(s) = UNION {PlacesOf(y) : y \in ToSet(s)}
      BY UsedIs DEF ToSet
    <3>2. Used(<<to>> \o by) = UNION {PlacesOf(y) : y \in ToSet(<<to>> \o by)}
      BY <2>1, <3>1 DEF s
    <3> QED
      BY <2>1, <3>2
  <2>3. ItemUses("Join", item) = PlacesOf(to) \cup ps
    BY <1>4 DEF ItemUses, ToSet
  <2> QED
    BY <2>2, <2>3
<1>8. Build("Join", <<item>>, ItemUses("Join", item))
  BY <1>9, <1>7 DEF item
<1> QED
  BY <1>6, <1>8, BuildOne

LEMMA SetChanges ==
  ASSUME WellMade, Now > 0, Now \notin Places, BuildSet
  PROVE  \E w, all : NowBecomes(w, all)
<1>0. PICK s \in Columns : \E to \in {[is |-> "value", x |-> ValueFor[s]]} \cup Others :
        Build("Set", <<[column |-> s, to |-> to]>>, Used(<<to>>))
  BY DEF BuildSet
<1>1. PICK to \in {[is |-> "value", x |-> ValueFor[s]]} \cup Others :
        Build("Set", <<[column |-> s, to |-> to]>>, Used(<<to>>))
  BY <1>0
<1> DEFINE item == [column |-> s, to |-> to]
           value == [is |-> "value", x |-> ValueFor[s]]
<1>2. value.is = "value" /\ item.to = to
  OBVIOUS
<1> HIDE DEF item, value
<1>3. SetOK(item, Now - 1)
  BY <1>2, GivenItems DEF SetOK, value
<1>4. ClauseOK("Set", item, Now - 1, Places) /\ ItemUses("Set", item) = PlacesOf(to)
  BY <1>2, <1>3 DEF ClauseOK, ItemUses
<1> QED
  BY <1>1, <1>4, UsedOne, BuildOne DEF item

LEMMA RowChanges ==
  ASSUME WellMade, Now > 0, Now \notin Places, BuildColumn \/ BuildRow
  PROVE  \E w, all : NowBecomes(w, all)
<1>1. CASE BuildColumn
  <2>1. PICK s \in Columns : Build("Columns", <<s>>, {})
    BY <1>1 DEF BuildColumn
  <2>2. ClauseOK("Columns", s, Now - 1, Places) /\ ItemUses("Columns", s) = {}
    BY DEF ClauseOK, ItemUses
  <2> QED
    BY <2>1, <2>2, BuildOne
<1>2. CASE BuildRow
  <2>1. PICK n \in 1..Cardinality(Columns) :
          Build("Values", <<RowOf(Len(objs[Now].v.cl["Values"]) + 1, n)>>, {})
    BY <1>2 DEF BuildRow
  <2> DEFINE row == RowOf(Len(objs[Now].v.cl["Values"]) + 1, n)
  <2>2. IsSeq(row)
    BY FunctionIsSeq DEF RowOf
  <2> HIDE DEF row
  <2>3. ClauseOK("Values", row, Now - 1, Places) /\ ItemUses("Values", row) = {}
    BY <2>2 DEF ClauseOK, ItemUses
  <2> QED
    BY <2>1, <2>3, BuildOne DEF row
<1> QED
  BY <1>1, <1>2

LEMMA LimitChanges ==
  ASSUME WellMade, Now > 0, Now \notin Places, SetLimit \/ SetOffset
  PROVE  \E w, all : NowBecomes(w, all)
<1> DEFINE x == objs[Now]
           v == x.v
           limited == [v EXCEPT !.limit = 1]
           shifted == [v EXCEPT !.offset = 1]
<1>1. /\ Now \in DOMAIN objs
      /\ x = [v |-> v, means |-> x.means, refused |-> x.refused, uses |-> x.uses]
      /\ StatementOK(v, Now - 1, Places) /\ x.uses = UsesOf(v) /\ x.uses \subseteq 1..(Now - 1)
  BY NowIs
<1>2. v = [kind |-> v.kind, cl |-> v.cl, limit |-> v.limit, offset |-> v.offset]
  BY <1>1 DEF StatementOK
<1>3. heap' = heap /\ (objs' = [objs EXCEPT ![Now].v.limit = 1] \/ objs' = [objs EXCEPT ![Now].v.offset = 1])
  BY DEF SetLimit, SetOffset, Called
<1>4. \A g, l, o : LET w == [kind |-> v.kind, cl |-> v.cl, limit |-> l, offset |-> o]
                   IN  StatementOK(w, Now - 1, Places) /\ UsesOf(w) = UsesOf(v)
  <2> TAKE g, l, o
  <2> DEFINE w == [kind |-> v.kind, cl |-> v.cl, limit |-> l, offset |-> o]
  <2>1. w.kind = v.kind /\ w.cl = v.cl /\ w = [kind |-> w.kind, cl |-> w.cl, limit |-> w.limit, offset |-> w.offset]
    OBVIOUS
  <2> HIDE DEF w
  <2>2. StatementOK(w, Now - 1, Places)
    BY <1>1, <2>1 DEF StatementOK
  <2>3. UsesOf(w) = UsesOf(v)
    BY <2>1 DEF UsesOf
  <2> QED
    BY <2>2, <2>3 DEF w
<1>5. \E w : /\ StatementOK(w, Now - 1, Places) /\ UsesOf(w) = UsesOf(v)
             /\ objs' = [objs EXCEPT ![Now] =
                           [v |-> w, means |-> x.means, refused |-> x.refused, uses |-> x.uses]]
  <2>1. CASE objs' = [objs EXCEPT ![Now].v.limit = 1]
    <3>1. limited = [kind |-> v.kind, cl |-> v.cl, limit |-> 1, offset |-> v.offset]
      BY <1>2
    <3>2. objs' = [objs EXCEPT ![Now] = [x EXCEPT !.v = limited]]
      BY <2>1
    <3> HIDE DEF limited
    <3>3. [x EXCEPT !.v = limited] = [v |-> limited, means |-> x.means, refused |-> x.refused, uses |-> x.uses]
      BY <1>1
    <3>4. StatementOK(limited, Now - 1, Places) /\ UsesOf(limited) = UsesOf(v)
      BY <1>4, <3>1
    <3> QED
      BY <3>2, <3>3, <3>4
  <2>2. CASE objs' = [objs EXCEPT ![Now].v.offset = 1]
    <3>1. shifted = [kind |-> v.kind, cl |-> v.cl, limit |-> v.limit, offset |-> 1]
      BY <1>2
    <3>2. objs' = [objs EXCEPT ![Now] = [x EXCEPT !.v = shifted]]
      BY <2>2
    <3> HIDE DEF shifted
    <3>3. [x EXCEPT !.v = shifted] = [v |-> shifted, means |-> x.means, refused |-> x.refused, uses |-> x.uses]
      BY <1>1
    <3>4. StatementOK(shifted, Now - 1, Places) /\ UsesOf(shifted) = UsesOf(v)
      BY <1>4, <3>1
    <3> QED
      BY <3>2, <3>3, <3>4
  <2> QED
    BY <1>3, <2>1, <2>2
<1> QED
  BY <1>1, <1>3, <1>5 DEF NowBecomes

LEMMA BuilderChanges ==
  ASSUME WellMade, Chaining, CallBuilder
  PROVE  \E w, all : NowBecomes(w, all)
<1>1. Now > 0 /\ Now \notin Places
  BY DEF Chaining
<1> QED
  BY <1>1, ListChanges, FilterChanges, JoinChanges, SetChanges, RowChanges, LimitChanges DEF CallBuilder

-----------------------------------------------------------------------------
(* What SelectRelation makes.                                              *)
LEMMA NameOpArgumentOK ==
  ASSUME NEW s, IsSeq(s), NEW op, op # Slot, NEW x, NEW n, x.expression => x.value \in 1..n
  PROVE  CondOK(NameOpArgument(s, op, x), n)
<1> DEFINE v  == NameOpArgument(s, op, x)
           aa == <<Slot, op, Slot>>
           p  == Identifier(s)
           q  == Argument(x)
           bb == <<p, q>>
<1>1. aa \in Seq({Slot, op}) /\ Len(aa) = 3 /\ aa[1] = Slot /\ aa[2] # Slot /\ aa[3] = Slot
  OBVIOUS
<1>2. IsSeq(bb) /\ Len(bb) = 2 /\ bb[1] = p /\ bb[2] = q
  BY TwoIsSeq
<1>3. p.type = "identifier" /\ p.name = s
  BY DEF Identifier
<1>4. /\ q.type \in {"marker", "expression"} /\ q.name = <<>> /\ q.value = x.value
      /\ q.type = "expression" => x.expression
  BY DEF Argument
<1>5. /\ v.kind = "cond" /\ v.not = FALSE /\ v.failed = FALSE /\ v.a = aa /\ v.b = bb
      /\ v = [kind |-> "cond", not |-> v.not, failed |-> v.failed, a |-> v.a, b |-> v.b]
  BY DEF NameOpArgument
<1> HIDE DEF v, aa, bb, p, q
<1>6. Count(aa, Slot, 3) = 2
  <2>1. /\ Count(aa, Slot, 0) = 0
        /\ Count(aa, Slot, 0 + 1) = Count(aa, Slot, 0) + (IF aa[0 + 1] = Slot THEN 1 ELSE 0)
        /\ Count(aa, Slot, 1 + 1) = Count(aa, Slot, 1) + (IF aa[1 + 1] = Slot THEN 1 ELSE 0)
        /\ Count(aa, Slot, 2 + 1) = Count(aa, Slot, 2) + (IF aa[2 + 1] = Slot THEN 1 ELSE 0)
    BY CountNext
  <2>2. Count(aa, Slot, 1) = 1
    BY <1>1, <2>1
  <2>3. Count(aa, Slot, 2) = 1
    BY <1>1, <2>1, <2>2
  <2> QED
    BY <1>1, <2>1, <2>3
<1>7. IsSeq(aa)
  BY <1>1, SeqIs
<1>8. \A k \in DOMAIN bb : k \in 1..2 /\ (bb[k] = p \/ bb[k] = q)
  <2>1. DOMAIN bb = 1..2
    BY <1>2, IsSeqFacts
  <2> QED
    BY <1>2, <2>1
<1>9. \A k \in DOMAIN bb : /\ bb[k].type \in {"identifier", "marker", "expression"}
                           /\ IsSeq(bb[k].name)
                           /\ bb[k].type = "expression" => bb[k].value \in 1..n
  BY <1>3, <1>4, <1>8, NoneIsSeq
<1>10. CondOK(v, n)
  BY <1>1, <1>2, <1>5, <1>6, <1>7, <1>9 DEF CondOK
<1> QED
  BY <1>10 DEF v

LEMMA SelectFromOK ==
  ASSUME NEW elect, IsSeq(elect), \A k \in DOMAIN elect : StringOK(elect[k]), NEW table, IsSeq(table),
         NEW n, NEW cs, NEW k \in cs, k \in 1..n
  PROVE  StatementOK(SelectFrom(elect, table, k), n, cs) /\ UsesOf(SelectFrom(elect, table, k)) = {k}
<1> DEFINE v == Bare("select")
           K == BuildersOf("select")
           u == [v EXCEPT !.cl["Select"] = elect]
           x == [u EXCEPT !.cl["From"] = <<Str(table)>>]
           w == [x EXCEPT !.cl["Where"] = <<Obj(k)>>]
<1>1. StatementOK(v, n, cs) /\ UsesOf(v) = {} /\ v.kind = "select" /\ \A y \in K : v.cl[y] = <<>>
  BY BareOK DEF Kinds
<1>2. SelectFrom(elect, table, k) = w
  BY DEF SelectFrom
<1>3. {"Select", "From", "Where"} \subseteq K
  BY BuildersAre
<1>4. Str(table).is = "string" /\ Str(table).s = table /\ Obj(k).is = "object" /\ Obj(k).k = k
  BY DEF Str, Obj
<1>5. ClauseOK("From", Str(table), n, cs) /\ ItemUses("From", Str(table)) = {}
  <2>1. ItemOK(Str(table), n) /\ PlacesOf(Str(table)) = {}
    BY <1>4 DEF ItemOK, StringOK, PlacesOf
  <2> QED
    BY <2>1 DEF ClauseOK, ItemUses
<1>6. ClauseOK("Where", Obj(k), n, cs) /\ ItemUses("Where", Obj(k)) = {k}
  <2>1. FilterOK(Obj(k), n, cs) /\ PlacesOf(Obj(k)) = {k}
    BY <1>4 DEF FilterOK, ObjectOK, PlacesOf
  <2> QED
    BY <2>1 DEF ClauseOK, ItemUses
<1>7. (\A j \in DOMAIN elect : ClauseOK("Select", elect[j], n, cs)) /\ ClauseUses("Select", elect) = {}
  <2>1. \A j \in DOMAIN elect : ItemOK(elect[j], n) /\ PlacesOf(elect[j]) = {}
    BY DEF ItemOK, StringOK, PlacesOf
  <2>2. \A y : ItemUses("Select", y) = PlacesOf(y) /\ (ItemOK(y, n) => ClauseOK("Select", y, n, cs))
    BY DEF ClauseOK, ItemUses
  <2> QED
    BY <2>1, <2>2 DEF ClauseUses
<1>8. ClauseUses("Select", v.cl["Select"]) \subseteq ClauseUses("Select", elect)
  BY <1>1, <1>3, NoUses
<1> HIDE DEF v, K
<1>9. /\ StatementOK(u, n, cs) /\ u.kind = "select" /\ UsesOf(u) = {}
      /\ u.cl["From"] = <<>> /\ u.cl["Where"] = <<>>
  <2>1. "Select" \in BuildersOf(v.kind) /\ K = BuildersOf(v.kind)
    BY <1>1, <1>3 DEF K
  <2>2. /\ StatementOK(u, n, cs) /\ u.kind = v.kind
        /\ \A y \in BuildersOf(v.kind) \ {"Select"} : u.cl[y] = v.cl[y]
        /\ UsesOf(u) = UsesOf(v) \cup ClauseUses("Select", elect)
    <3>1. u = [v EXCEPT !.cl["Select"] = elect]
      OBVIOUS
    <3> HIDE DEF u
    <3> DEFINE y == "Select"
    <3>2. /\ y \in BuildersOf(v.kind) /\ StatementOK(v, n, cs) /\ u = [v EXCEPT !.cl[y] = elect]
          /\ (\A j \in DOMAIN elect : ClauseOK(y, elect[j], n, cs))
          /\ ClauseUses(y, v.cl[y]) \subseteq ClauseUses(y, elect)
      BY <1>1, <1>7, <1>8, <2>1, <3>1
    <3> HIDE DEF y
    <3>3. /\ StatementOK(u, n, cs) /\ u.kind = v.kind
          /\ \A z \in BuildersOf(v.kind) \ {y} : u.cl[z] = v.cl[z]
          /\ UsesOf(u) = UsesOf(v) \cup ClauseUses(y, elect)
      BY <3>2, SetClause
    <3> QED
      BY <3>3 DEF y
  <2> HIDE DEF u
  <2> QED
    BY <1>1, <1>3, <1>7, <2>1, <2>2
<1> HIDE DEF u
<1>10. StatementOK(x, n, cs) /\ x.kind = "select" /\ UsesOf(x) = {} /\ x.cl["Where"] = <<>>
  <2>1. "From" \in BuildersOf(u.kind) /\ "Where" \in BuildersOf(u.kind) \ {"From"}
    BY <1>3, <1>9 DEF K
  <2> QED
    BY <1>5, <1>9, <2>1, FirstItem
<1> HIDE DEF x
<1>11. StatementOK(w, n, cs) /\ UsesOf(w) = {k}
  <2>1. "Where" \in BuildersOf(x.kind)
    BY <1>3, <1>10 DEF K
  <2> QED
    BY <1>6, <1>10, <2>1, FirstItem
<1> QED
  BY <1>2, <1>11

LEMMA ThingIs ==
  ASSUME NEW v, NEW uses
  PROVE  /\ Thing(v, uses) = [v |-> Thing(v, uses).v, means |-> Thing(v, uses).means,
                              refused |-> Thing(v, uses).refused, uses |-> Thing(v, uses).uses]
         /\ Thing(v, uses).v = v /\ Thing(v, uses).refused = FALSE /\ Thing(v, uses).uses = uses
  BY DEF Thing

LEMMA ElectedStrings ==
  ASSUME NEW r \in Relations, NEW columns
  PROVE  LET elect == [j \in DOMAIN Elect(r, columns) |-> Str(Elect(r, columns)[j].name)]
         IN  IsSeq(elect) /\ \A k \in DOMAIN elect : StringOK(elect[k])
<1> DEFINE Col == [name : Seq(Symbols), many : BOOLEAN]
           ps  == [j \in DOMAIN r.columns |->
                     IF Elected(columns, r.columns[j]) THEN <<r.columns[j]>> ELSE <<>>]
           es  == Elect(r, columns)
           elect == [j \in DOMAIN es |-> Str(es[j].name)]
<1>1. r.columns \in Seq(Col)
  BY RelationConstants DEF RelationDecl
<1>2. ps \in Seq(Seq(Col)) /\ es = FlattenSeq(ps)
  <2>1. Len(r.columns) \in Nat /\ DOMAIN r.columns = 1..Len(r.columns) /\ \A j \in DOMAIN r.columns : r.columns[j] \in Col
    BY <1>1, LenProperties, ElementOfSeq
  <2> HIDE DEF Col
  <2>2. ps \in [1..Len(r.columns) -> Seq(Col)]
    BY <2>1
  <2> QED
    BY <2>1, <2>2, SeqDef DEF Elect
<1> HIDE DEF ps
<1>3. es \in Seq(Col)
  BY <1>2, FlattenType
<1> HIDE DEF es
<1>4. Len(es) \in Nat /\ DOMAIN es = 1..Len(es) /\ \A j \in DOMAIN es : es[j] \in Col
  BY <1>3, LenProperties, ElementOfSeq
<1>5. IsSeq(elect)
  BY <1>4, FunctionIsSeq
<1>6. ASSUME NEW k \in DOMAIN elect PROVE StringOK(elect[k])
  <2>1. elect[k] = Str(es[k].name) /\ es[k].name \in Seq(Symbols)
    BY <1>4
  <2>2. Str(es[k].name).is = "string" /\ Str(es[k].name).s = es[k].name
    BY DEF Str
  <2> QED
    BY <2>1, <2>2, SeqIs DEF StringOK
<1> QED
  BY <1>5, <1>6 DEF es

LEMMA ConditionThing ==
  ASSUME NEW v, NEW n, CondOK(v, n), NEW uses, uses \subseteq 1..n, NEW h, NEW cs
  PROVE  ThingOK(Thing(v, uses), n, h, cs)
<1> DEFINE x == Thing(v, uses)
<1>1. /\ x = [v |-> x.v, means |-> x.means, refused |-> x.refused, uses |-> x.uses]
      /\ x.v = v /\ x.refused = FALSE /\ x.uses = uses
  BY ThingIs
<1> HIDE DEF x
<1>2. ThingOK(x, n, h, cs)
  BY <1>1 DEF ThingOK, ConditionOK
<1> QED
  BY <1>2 DEF x

LEMMA StatementThing ==
  ASSUME NEW v, NEW n, NEW cs, NEW uses, StatementOK(v, n, cs), UsesOf(v) = uses, uses \subseteq 1..n, NEW h
  PROVE  ThingOK(Thing(v, uses), n, h, cs)
<1> DEFINE x == Thing(v, uses)
<1>1. /\ x = [v |-> x.v, means |-> x.means, refused |-> x.refused, uses |-> x.uses]
      /\ x.v = v /\ x.refused = FALSE /\ x.uses = uses
  BY ThingIs
<1> HIDE DEF x
<1>2. ThingOK(x, n, h, cs)
  BY <1>1 DEF ThingOK
<1> QED
  BY <1>2 DEF x

LEMMA RelationMakes ==
  ASSUME WellMade, NEW r \in Relations, NEW columns \in Selections, SelectRelation(r, columns)
  PROVE  WellMade'
<1> DEFINE elect == [j \in DOMAIN Elect(r, columns) |-> Str(Elect(r, columns)[j].name)]
           ofOwner == NameOpArgument(r.left, "=", Plain(ValueFor[r.left]))
           joined  == [expression |-> TRUE, value |-> 2]
           right   == <<Str(r.right)>>
           last(k) == Thing(SelectFrom(elect, r.table, k), {k})
           first   == Thing(ofOwner, {})
           second  == Thing(SelectFrom(right, r.join, 1), {1})
           third   == Thing(NameOpArgument(r.key, "IN", joined), {2})
<1>1. objs = <<>> /\ objs' = MadeFor(r, columns) /\ heap' = heap
  BY DEF SelectRelation
<1>2. IsSeq(r.left) /\ IsSeq(r.right) /\ IsSeq(r.key) /\ IsSeq(r.table) /\ IsSeq(r.join)
  <2>1. r.left \in Seq(Symbols) /\ r.right \in Seq(Symbols)
    BY RelationConstants, QueryConstants DEF RelationDecl
  <2>2. r.key \in Seq(Symbols) /\ r.table \in Seq(Symbols) /\ r.join \in Seq(Symbols)
    BY RelationConstants DEF RelationDecl
  <2> QED
    BY <2>1, <2>2, SeqIs
<1>3. IsSeq(elect) /\ \A k \in DOMAIN elect : StringOK(elect[k])
  BY ElectedStrings
<1>4. IsSeq(right) /\ \A k \in DOMAIN right : StringOK(right[k])
  <2>1. Str(r.right).is = "string" /\ Str(r.right).s = r.right
    BY DEF Str
  <2> QED
    BY <1>2, <2>1, OneIsSeq DEF StringOK
<1>5. "=" # Slot /\ "IN" # Slot
  BY DEF Slot
<1>6. CondOK(ofOwner, 0)
  <2>1. Plain(ValueFor[r.left]).expression = FALSE
    BY DEF Plain
  <2> QED
    BY <1>2, <1>5, <2>1, NameOpArgumentOK
<1>7. CondOK(NameOpArgument(r.key, "IN", joined), 2)
  <2>1. joined.expression => joined.value \in 1..2
    OBVIOUS
  <2> HIDE DEF joined
  <2> QED
    BY <1>2, <1>5, <2>1, NameOpArgumentOK
<1>10. IsCondition(first.v) /\ IsCondition(third.v)
  <2>1. \A v, n, uses : CondOK(v, n) => IsCondition(Thing(v, uses).v)
    <3> TAKE v, n, uses
    <3>1. Thing(v, uses).v = v
      BY ThingIs
    <3> QED
      BY <3>1 DEF CondOK, IsCondition
  <2> QED
    BY <1>6, <1>7, <2>1
<1>8. CASE r.relation = "one_to_many"
  <2>1. objs' = <<first, last(1)>>
    BY <1>1, <1>8 DEF MadeFor
  <2> HIDE DEF first, elect
  <2>2. IsSeq(objs') /\ Len(objs') = 2 /\ DOMAIN objs' = 1..2 /\ objs'[1] = first /\ objs'[2] = last(1)
    BY <2>1, TwoIsSeq, IsSeqFacts
  <2>3. 1 \in Places'
    <3>1. IsCondition(first.v)
      BY <1>10
    <3> QED
      BY <2>2, <3>1 DEF Places, IsCondition
  <2>4. ThingOK(first, 0, heap', Places')
    BY <1>6, ConditionThing DEF first
  <2>5. ThingOK(last(1), 1, heap', Places')
    BY <1>2, <1>3, <2>3, SelectFromOK, StatementThing
  <2> HIDE DEF last
  <2>6. \A k \in DOMAIN objs' : ThingOK(objs'[k], k - 1, heap', Places')
    <3>1. 1 - 1 = 0 /\ 2 - 1 = 1 /\ \A k \in 1..2 : k = 1 \/ k = 2
      OBVIOUS
    <3> QED
      BY <2>2, <2>4, <2>5, <3>1
  <2>7. \A m \in DOMAIN heap' : ArrayOK(heap'[m], Len(objs') - 1, heap')
    <3>1. Len(objs) = 0 /\ 1..(0 - 1) \subseteq 1..(2 - 1)
      BY <1>1, NoneIsSeq
    <3>2. \A m \in DOMAIN heap : ArrayOK(heap[m], 0 - 1, heap)
      BY <3>1 DEF WellMade
    <3>3. More(heap, heap)
      BY DEF More
    <3> QED
      BY <1>1, <2>2, <3>1, <3>2, <3>3, ArrayMore
  <2> QED
    BY <1>1, <2>2, <2>6, <2>7 DEF WellMade, IsSeq
<1>9. CASE r.relation # "one_to_many"
  <2>1. objs' = <<first, second, third, last(3)>>
    BY <1>1, <1>9 DEF MadeFor
  <2> HIDE DEF first, second, third, elect, right
  <2>2. /\ IsSeq(objs') /\ Len(objs') = 4 /\ DOMAIN objs' = 1..4
        /\ objs'[1] = first /\ objs'[2] = second /\ objs'[3] = third /\ objs'[4] = last(3)
    BY <2>1, FourIsSeq, IsSeqFacts
  <2>3. 1 \in Places' /\ 3 \in Places'
    <3>1. IsCondition(first.v) /\ IsCondition(third.v)
      BY <1>10
    <3> QED
      BY <2>2, <3>1 DEF Places, IsCondition
  <2>4. ThingOK(first, 0, heap', Places')
    BY <1>6, ConditionThing DEF first
  <2>5. ThingOK(second, 1, heap', Places')
    BY <1>2, <1>4, <2>3, SelectFromOK, StatementThing DEF second
  <2>6. ThingOK(third, 2, heap', Places')
    BY <1>7, ConditionThing DEF third
  <2>7. ThingOK(last(3), 3, heap', Places')
    <3> DEFINE v == SelectFrom(elect, r.table, 3)
    <3>1. 3 \in 1..3 /\ {3} \subseteq 1..3
      OBVIOUS
    <3>2. StatementOK(v, 3, Places') /\ UsesOf(v) = {3}
      BY <1>2, <1>3, <2>3, <3>1, SelectFromOK
    <3> HIDE DEF v
    <3>3. ThingOK(Thing(v, {3}), 3, heap', Places')
      BY <3>1, <3>2, StatementThing
    <3> QED
      BY <3>3 DEF v
  <2> HIDE DEF last
  <2>8. \A k \in DOMAIN objs' : ThingOK(objs'[k], k - 1, heap', Places')
    <3>1. 1 - 1 = 0 /\ 2 - 1 = 1 /\ 3 - 1 = 2 /\ 4 - 1 = 3 /\ \A k \in 1..4 : k = 1 \/ k = 2 \/ k = 3 \/ k = 4
      OBVIOUS
    <3> QED
      BY <2>2, <2>4, <2>5, <2>6, <2>7, <3>1
  <2>9. \A m \in DOMAIN heap' : ArrayOK(heap'[m], Len(objs') - 1, heap')
    <3>1. Len(objs) = 0 /\ 1..(0 - 1) \subseteq 1..(4 - 1)
      BY <1>1, NoneIsSeq
    <3>2. \A m \in DOMAIN heap : ArrayOK(heap[m], 0 - 1, heap)
      BY <3>1 DEF WellMade
    <3>3. More(heap, heap)
      BY DEF More
    <3> QED
      BY <1>1, <2>2, <3>1, <3>2, <3>3, ArrayMore
  <2> QED
    BY <1>1, <2>2, <2>8, <2>9 DEF WellMade, IsSeq
<1> QED
  BY <1>8, <1>9

-----------------------------------------------------------------------------
(* Every step of a program.                                                *)
Same == UNCHANGED <<objs, heap>>

LEMMA StepIs ==
  ASSUME Sized, [RelationNext]_<<vars, sent>>
  PROVE  \/ \E r \in Relations, columns \in Selections : SelectRelation(r, columns)
         \/ Same /\ \E v : /\ args' = v
                           /\ v = args \/ \A j \in DOMAIN v : v[j].expression => v[j].value \in DOMAIN objs
         \/ \E neg \in BOOLEAN : Return(neg)
         \/ \E and, room \in BOOLEAN, j, k \in Places : Connect(and, j, k, room)
         \/ \E and \in BOOLEAN, j, k \in Places : Chain(and, j, k)
         \/ \E k \in Places : NotOf(k)
         \/ \E kind \in Kinds, j \in {0} \cup Places : NewStatement(kind) \/ NewUsual(kind, j)
         \/ Chaining /\ CallBuilder
<1>1. ASSUME ~sent, Room, NEW q \in Calls, Call(q)
      PROVE  Same /\ \A j \in DOMAIN args' : args'[j].expression => args'[j].value \in DOMAIN objs
  BY <1>1, CallBegins DEF Begin, Same
<1>2. \A q \in (IF objs = <<>> THEN Calls ELSE Building) : q \in Calls
  BY QueryConstants
<1>3. CASE ~sent /\ Next
  <2>1. CASE Room /\ MakeSomething
    <3>1. CASE MakeAnything
      BY <1>1, <1>2, <1>3, <2>1, <3>1 DEF MakeAnything, Kinds
    <3>2. CASE ExtendLatest
      BY <3>2 DEF ExtendLatest
    <3> QED
      BY <2>1, <3>1, <3>2 DEF MakeSomething
  <2>2. CASE ScanStep
    BY <2>2 DEF ScanStep, Scan, DoubledSign, OpenName, NameSymbol, CloseName, TakeArgument, Literal, Refuse,
                Accept, Same
  <2> QED
    BY <1>3, <2>1, <2>2 DEF Next
<1>4. CASE UNCHANGED <<vars, sent>>
  BY <1>4 DEF vars, Same
<1> QED
  BY <1>3, <1>4 DEF RelationNext, SelectRelations

LEMMA MakeGrows ==
  ASSUME WellMade, NEW v, NEW means, NEW refused, NEW uses, Make(v, means, refused, uses)
  PROVE  DOMAIN objs \subseteq DOMAIN objs'
<1>1. IsSeq(objs) /\ Len(objs) \in Nat /\ DOMAIN objs = 1..Len(objs)
  BY HeapFacts DEF WellMade
<1>2. PICK x : objs' = Append(objs, x)
  BY DEF Make
<1>3. DOMAIN objs' = 1..(Len(objs) + 1)
  BY <1>1, <1>2, AppendIsSeq
<1> QED
  BY <1>1, <1>3

(* Only the scanner's caller touches the arguments.                        *)
LEMMA ArgumentsStay ==
  ASSUME args' = args, DOMAIN objs \subseteq DOMAIN objs', ArgumentsMade
  PROVE  ArgumentsMade'
  BY DEF ArgumentsMade

LEMMA MadeStep ==
  ASSUME Sized, ScanTypeOK, SlotsFilled, ArgumentsInOrder, WellMade, ArgumentsMade,
         [RelationNext]_<<vars, sent>>
  PROVE  WellMade' /\ ArgumentsMade'
<1>1. ASSUME NEW r \in Relations, NEW columns \in Selections, SelectRelation(r, columns)
      PROVE  WellMade' /\ ArgumentsMade'
  <2>1. WellMade'
    BY <1>1, RelationMakes
  <2>2. objs = <<>> /\ args' = args
    BY <1>1 DEF SelectRelation
  <2>3. DOMAIN objs = {}
    BY <2>2, NoneIsSeq
  <2>4. DOMAIN objs \subseteq DOMAIN objs'
    BY <2>3
  <2> QED
    BY <2>1, <2>2, <2>4, ArgumentsStay
<1>2. ASSUME Same, NEW v, args' = v, v = args \/ \A j \in DOMAIN v : v[j].expression => v[j].value \in DOMAIN objs
      PROVE  WellMade' /\ ArgumentsMade'
  <2>1. objs' = objs /\ heap' = heap
    BY <1>2 DEF Same
  <2>2. Places' = Places
    BY <2>1 DEF Places, IsCondition
  <2>3. WellMade'
    BY <2>1, <2>2 DEF WellMade, IsSeq
  <2> QED
    BY <1>2, <2>1, <2>3 DEF ArgumentsMade
<1>3. ASSUME NEW neg \in BOOLEAN, Return(neg) PROVE WellMade' /\ ArgumentsMade'
  <2>1. WellMade'
    BY <1>3, ReturnMakes
  <2>2. args' = args /\ DOMAIN objs \subseteq DOMAIN objs'
    BY MakeGrows, <1>3 DEF Return, Leave
  <2> QED
    BY <2>1, <2>2, ArgumentsStay
<1>4. ASSUME NEW and \in BOOLEAN, NEW room \in BOOLEAN, NEW j \in Places, NEW k \in Places,
             Connect(and, j, k, room) \/ Chain(and, j, k)
      PROVE  WellMade' /\ ArgumentsMade'
  <2>1. WellMade'
    BY <1>4, ConnectMakes
  <2>2. args' = args /\ DOMAIN objs \subseteq DOMAIN objs'
    BY MakeGrows, <1>4 DEF Connect, Chain, Made
  <2> QED
    BY <2>1, <2>2, ArgumentsStay
<1>5. ASSUME NEW k \in Places, NotOf(k) PROVE WellMade' /\ ArgumentsMade'
  <2>1. WellMade'
    BY <1>5, NotMakes
  <2>2. args' = args /\ DOMAIN objs \subseteq DOMAIN objs'
    BY MakeGrows, <1>5 DEF NotOf
  <2> QED
    BY <2>1, <2>2, ArgumentsStay
<1>6. ASSUME NEW kind \in Kinds, NEW j \in {0} \cup Places, NewStatement(kind) \/ NewUsual(kind, j)
      PROVE  WellMade' /\ ArgumentsMade'
  <2>1. WellMade'
    BY <1>6, NewMakes
  <2>2. args' = args /\ DOMAIN objs \subseteq DOMAIN objs'
    BY MakeGrows, <1>6 DEF NewStatement, NewUsual
  <2> QED
    BY <2>1, <2>2, ArgumentsStay
<1>7. ASSUME Chaining, CallBuilder PROVE WellMade' /\ ArgumentsMade'
  <2>1. PICK w, all : NowBecomes(w, all)
    BY <1>7, BuilderChanges
  <2>2. WellMade' /\ DOMAIN objs' = DOMAIN objs
    BY <1>7, <2>1, NowChanges DEF Chaining
  <2>3. args' = args
    BY <1>7, Builds DEF Called
  <2> QED
    BY <2>2, <2>3, ArgumentsStay
<1> QED
  BY StepIs, <1>1, <1>2, <1>3, <1>4, <1>5, <1>6, <1>7

LEMMA MadeAlways == RelationSpec => [](WellMade /\ ArgumentsMade)
<1>1. RelationInit => WellMade /\ ArgumentsMade
  BY NoneIsSeq DEF RelationInit, Init, ScanInit, WellMade, ArgumentsMade
<1>2. /\ Sized /\ ScanTypeOK /\ SlotsFilled /\ ArgumentsInOrder /\ WellMade /\ ArgumentsMade
      /\ [RelationNext]_<<vars, sent>>
      => (WellMade /\ ArgumentsMade)'
  BY MadeStep
<1>3. RelationSpec => []ScanTypeOK /\ [](SlotsFilled /\ ArgumentsInOrder)
  BY ProgramScans, ScannerTypeCorrect, SprintfHasItsValues
<1> QED
  BY <1>1, <1>2, <1>3, SizedAlways, PTL DEF RelationSpec

-----------------------------------------------------------------------------
(* What a program makes is made of what was made before, and a connective  *)
(* has its operands within its array: nothing refers to what is not there, *)
(* in programs of any length, with any calls of Cond and Not.              *)
THEOREM ProgramsTypeCorrect == RelationSpec => []TypeOK
<1>1. ScanTypeOK /\ Sized /\ WellMade => TypeOK
  <2> SUFFICES ASSUME ScanTypeOK, Sized, WellMade PROVE TypeOK
    OBVIOUS
  <2>1. clauses \in 0..MaxClauses
    BY DEF Sized
  <2>2. ASSUME NEW k \in DOMAIN objs PROVE objs[k].uses \subseteq 1..(k - 1)
    BY DEF WellMade, ThingOK
  <2>3. ASSUME NEW k \in DOMAIN objs, objs[k].v.kind = "logic"
        PROVE  objs[k].v.array \in DOMAIN heap /\ objs[k].v.len <= Len(heap[objs[k].v.array].of)
    <3>1. k \in Places
      BY <2>3 DEF Places, IsCondition
    <3>2. ConditionOK(objs[k].v, k - 1, heap)
      BY <3>1, PlaceOK
    <3>3. LogicOK(objs[k].v, heap)
      BY <2>3, <3>2 DEF ConditionOK, CondOK
    <3> QED
      BY <3>3 DEF LogicOK
  <2> QED
    BY <2>1, <2>2, <2>3 DEF TypeOK
<1>2. RelationSpec => []ScanTypeOK
  BY ProgramScans, ScannerTypeCorrect
<1> QED
  BY <1>1, <1>2, SizedAlways, MadeAlways, PTL

LEMMA MakeKeeps ==
  ASSUME WellMade, NEW v, NEW means, NEW refused, NEW uses, Make(v, means, refused, uses)
  PROVE  \A k \in DOMAIN objs : objs'[k] = objs[k]
<1>1. IsSeq(objs) /\ DOMAIN objs = 1..Len(objs)
  BY HeapFacts DEF WellMade
<1>2. PICK x : objs' = Append(objs, x)
  BY DEF Make
<1> QED
  BY <1>1, <1>2, AppendIsSeq

LEMMA AppendKeeps ==
  ASSUME WellMade, NEW x, heap' = Append(heap, x)
  PROVE  More(heap, heap')
<1>1. IsSeq(heap) /\ DOMAIN heap = 1..Len(heap) /\ Len(heap) \in Nat
  BY HeapFacts DEF WellMade
<1>2. DOMAIN heap' = 1..(Len(heap) + 1) /\ \A k \in 1..Len(heap) : heap'[k] = heap[k]
  BY <1>1, AppendIsSeq
<1> QED
  BY <1>1, <1>2 DEF More

(* No step changes a condition or an array.                                *)
LEMMA Keeps ==
  ASSUME Sized, WellMade, [RelationNext]_<<vars, sent>>
  PROVE  More(heap, heap') /\ \A k \in Places : objs'[k] = objs[k]
<1>0. More(heap, heap) /\ Places \subseteq DOMAIN objs
  BY DEF More, Places
<1>1. ASSUME NEW r, NEW columns, SelectRelation(r, columns)
      PROVE  More(heap, heap') /\ \A k \in Places : objs'[k] = objs[k]
  <2>1. heap' = heap /\ objs = <<>>
    BY <1>1 DEF SelectRelation
  <2>2. Places = {}
    BY <2>1, NoneIsSeq DEF Places
  <2> QED
    BY <1>0, <2>1, <2>2
<1>2. CASE Same
  BY <1>0, <1>2 DEF Same
<1>3. ASSUME NEW neg, Return(neg)
      PROVE  More(heap, heap') /\ \A k \in Places : objs'[k] = objs[k]
  BY <1>0, <1>3, MakeKeeps DEF Return
<1>4. ASSUME NEW and \in BOOLEAN, NEW room \in BOOLEAN, NEW j \in Places, NEW k \in Places,
             Connect(and, j, k, room) \/ Chain(and, j, k)
      PROVE  More(heap, heap') /\ \A m \in Places : objs'[m] = objs[m]
  <2>1. \E failed, vs, x : Joins(and, failed, vs, x, j, k)
    BY <1>4, ConnectJoins, ChainJoins
  <2>2. \E x : heap' = Append(heap, x)
    BY <2>1 DEF Joins
  <2>3. \E v, means, refused, uses : Make(v, means, refused, uses)
    BY <2>1 DEF Joins
  <2> QED
    BY <1>0, <2>2, <2>3, MakeKeeps, AppendKeeps
<1>5. ASSUME NEW k \in Places, NotOf(k)
      PROVE  More(heap, heap') /\ \A m \in Places : objs'[m] = objs[m]
  <2>1. More(heap, heap')
    <3>1. IF objs[k].v.kind = "cond" THEN heap' = heap ELSE Mirrors(heap')
      BY <1>5, NegatedHeapIs DEF NotOf
    <3> QED
      BY <1>0, <3>1 DEF Mirrors
  <2> QED
    BY <1>0, <1>5, <2>1, MakeKeeps DEF NotOf
<1>6. ASSUME NEW kind, NEW j, NewStatement(kind) \/ NewUsual(kind, j)
      PROVE  More(heap, heap') /\ \A m \in Places : objs'[m] = objs[m]
  BY <1>0, <1>6, MakeKeeps DEF NewStatement, NewUsual
<1>7. ASSUME Chaining, CallBuilder
      PROVE  More(heap, heap') /\ \A m \in Places : objs'[m] = objs[m]
  <2>1. PICK w, all : NowBecomes(w, all)
    BY <1>7, BuilderChanges
  <2>2. \A k \in DOMAIN objs \ {Now} : objs'[k] = objs[k]
    BY <1>7, <2>1, NowChanges DEF Chaining
  <2>3. heap' = heap /\ Now \notin Places
    BY <1>7, <2>1 DEF NowBecomes, Chaining
  <2> QED
    BY <1>0, <2>2, <2>3
<1> QED
  BY StepIs, <1>1, <1>2, <1>3, <1>4, <1>5, <1>6, <1>7

(* A condition is a value: no operation on it or on others, no builder     *)
(* that it is given to, and no array that it shares its operands with ever *)
(* changes it, however many are connected, extended and negated.           *)
(* (logic.And, logic.Or and logic.Not, cond.go)                            *)
THEOREM ConditionsAreValues == RelationSpec => Persistent
<1>1. Sized /\ WellMade /\ [RelationNext]_<<vars, sent>>
      => [ /\ \A m \in DOMAIN heap : heap'[m] = heap[m]
           /\ \A k \in Places : objs'[k].v = objs[k].v ]_vars
  BY Keeps DEF More
<1> QED
  BY <1>1, SizedAlways, MadeAlways, PTL DEF RelationSpec, Persistent

-----------------------------------------------------------------------------
(* Names in back quotes.  What is read of a format that starts with one.   *)
QuotedName(s) == FlattenSeq(Quoted(s))
Begins(s, n)  == SubSeq(s, 1, n)

LEMMA StandsAtEnd ==
  ASSUME NEW T, NEW t \in Seq(T), NEW u \in Seq(T)
  PROVE  Stands(u, t \o u, Len(t))
<1>1. /\ Len(t) \in Nat /\ Len(u) \in Nat /\ Len(t \o u) = Len(t) + Len(u)
      /\ \A k \in 1..(Len(t) + Len(u)) : (t \o u)[k] = IF k <= Len(t) THEN t[k] ELSE u[k - Len(t)]
  BY LenProperties, ConcatProperties
<1>2. ASSUME NEW q \in 1..Len(u) PROVE (t \o u)[Len(t) + q] = u[q]
  <2>1. Len(t) + q \in 1..(Len(t) + Len(u)) /\ ~(Len(t) + q <= Len(t)) /\ (Len(t) + q) - Len(t) = q
    BY <1>1
  <2> QED
    BY <1>1, <2>1
<1> QED
  BY <1>1, <1>2 DEF Stands

LEMMA StandsInMore ==
  ASSUME NEW T, NEW s \in Seq(T), NEW w \in Seq(T), NEW t \in Seq(T), NEW n \in Nat, Stands(t, s, n)
  PROVE  Stands(t, s \o w, n)
<1>1. /\ Len(s) \in Nat /\ Len(w) \in Nat /\ Len(t) \in Nat /\ Len(s \o w) = Len(s) + Len(w)
      /\ \A k \in 1..(Len(s) + Len(w)) : (s \o w)[k] = IF k <= Len(s) THEN s[k] ELSE w[k - Len(s)]
  BY LenProperties, ConcatProperties
<1>2. n + Len(t) <= Len(s) /\ \A q \in 1..Len(t) : s[n + q] = t[q]
  BY DEF Stands
<1>3. ASSUME NEW q \in 1..Len(t) PROVE (s \o w)[n + q] = t[q]
  <2>1. n + q \in 1..(Len(s) + Len(w)) /\ n + q <= Len(s)
    BY <1>1, <1>2
  <2> QED
    BY <1>1, <1>2, <2>1
<1> QED
  BY <1>1, <1>2, <1>3 DEF Stands

LEMMA BeginsNext ==
  ASSUME NEW s \in Seq(Text), NEW n \in 0..(Len(s) - 1)
  PROVE  /\ Begins(s, n) \in Seq(Text) /\ s[n + 1] \in Text
         /\ Begins(s, n + 1) = Append(Begins(s, n), s[n + 1])
         /\ QuotedName(Begins(s, n)) \in Seq(Text) /\ QuoteRead(s[n + 1]) \in Seq(Text)
         /\ QuotedName(Begins(s, n + 1)) = QuotedName(Begins(s, n)) \o QuoteRead(s[n + 1])
<1>1. Len(s) \in Nat /\ n \in Nat /\ n + 1 \in 1..Len(s) /\ (n + 1) - 1 = n
  BY LenProperties
<1>2. s[n + 1] \in Text /\ Quote \in Text
  BY <1>1, ElementOfSeq DEF Text
<1>3. Begins(s, n) \in Seq(Text)
  <2>1. \A k \in 1..n : s[k] \in Text
    BY <1>1, ElementOfSeq
  <2> QED
    BY <1>1, <2>1, SubSeqProperties DEF Begins
<1>4. Begins(s, n + 1) = Begins(s, n) \o <<s[n + 1]>>
  BY <1>1, SubSeqRecursiveSecond DEF Begins
<1>5. Begins(s, n + 1) = Append(Begins(s, n), s[n + 1])
  BY <1>2, <1>3, <1>4, AppendIsConcat
<1>6. QuoteRead(s[n + 1]) \in Seq(Text)
  BY <1>2 DEF QuoteRead
<1> QED
  BY <1>2, <1>3, <1>5, <1>6, QuotedType, QuotedNext DEF QuotedName

LEMMA BeginsAll ==
  ASSUME NEW s \in Seq(Text)
  PROVE  Begins(s, 0) = <<>> /\ Begins(s, Len(s)) = s /\ QuotedName(<<>>) = <<>>
<1>1. Begins(s, 0) = <<>>
  BY SubSeqEmpty DEF Begins
<1>2. Begins(s, Len(s)) = s
  BY SubSeqFull DEF Begins
<1> QED
  BY <1>1, <1>2, NothingRead DEF QuotedName

(* The symbols of a name, in back quotes, one after the other.             *)
LEMMA QuotedStands ==
  ASSUME NEW s \in Seq(Text), NEW n \in 0..(Len(s) - 1)
  PROVE  Stands(QuoteRead(s[n + 1]), QuotedName(s), Len(QuotedName(Begins(s, n))))
<1> DEFINE t == QuoteRead(s[n + 1])
           m == Len(QuotedName(Begins(s, n)))
           Done(k) == n + 1 <= k /\ k <= Len(s) => Stands(t, QuotedName(Begins(s, k)), m)
           S == {k \in Nat : Done(k)}
<1>1. Len(s) \in Nat /\ n \in Nat /\ n + 1 \in 1..Len(s)
  BY LenProperties
<1>2. t \in Seq(Text) /\ QuotedName(Begins(s, n)) \in Seq(Text) /\ m \in Nat
  BY BeginsNext, LenProperties
<1> HIDE DEF t, m
<1>3. 0 \in S
  BY <1>1
<1>4. ASSUME NEW k \in Nat, k \in S PROVE k + 1 \in S
  <2>1. CASE k = n
    <3>1. QuotedName(Begins(s, n + 1)) = QuotedName(Begins(s, n)) \o t
      BY BeginsNext DEF t
    <3>2. Stands(t, QuotedName(Begins(s, n + 1)), m)
      BY <1>2, <3>1, StandsAtEnd DEF m
    <3> QED
      BY <2>1, <3>2
  <2>2. CASE n < k /\ k < Len(s)
    <3>1. k \in 0..(Len(s) - 1) /\ n + 1 <= k /\ k <= Len(s)
      BY <1>1, <2>2
    <3>2. /\ QuotedName(Begins(s, k + 1)) = QuotedName(Begins(s, k)) \o QuoteRead(s[k + 1])
          /\ QuotedName(Begins(s, k)) \in Seq(Text) /\ QuoteRead(s[k + 1]) \in Seq(Text)
      BY <3>1, BeginsNext
    <3>3. Stands(t, QuotedName(Begins(s, k)), m)
      BY <1>4, <3>1
    <3>4. Stands(t, QuotedName(Begins(s, k + 1)), m)
      BY <1>2, <3>2, <3>3, StandsInMore
    <3> QED
      BY <3>4
  <2>3. CASE k < n \/ k >= Len(s)
    BY <1>1, <2>3
  <2> QED
    BY <1>1, <2>1, <2>2, <2>3
<1>5. Nat \subseteq S
  <2> HIDE DEF S
  <2> QED
    BY <1>3, <1>4, NatInductive
<1>6. Done(Len(s))
  <2> HIDE DEF Done
  <2> QED
    BY <1>1, <1>5
<1>7. Stands(t, QuotedName(Begins(s, Len(s))), m)
  BY <1>1, <1>6
<1> QED
  BY <1>7, BeginsAll DEF t, m

(* A format that starts with the name s in back quotes.                    *)
LEMMA HeadSymbols ==
  ASSUME NEW s \in Seq(Text), NEW rest, IsSeq(rest)
  PROVE  LET f == BackQuote(s) \o rest IN
         /\ Len(QuotedName(s)) \in Nat /\ Len(rest) \in Nat
         /\ Len(f) = (Len(QuotedName(s)) + 2) + Len(rest)
         /\ f[1] = Quote /\ f[Len(QuotedName(s)) + 2] = Quote
         /\ \A q \in 1..Len(QuotedName(s)) : f[1 + q] = QuotedName(s)[q]
         /\ rest # <<>> => f[Len(QuotedName(s)) + 3] = rest[1]
<1> DEFINE f == BackQuote(s) \o rest
           t == QuotedName(s)
           o == <<Quote>>
<1>1. t \in Seq(Text) /\ o \in Seq(Text) /\ Len(o) = 1 /\ o[1] = Quote
  <2>1. Quote \in Text
    BY DEF Text
  <2> QED
    BY <2>1, QuotedType DEF QuotedName
<1>2. f = ((o \o t) \o o) \o rest
  BY DEF BackQuote, QuotedName, Quoted
<1> HIDE DEF f, t, o
<1>3. /\ o \o t \in Seq(Text) /\ Len(o \o t) = 1 + Len(t) /\ Len(t) \in Nat /\ Len(rest) \in Nat
      /\ \A k \in 1..(1 + Len(t)) : (o \o t)[k] = IF k <= 1 THEN o[k] ELSE t[k - 1]
  <2>1. Len(t) \in Nat /\ Len(rest) \in Nat
    BY <1>1, LenProperties, IsSeqFacts
  <2>2. /\ o \o t \in Seq(Text) /\ Len(o \o t) = Len(o) + Len(t)
        /\ \A k \in 1..(Len(o) + Len(t)) : (o \o t)[k] = IF k <= Len(o) THEN o[k] ELSE t[k - Len(o)]
    BY <1>1, ConcatProperties
  <2> QED
    BY <1>1, <2>1, <2>2
<1> DEFINE u == (o \o t) \o o
<1>4. /\ u \in Seq(Text) /\ Len(u) = (1 + Len(t)) + 1
      /\ \A k \in 1..((1 + Len(t)) + 1) : u[k] = IF k <= 1 + Len(t) THEN (o \o t)[k] ELSE o[k - (1 + Len(t))]
  BY <1>1, <1>3, ConcatProperties
<1>x. f = u \o rest
  BY <1>2
<1> HIDE DEF u
<1>5. /\ Len(f) = Len(u) + Len(rest)
      /\ (\A k \in 1..Len(u) : f[k] = u[k]) /\ \A k \in 1..Len(rest) : f[Len(u) + k] = rest[k]
  <2>1. IsSeq(u)
    BY <1>4, SeqIs
  <2>2. /\ Len(u \o rest) = Len(u) + Len(rest)
        /\ (\A k \in 1..Len(u) : (u \o rest)[k] = u[k]) /\ \A k \in 1..Len(rest) : (u \o rest)[Len(u) + k] = rest[k]
    BY <2>1, ConcatIsSeq
  <2> QED
    BY <1>x, <2>2
<1>6. f[1] = Quote
  BY <1>1, <1>3, <1>4, <1>5
<1>7. f[Len(t) + 2] = Quote
  <2>1. /\ Len(t) + 2 \in 1..Len(u) /\ Len(t) + 2 \in 1..((1 + Len(t)) + 1)
        /\ ~(Len(t) + 2 <= 1 + Len(t)) /\ (Len(t) + 2) - (1 + Len(t)) = 1
    BY <1>3, <1>4
  <2> QED
    BY <1>1, <1>4, <1>5, <2>1
<1>8. ASSUME NEW q \in 1..Len(t) PROVE f[1 + q] = t[q]
  <2>1. /\ 1 + q \in 1..Len(u) /\ 1 + q \in 1..((1 + Len(t)) + 1)
        /\ 1 + q <= 1 + Len(t) /\ 1 + q \in 1..(1 + Len(t)) /\ ~(1 + q <= 1) /\ (1 + q) - 1 = q
    BY <1>3, <1>4
  <2> QED
    BY <1>3, <1>4, <1>5, <2>1
<1>9. rest # <<>> => f[Len(t) + 3] = rest[1]
  <2>1. rest # <<>> => 1 \in 1..Len(rest)
    BY <1>3, EmptyIsNone
  <2>2. Len(u) + 1 = Len(t) + 3
    BY <1>3, <1>4
  <2> QED
    BY <1>5, <2>1, <2>2
<1> QED
  BY <1>3, <1>4, <1>5, <1>6, <1>7, <1>8, <1>9 DEF f, t

(* The name is open, and its first n symbols have been read.               *)
HeadOpen(s, n) ==
  /\ mode = "name" /\ a = <<>> /\ b = <<>>
  /\ c = Begins(s, n) /\ i = Len(QuotedName(Begins(s, n))) + 2

HeadRead(s, rest) ==
  format = BackQuote(s) \o rest =>
    \/ mode \in {"idle", "failed"}
    \/ mode = "text" /\ i = 1 /\ a = <<>> /\ b = <<>>
    \/ \E n \in 0..Len(s) : HeadOpen(s, n)
    \/ /\ mode \in {"text", "name", "done"}
       /\ a # <<>> /\ b # <<>> /\ a[1] = Slot /\ b[1] = Identifier(s)

LEMMA FormatHead ==
  ASSUME NEW s \in Seq(Text), NEW rest, IsSeq(rest), format = BackQuote(s) \o rest
  PROVE  /\ Len(QuotedName(s)) \in Nat /\ Len(rest) \in Nat
         /\ Len(format) = (Len(QuotedName(s)) + 2) + Len(rest)
         /\ format[1] = Quote /\ format[Len(QuotedName(s)) + 2] = Quote
         /\ \A q \in 1..Len(QuotedName(s)) : format[1 + q] = QuotedName(s)[q]
         /\ rest # <<>> => format[Len(QuotedName(s)) + 3] = rest[1]
  BY HeadSymbols

LEMMA HeadOpens ==
  ASSUME NEW s \in Seq(Text), s # <<>>, s[1] # Quote, NEW rest, IsSeq(rest),
         format = BackQuote(s) \o rest, Scan, mode = "text", i = 1, a = <<>>, b = <<>>
  PROVE  mode' = "failed" \/ HeadOpen(s, 0)'
<1>1. Len(s) \in Nat /\ Len(s) # 0
  BY LenProperties, EmptySeq
<1>2. 0 \in 0..(Len(s) - 1) /\ 0 + 1 = 1
  BY <1>1
<1>3. Len(QuotedName(Begins(s, 0))) = 0
  BY BeginsAll, EmptySeq
<1>4. Stands(QuoteRead(s[1]), QuotedName(s), 0)
  BY <1>2, <1>3, QuotedStands
<1>5. QuoteRead(s[1]) = <<s[1]>>
  BY DEF QuoteRead
<1>6. Len(<<s[1]>>) = 1 /\ <<s[1]>>[1] = s[1]
  OBVIOUS
<1>7. 1 <= Len(QuotedName(s)) /\ QuotedName(s)[1] = s[1]
  BY <1>4, <1>5, <1>6 DEF Stands
<1>8. /\ Len(QuotedName(s)) \in Nat /\ Len(rest) \in Nat
      /\ Len(format) = (Len(QuotedName(s)) + 2) + Len(rest)
      /\ format[1] = Quote
      /\ \A q \in 1..Len(QuotedName(s)) : format[1 + q] = QuotedName(s)[q]
  BY FormatHead
<1>9. format[1 + 1] = s[1] /\ Len(format) > 1
  BY <1>7, <1>8
<1>10. ~AtEnd /\ At(Quote) /\ ~Doubled
  BY <1>8, <1>9 DEF AtEnd, At, Doubled
<1>11. CASE OpenName
  <2>1. mode' = "name" /\ a' = <<>> /\ b' = <<>> /\ c' = <<>> /\ i' = 2
    BY <1>11 DEF OpenName
  <2>2. <<>> = Begins(s, 0) /\ 2 = Len(QuotedName(Begins(s, 0))) + 2
    BY <1>3, BeginsAll
  <2> QED
    BY <2>1, <2>2 DEF HeadOpen
<1>12. Mark # Quote
  BY Zenon DEF Mark, Quote
<1> QED
  BY <1>8, <1>10, <1>11, <1>12
  DEF Scan, DoubledSign, NameSymbol, CloseName, TakeArgument, Literal, Refuse, Accept, At

LEMMA HeadMoves ==
  ASSUME NEW s \in Seq(Text), NEW rest, IsSeq(rest), format = BackQuote(s) \o rest, Scan,
         NEW n \in 0..(Len(s) - 1), HeadOpen(s, n)
  PROVE  mode' = "failed" \/ HeadOpen(s, n + 1)'
<1> DEFINE x == s[n + 1]
           p == Len(QuotedName(Begins(s, n)))
<1>1. /\ QuotedName(Begins(s, n)) \in Seq(Text) /\ QuoteRead(x) \in Seq(Text) /\ p \in Nat
      /\ QuotedName(Begins(s, n + 1)) = QuotedName(Begins(s, n)) \o QuoteRead(x)
      /\ Begins(s, n + 1) = Append(Begins(s, n), x)
  BY BeginsNext, LenProperties
<1>2. Len(QuotedName(Begins(s, n + 1))) = p + Len(QuoteRead(x))
  BY <1>1, ConcatProperties
<1>3. Stands(QuoteRead(x), QuotedName(s), p)
  BY QuotedStands
<1>4. /\ Len(QuotedName(s)) \in Nat /\ Len(rest) \in Nat
      /\ Len(format) = (Len(QuotedName(s)) + 2) + Len(rest)
      /\ \A q \in 1..Len(QuotedName(s)) : format[1 + q] = QuotedName(s)[q]
  BY FormatHead
<1> HIDE DEF x, p
<1>5. /\ mode = "name" /\ a = <<>> /\ b = <<>> /\ c = Begins(s, n) /\ i = p + 2
  BY DEF HeadOpen, p
<1>6. /\ ~AtEnd /\ format[i] = x /\ (x = Quote => Doubled)
      /\ NameSymbol => i' = i + Len(QuoteRead(x))
  <2>1. CASE x = Quote
    <3>1. QuoteRead(x) = <<x, x>>
      BY <2>1 DEF QuoteRead
    <3>2. Len(QuoteRead(x)) = 2 /\ QuoteRead(x)[1] = x /\ QuoteRead(x)[2] = x
      BY <3>1
    <3>3. p + 2 <= Len(QuotedName(s)) /\ QuotedName(s)[p + 1] = x /\ QuotedName(s)[p + 2] = x
      BY <1>3, <3>2 DEF Stands
    <3>4. /\ p + 1 \in 1..Len(QuotedName(s)) /\ p + 2 \in 1..Len(QuotedName(s))
          /\ 1 + (p + 1) = i /\ 1 + (p + 2) = i + 1 /\ i < Len(format) /\ ~(i > Len(format))
      <4>1. p \in Nat /\ Len(QuotedName(s)) \in Nat /\ Len(rest) \in Nat
        BY <1>1, <1>4
      <4>2. i = p + 2 /\ Len(format) = (Len(QuotedName(s)) + 2) + Len(rest)
        BY <1>4, <1>5
      <4> QED
        BY <3>3, <4>1, <4>2
    <3>5. format[i] = x /\ format[i + 1] = x
      BY <1>4, <3>3, <3>4
    <3> QED
      BY <2>1, <3>2, <3>4, <3>5 DEF AtEnd, At, Doubled, NameSymbol
  <2>2. CASE x # Quote
    <3>1. QuoteRead(x) = <<x>>
      BY <2>2 DEF QuoteRead
    <3>2. Len(QuoteRead(x)) = 1 /\ QuoteRead(x)[1] = x
      BY <3>1
    <3>3. p + 1 <= Len(QuotedName(s)) /\ QuotedName(s)[p + 1] = x
      BY <1>3, <3>2 DEF Stands
    <3>4. p + 1 \in 1..Len(QuotedName(s)) /\ 1 + (p + 1) = i /\ ~(i > Len(format))
      BY <1>1, <1>4, <1>5, <3>3
    <3>5. format[i] = x
      BY <1>4, <3>3, <3>4
    <3> QED
      BY <2>2, <3>2, <3>4, <3>5 DEF AtEnd, At, NameSymbol
  <2> QED
    BY <2>1, <2>2
<1>7. CASE NameSymbol
  <2>1. mode' = "name" /\ a' = <<>> /\ b' = <<>> /\ c' = Append(Begins(s, n), x) /\ i' = i + Len(QuoteRead(x))
    BY <1>5, <1>6, <1>7 DEF NameSymbol
  <2>2. Len(QuoteRead(x)) \in Nat
    BY <1>1, LenProperties
  <2>3. i' = Len(QuotedName(Begins(s, n + 1))) + 2
    <3>1. i' = (p + 2) + Len(QuoteRead(x)) /\ p \in Nat
      BY <1>1, <1>5, <2>1
    <3>2. (p + 2) + Len(QuoteRead(x)) = (p + Len(QuoteRead(x))) + 2
      BY <2>2, <3>1
    <3> QED
      BY <1>2, <3>1, <3>2
  <2> QED
    BY <1>1, <2>1, <2>3 DEF HeadOpen
<1>8. ~CloseName
  BY <1>6 DEF CloseName, At
<1> QED
  BY <1>5, <1>7, <1>8 DEF Scan, DoubledSign, OpenName, TakeArgument, Literal, Refuse, Accept

LEMMA HeadCloses ==
  ASSUME NEW s \in Seq(Text), NEW rest, IsSeq(rest), rest # <<>>, rest[1] # Quote,
         format = BackQuote(s) \o rest, Scan, HeadOpen(s, Len(s))
  PROVE  \/ mode' = "failed"
         \/ mode' = "text" /\ a' # <<>> /\ b' # <<>> /\ a'[1] = Slot /\ b'[1] = Identifier(s)
<1> DEFINE p == Len(QuotedName(s))
<1>1. /\ p \in Nat /\ Len(rest) \in Nat /\ Len(format) = (p + 2) + Len(rest)
      /\ format[p + 2] = Quote /\ format[p + 3] = rest[1]
  BY FormatHead
<1>2. mode = "name" /\ a = <<>> /\ b = <<>> /\ c = s /\ i = p + 2
  BY BeginsAll DEF HeadOpen
<1>3. Len(rest) # 0
  BY EmptySeq
<1> HIDE DEF p
<1>4. ~AtEnd /\ At(Quote) /\ ~Doubled
  <2>1. i + 1 = p + 3 /\ ~(i > Len(format))
    BY <1>1, <1>2
  <2> QED
    BY <1>1, <1>2, <2>1 DEF AtEnd, At, Doubled
<1>5. CASE CloseName
  <2>1. mode' = "text" /\ a' = Append(<<>>, Slot) /\ b' = Append(<<>>, Identifier(s))
    BY <1>2, <1>5 DEF CloseName
  <2>2. \A x : Append(<<>>, x) = <<x>> /\ <<x>> # <<>> /\ <<x>>[1] = x
    OBVIOUS
  <2> QED
    BY <2>1, <2>2
<1> QED
  BY <1>2, <1>4, <1>5 DEF Scan, DoubledSign, OpenName, NameSymbol, TakeArgument, Literal, Refuse, Accept

LEMMA HeadStep ==
  ASSUME NEW s \in Seq(Text), s # <<>>, s[1] # Quote, NEW rest, IsSeq(rest), rest # <<>>, rest[1] # Quote,
         ScanTypeOK, HeadRead(s, rest), [ScanNext]_scan
  PROVE  HeadRead(s, rest)'
<1>0. a \in Seq(Output) /\ b \in Seq(Filling) /\ Len(s) \in Nat
  BY FormatFacts, LenProperties
<1>1. ASSUME NEW f, NEW v, Begin(f, v) PROVE HeadRead(s, rest)'
  <2>1. mode' \in {"text", "failed"} /\ i' = 1 /\ a' = <<>> /\ b' = <<>>
    BY <1>1 DEF Begin
  <2> QED
    BY <2>1 DEF HeadRead
<1>2. CASE Leave
  BY <1>2 DEF Leave, HeadRead
<1>3. CASE UNCHANGED scan
  BY <1>3 DEF scan, HeadRead, HeadOpen
<1>4. CASE Scan
  <2>1. format' = format /\ mode \in {"text", "name"} /\ mode' \in {"text", "name", "done", "failed"}
    BY <1>4 DEF Scan, DoubledSign, OpenName, NameSymbol, CloseName, TakeArgument, Literal, Refuse, Accept
  <2> SUFFICES ASSUME format = BackQuote(s) \o rest PROVE HeadRead(s, rest)'
    BY <2>1 DEF HeadRead
  <2>2. CASE mode = "text" /\ i = 1 /\ a = <<>> /\ b = <<>>
    <3>1. mode' = "failed" \/ HeadOpen(s, 0)'
      BY <1>4, <2>2, HeadOpens
    <3>2. 0 \in 0..Len(s)
      BY <1>0
    <3> QED
      BY <3>1, <3>2 DEF HeadRead
  <2>3. ASSUME NEW n \in 0..(Len(s) - 1), HeadOpen(s, n) PROVE HeadRead(s, rest)'
    <3>1. mode' = "failed" \/ HeadOpen(s, n + 1)'
      BY <1>4, <2>3, HeadMoves
    <3>2. n + 1 \in 0..Len(s)
      BY <1>0
    <3> QED
      BY <3>1, <3>2 DEF HeadRead
  <2>4. CASE HeadOpen(s, Len(s))
    <3>1. \/ mode' = "failed"
          \/ mode' = "text" /\ a' # <<>> /\ b' # <<>> /\ a'[1] = Slot /\ b'[1] = Identifier(s)
      BY <1>4, <2>4, HeadCloses
    <3> QED
      BY <3>1 DEF HeadRead
  <2>5. CASE a # <<>> /\ b # <<>> /\ a[1] = Slot /\ b[1] = Identifier(s)
    <3>1. \A x : Append(a, x) # <<>> /\ Append(a, x)[1] = a[1] /\ Append(b, x) # <<>> /\ Append(b, x)[1] = b[1]
      <4>1. \A t : IsSeq(t) /\ t # <<>> => \A x : Append(t, x) # <<>> /\ Append(t, x)[1] = t[1]
        <5> TAKE t
        <5> HAVE IsSeq(t) /\ t # <<>>
        <5> TAKE x
        <5>1. Len(t) \in Nat /\ Len(t) # 0
          BY EmptyIsNone, IsSeqFacts
        <5>2. IsSeq(Append(t, x)) /\ Len(Append(t, x)) = Len(t) + 1 /\ \A k \in 1..Len(t) : Append(t, x)[k] = t[k]
          BY AppendIsSeq
        <5>3. Append(t, x) # <<>>
          BY <5>1, <5>2, NoneIsSeq
        <5> QED
          BY <5>1, <5>2, <5>3
      <4>2. IsSeq(a) /\ IsSeq(b)
        BY <1>0, SeqIs
      <4> QED
        BY <2>5, <4>1, <4>2
    <3>2. a' = a \/ \E x : a' = Append(a, x)
      BY <1>4 DEF Scan, DoubledSign, OpenName, NameSymbol, CloseName, TakeArgument, Literal, Refuse, Accept
    <3>3. b' = b \/ \E x : b' = Append(b, x)
      BY <1>4 DEF Scan, DoubledSign, OpenName, NameSymbol, CloseName, TakeArgument, Literal, Refuse, Accept
    <3>4. a' # <<>> /\ b' # <<>> /\ a'[1] = Slot /\ b'[1] = Identifier(s)
      BY <2>5, <3>1, <3>2, <3>3
    <3> QED
      BY <2>1, <3>4 DEF HeadRead
  <2>6. \A n \in 0..Len(s) : n = Len(s) \/ n \in 0..(Len(s) - 1)
    BY <1>0
  <2> QED
    BY <2>1, <2>2, <2>3, <2>4, <2>5, <2>6 DEF HeadRead
<1> QED
  BY <1>1, <1>2, <1>3, <1>4 DEF ScanNext

(* All the names of the helpers, at once.                                  *)
HeadsRead == \A s \in Names, rest \in Rests : s[1] # Quote => HeadRead(s, rest)

LEMMA RestsAre ==
  ASSUME NEW rest \in Rests
  PROVE  IsSeq(rest) /\ rest # <<>> /\ rest[1] # Quote
<1>1. "IS NULL" # Quote /\ "=" # Quote
  BY Zenon DEF Quote
<1>2. \E x : x # Quote /\ (rest = <<"=", Mark>> \/ rest = <<x>>)
  BY <1>1, Zenon DEF Rests
<1>3. PICK x : x # Quote /\ (rest = <<"=", Mark>> \/ rest = <<x>>)
  BY <1>2
<1>6. "=" # Quote
  BY Zenon DEF Quote
<1>4. CASE rest = <<"=", Mark>>
  <2>1. IsSeq(rest) /\ Len(rest) = 2 /\ rest[1] = "="
    BY <1>4, TwoIsSeq
  <2> QED
    BY <1>6, <2>1, NoneIsSeq
<1>5. CASE rest = <<x>>
  <2>1. IsSeq(rest) /\ Len(rest) = 1 /\ rest[1] = x
    BY <1>5, OneIsSeq
  <2> QED
    BY <1>3, <2>1, NoneIsSeq
<1> QED
  BY <1>3, <1>4, <1>5

LEMMA NamesAre ==
  ASSUME NEW s \in Names
  PROVE  s \in Seq(Symbols) /\ s \in Seq(Text) /\ s # <<>>
<1>1. s \in Seq(Symbols) /\ s # <<>>
  BY QueryConstants
<1>2. Symbols \subseteq Text
  BY DEF Text
<1> QED
  BY <1>1, <1>2, SeqMonotonic

LEMMA HeadsReadAlways == ScanSpec => []HeadsRead
<1>1. ScanInit => HeadsRead
  BY DEF ScanInit, HeadsRead, HeadRead
<1>2. ScanTypeOK /\ HeadsRead /\ [ScanNext]_scan => HeadsRead'
  <2> SUFFICES ASSUME ScanTypeOK, HeadsRead, [ScanNext]_scan, NEW s \in Names, NEW rest \in Rests, s[1] # Quote
               PROVE  HeadRead(s, rest)'
    BY DEF HeadsRead
  <2>1. HeadRead(s, rest)
    BY DEF HeadsRead
  <2> QED
    BY <2>1, NamesAre, RestsAre, HeadStep
<1> QED
  BY <1>1, <1>2, ScannerTypeCorrect, PTL DEF ScanSpec

LEMMA PartListsSplit ==
  ASSUME NEW parts \in PartLists, \A j \in 2..Len(parts) : parts[j][1] # "."
  PROVE  Split(Qualified(parts)) = parts
<1> DEFINE S == {s \in Names : Len(s) <= 2}
<1>1. parts \in BoundedSeq(S, 2) /\ parts # <<>>
  BY DEF PartLists
<1>2. PICK m \in Nat : parts \in [1..m -> S]
  BY <1>1, BoundedIs
<1>3. \A j \in 1..m : parts[j] \in Seq(Symbols) /\ parts[j] # <<>>
  BY <1>2, NamesAre
<1>4. IsSeq(parts) /\ Len(parts) = m /\ DOMAIN parts = 1..m
  BY <1>2, FunctionIsSeq
<1>5. parts \in Seq(Seq(Symbols))
  BY <1>3, <1>4, SeqWithin
<1>6. \A j \in 2..Len(parts) : parts[j] # <<>>
  BY <1>3, <1>4
<1> QED
  BY <1>1, <1>5, <1>6, SplitsWhatWasJoined

(* Names reach the text as they were meant, for all names and for formats  *)
(* and dotted names of any length: the first slot of what a helper makes   *)
(* is the column it was given, unless the column starts with a back quote, *)
(* and a dotted name is split where it was joined, unless a later part     *)
(* starts with a dot.  (BackQuote, util.go:64; Expand, expr.go:41-67)      *)
THEOREM NamesReachTheText == RelationSpec => []NamesKept
<1>1. HeadsRead => NamesKept
  <2> SUFFICES ASSUME HeadsRead, mode = "done" PROVE NamesKept
    BY DEF NamesKept
  <2>1. ASSUME NEW s \in Names, NEW rest \in Rests, format = Helped[<<s, rest>>], s[1] # Quote
        PROVE  a[1] = Slot /\ b[1] = Identifier(s)
    <3>1. format = BackQuote(s) \o rest
      <4>1. Helped[<<s, rest>>] = BackQuote(<<s, rest>>[1]) \o <<s, rest>>[2]
        BY DEF Helped
      <4>2. <<s, rest>>[1] = s /\ <<s, rest>>[2] = rest
        OBVIOUS
      <4> QED
        BY <2>1, <4>1, <4>2
    <3>2. HeadRead(s, rest)
      BY <2>1 DEF HeadsRead
    <3> QED
      BY <3>1, <3>2 DEF HeadRead, HeadOpen
  <2>2. ASSUME NEW k \in DOMAIN b, NEW parts \in PartLists, b[k].name = Written[parts],
               \A j \in 2..Len(parts) : parts[j][1] # "."
        PROVE  Split(b[k].name) = parts
    <3>1. b[k].name = Qualified(parts)
      BY <2>2 DEF Written
    <3> QED
      BY <2>2, <3>1, PartListsSplit
  <2> QED
    BY <2>1, <2>2 DEF NamesKept
<1>2. RelationSpec => []HeadsRead
  BY ProgramScans, HeadsReadAlways
<1> QED
  BY <1>1, <1>2, PTL

-----------------------------------------------------------------------------
(* Errors.  What a thing needs of its own, and what it refers to.          *)
ExprPlaces(v) == {v.b[j].value : j \in {k \in DOMAIN v.b : v.b[k].type = "expression"}}
ThoseAt(us)   == {objs[j].v : j \in us}
Okay(v)       == IF IsCondition(v) THEN ~v.failed ELSE Fits(v)
Refs(v) ==
  IF v.kind = "cond" THEN ThoseAt(ExprPlaces(v))
  ELSE IF v.kind = "logic" THEN ToSet(Operands(v))
  ELSE ThoseAt(UsesOf(v))

(* What is fine refers to what is fine, however deep.                      *)
Fine(R)   == \A x \in R : Okay(x) /\ Refs(x) \subseteq R
IsFine(v) == \E R \in SUBSET Expressions : v \in R /\ Fine(R)

LEMMA Unfolds == \A v \in Expressions : IsFine(v) <=> Okay(v) /\ \A w \in Refs(v) : IsFine(w)
<1> DEFINE All == {x \in Expressions : IsFine(x)}
<1>1. ASSUME NEW x, IsFine(x) PROVE x \in Expressions /\ Okay(x) /\ \A w \in Refs(x) : IsFine(w)
  <2>1. PICK R \in SUBSET Expressions : x \in R /\ Fine(R)
    BY <1>1 DEF IsFine
  <2>2. Okay(x) /\ Refs(x) \subseteq R
    BY <2>1 DEF Fine
  <2> QED
    BY <2>1, <2>2 DEF IsFine
<1>2. ASSUME NEW v \in Expressions, Okay(v), \A w \in Refs(v) : IsFine(w) PROVE IsFine(v)
  <2> DEFINE R == All \cup {v}
  <2>1. R \in SUBSET Expressions /\ v \in R
    OBVIOUS
  <2>2. ASSUME NEW x \in R PROVE Okay(x) /\ Refs(x) \subseteq R
    <3>1. Okay(x) /\ \A w \in Refs(x) : IsFine(w)
      BY <1>1, <1>2
    <3>2. \A w \in Refs(x) : w \in Expressions
      BY <1>1, <3>1
    <3> QED
      BY <3>1, <3>2
  <2> HIDE DEF R
  <2>3. Fine(R)
    BY <2>2 DEF Fine
  <2> QED
    BY <2>1, <2>3 DEF IsFine
<1> QED
  BY <1>1, <1>2

LEMMA FineStays ==
  ASSUME NEW D, D \subseteq Expressions, D \subseteq Expressions',
         \A x \in D : (Okay(x)' <=> Okay(x)) /\ Refs(x)' = Refs(x) /\ Refs(x) \subseteq D
  PROVE  \A x \in D : IsFine(x)' <=> IsFine(x)
<1>1. ASSUME NEW x \in D, IsFine(x) PROVE IsFine(x)'
  <2>1. PICK R \in SUBSET Expressions : x \in R /\ Fine(R)
    BY <1>1 DEF IsFine
  <2>2. R \cap D \in SUBSET Expressions' /\ x \in R \cap D
    BY <2>1
  <2>3. Fine(R \cap D)'
    BY <2>1 DEF Fine
  <2> QED
    BY <2>2, <2>3 DEF IsFine
<1>2. ASSUME NEW x \in D, IsFine(x)' PROVE IsFine(x)
  <2>1. PICK R \in SUBSET Expressions' : x \in R /\ Fine(R)'
    BY <1>2 DEF IsFine
  <2>2. R \cap D \in SUBSET Expressions /\ x \in R \cap D
    BY <2>1
  <2>3. Fine(R \cap D)
    BY <2>1 DEF Fine
  <2> QED
    BY <2>2, <2>3 DEF IsFine
<1> QED
  BY <1>1, <1>2

-----------------------------------------------------------------------------
(* What parts give: an error if something lacks, or if one of vs that can  *)
(* be seen to have failed is among them; else vs, to be expanded.          *)
Calm(vs) == \A w \in vs : IsCondition(w) => ~w.failed
Gives(ps, lacks, vs) ==
  /\ IsSeq(ps)
  /\ ~Bad(ps) => lacks = {} /\ SubsIn(ps) = vs
  /\ lacks = {} /\ Calm(vs) => ~Bad(ps)

LEMMA GivesNone == Gives(<<>>, {}, {})
  BY PartsNone DEF Gives

LEMMA GivesWord ==
  ASSUME NEW x PROVE Gives(<<Word(x)>>, {}, {})
  BY PartWord DEF Gives

LEMMA GivesName ==
  ASSUME NEW x PROVE Gives(<<Name(x)>>, {}, {})
  BY PartName DEF Gives

LEMMA GivesSub ==
  ASSUME NEW x PROVE Gives(<<Sub(x)>>, {}, {x})
  BY PartSub DEF Gives

LEMMA GivesFail ==
  ASSUME NEW lacks, lacks # {}, NEW vs PROVE Gives(<<Fail>>, lacks, vs)
  BY PartFail DEF Gives

LEMMA GivesConcat ==
  ASSUME NEW p, NEW q, NEW l, NEW m, NEW vs, NEW ws, Gives(p, l, vs), Gives(q, m, ws)
  PROVE  Gives(p \o q, l \cup m, vs \cup ws)
<1>1. IsSeq(p \o q) /\ (Bad(p \o q) <=> Bad(p) \/ Bad(q)) /\ SubsIn(p \o q) = SubsIn(p) \cup SubsIn(q)
  BY PartsConcat DEF Gives
<1>2. ~Bad(p \o q) => l \cup m = {} /\ SubsIn(p \o q) = vs \cup ws
  BY <1>1 DEF Gives
<1>3. l \cup m = {} /\ Calm(vs \cup ws) => ~Bad(p \o q)
  BY <1>1 DEF Gives, Calm
<1> QED
  BY <1>1, <1>2, <1>3 DEF Gives

LEMMA GivesAfter ==
  ASSUME NEW x, NEW q, NEW m, NEW ws, Gives(q, m, ws)
  PROVE  Gives(<<Word(x)>> \o q, m, ws)
<1>1. Gives(<<Word(x)>> \o q, {} \cup m, {} \cup ws)
  BY GivesWord, GivesConcat
<1>2. {} \cup m = m /\ {} \cup ws = ws
  OBVIOUS
<1> QED
  BY <1>1, <1>2

LEMMA GivesBracketed ==
  ASSUME NEW p, NEW l, NEW vs, Gives(p, l, vs)
  PROVE  Gives(Bracketed(p), l, vs)
  BY PartsBracketed DEF Gives

LEMMA GivesMany ==
  ASSUME NEW ps, IsSeq(ps), NEW l, NEW vs, \A k \in DOMAIN ps : Gives(ps[k], l[k], vs[k]),
         NEW t, IsSeq(t), Bad(t) <=> \E k \in DOMAIN ps : Bad(ps[k]),
         SubsIn(t) = UNION {SubsIn(ps[k]) : k \in DOMAIN ps}
  PROVE  Gives(t, UNION {l[k] : k \in DOMAIN ps}, UNION {vs[k] : k \in DOMAIN ps})
<1> DEFINE L == UNION {l[k] : k \in DOMAIN ps}
           V == UNION {vs[k] : k \in DOMAIN ps}
<1>1. ASSUME ~Bad(t) PROVE L = {} /\ SubsIn(t) = V
  <2>1. \A k \in DOMAIN ps : l[k] = {} /\ SubsIn(ps[k]) = vs[k]
    BY <1>1 DEF Gives
  <2> QED
    BY <2>1
<1>2. ASSUME L = {}, Calm(V) PROVE ~Bad(t)
  <2>1. \A k \in DOMAIN ps : l[k] = {} /\ Calm(vs[k])
    BY <1>2 DEF Calm
  <2> QED
    BY <2>1 DEF Gives
<1> QED
  BY <1>1, <1>2 DEF Gives

LEMMA GivesJoined ==
  ASSUME NEW ps, IsSeq(ps), NEW l, NEW vs, \A k \in DOMAIN ps : Gives(ps[k], l[k], vs[k]), NEW sep
  PROVE  Gives(Joined(ps, sep), UNION {l[k] : k \in DOMAIN ps}, UNION {vs[k] : k \in DOMAIN ps})
<1>1. \A k \in DOMAIN ps : IsSeq(ps[k])
  BY DEF Gives
<1>2. /\ IsSeq(Joined(ps, sep))
      /\ Bad(Joined(ps, sep)) <=> \E k \in DOMAIN ps : Bad(ps[k])
      /\ SubsIn(Joined(ps, sep)) = UNION {SubsIn(ps[k]) : k \in DOMAIN ps}
  BY <1>1, PartsJoined
<1> QED
  BY <1>2, GivesMany

LEMMA GivesFlatten ==
  ASSUME NEW ps, IsSeq(ps), NEW l, NEW vs, \A k \in DOMAIN ps : Gives(ps[k], l[k], vs[k])
  PROVE  Gives(FlattenSeq(ps), UNION {l[k] : k \in DOMAIN ps}, UNION {vs[k] : k \in DOMAIN ps})
<1>1. \A k \in DOMAIN ps : IsSeq(ps[k])
  BY DEF Gives
<1>2. /\ IsSeq(FlattenSeq(ps))
      /\ Bad(FlattenSeq(ps)) <=> \E k \in DOMAIN ps : Bad(ps[k])
      /\ SubsIn(FlattenSeq(ps)) = UNION {SubsIn(ps[k]) : k \in DOMAIN ps}
  BY <1>1, PartsFlatten
<1> QED
  BY <1>2, GivesMany

(* The items of a clause.                                                  *)
LEMMA ThoseUsed ==
  ASSUME NEW x, NEW items
  PROVE  ThoseAt(ClauseUses(x, items)) = UNION {ThoseAt(ItemUses(x, items[k])) : k \in DOMAIN items}
<1>1. ASSUME NEW w
      PROVE  w \in ThoseAt(ClauseUses(x, items)) <=> \E k \in DOMAIN items : w \in ThoseAt(ItemUses(x, items[k]))
  BY DEF ThoseAt, ClauseUses
<1> QED
  BY <1>1

LEMMA GivesItem ==
  ASSUME NEW x, NEW n, ItemOK(x, n)
  PROVE  /\ Gives(Item(x), {x} \cap {Neither}, ThoseAt(PlacesOf(x)))
         /\ Gives(NameItem(x), {x} \cap {Neither}, ThoseAt(PlacesOf(x)))
<1>1. CASE StringOK(x)
  <2>1. {x} \cap {Neither} = {} /\ ThoseAt(PlacesOf(x)) = {}
    BY <1>1 DEF StringOK, Neither, PlacesOf, ThoseAt
  <2>2. Item(x) = <<Name(x.s)>> /\ NameItem(x) = NameExpr(x.s)
    BY <1>1 DEF StringOK, Item, NameItem
  <2>3. Gives(NameExpr(x.s), {}, {})
    BY <1>1, PartsQuoted DEF StringOK, Gives
  <2> QED
    BY <2>1, <2>2, <2>3, GivesName
<1>2. CASE ObjectOK(x, n)
  <2>1. {x} \cap {Neither} = {} /\ ThoseAt(PlacesOf(x)) = {objs[x.k].v}
    BY <1>2 DEF ObjectOK, Neither, PlacesOf, ThoseAt
  <2>2. Item(x) = <<Sub(objs[x.k].v)>> /\ NameItem(x) = Item(x)
    BY <1>2 DEF ObjectOK, Item, NameItem
  <2> QED
    BY <2>1, <2>2, GivesSub
<1>3. CASE x = Neither
  <2>1. x.is = "other"
    BY <1>3 DEF Neither
  <2>2. Item(x) = <<Fail>> /\ NameItem(x) = Item(x)
    BY <2>1 DEF Item, NameItem
  <2> QED
    BY <1>3, <2>2, GivesFail
<1> QED
  BY <1>1, <1>2, <1>3 DEF ItemOK

LEMMA GivesListed ==
  ASSUME NEW ps, NEW l, NEW vs, ps = <<>> => l = {} /\ vs = {}, \A sep : Gives(Joined(ps, sep), l, vs), NEW word
  PROVE  Gives(Listed(word, ps), l, vs)
<1>1. \E sep : Listed(word, ps) = IF ps = <<>> THEN <<>> ELSE <<Word(word)>> \o Joined(ps, sep)
  BY Zenon DEF Listed
<1>2. PICK sep : Listed(word, ps) = IF ps = <<>> THEN <<>> ELSE <<Word(word)>> \o Joined(ps, sep)
  BY <1>1
<1>3. CASE ps = <<>>
  BY <1>2, <1>3, GivesNone
<1>4. CASE ps # <<>>
  BY <1>2, <1>4, GivesAfter
<1> QED
  BY <1>3, <1>4

LEMMA GivesItems ==
  ASSUME NEW x \in {"Select", "From", "GroupBy", "OrderBy"}, NEW xs, IsSeq(xs), NEW n,
         \A k \in DOMAIN xs : ItemOK(xs[k], n),
         NEW ps, DOMAIN ps = DOMAIN xs, IsSeq(ps),
         \A k \in DOMAIN xs : ps[k] = Item(xs[k]) \/ ps[k] = NameItem(xs[k]), NEW sep
  PROVE  Gives(Joined(ps, sep), ToSet(xs) \cap {Neither}, ThoseAt(ClauseUses(x, xs)))
<1> DEFINE l == [k \in DOMAIN ps |-> {xs[k]} \cap {Neither}]
           vs == [k \in DOMAIN ps |-> ThoseAt(PlacesOf(xs[k]))]
<1>1. ASSUME NEW k \in DOMAIN ps PROVE Gives(ps[k], l[k], vs[k])
  <2>1. ItemOK(xs[k], n)
    OBVIOUS
  <2>2. /\ Gives(Item(xs[k]), {xs[k]} \cap {Neither}, ThoseAt(PlacesOf(xs[k])))
        /\ Gives(NameItem(xs[k]), {xs[k]} \cap {Neither}, ThoseAt(PlacesOf(xs[k])))
    BY <2>1, GivesItem
  <2> QED
    BY <2>2
<1>2. UNION {l[k] : k \in DOMAIN ps} = ToSet(xs) \cap {Neither}
  BY DEF ToSet
<1>3. UNION {vs[k] : k \in DOMAIN ps} = ThoseAt(ClauseUses(x, xs))
  <2>1. \A k \in DOMAIN xs : ItemUses(x, xs[k]) = PlacesOf(xs[k])
    BY DEF ItemUses
  <2>2. {vs[k] : k \in DOMAIN ps} = {ThoseAt(ItemUses(x, xs[k])) : k \in DOMAIN xs}
    BY <2>1
  <2> QED
    BY <2>2, ThoseUsed
<1> HIDE DEF l, vs
<1>4. Gives(Joined(ps, sep), UNION {l[k] : k \in DOMAIN ps}, UNION {vs[k] : k \in DOMAIN ps})
  BY <1>1, GivesJoined
<1> QED
  BY <1>2, <1>3, <1>4

LEMMA GivesList ==
  ASSUME NEW x \in {"Select", "From", "GroupBy", "OrderBy"}, NEW xs, IsSeq(xs), NEW n,
         \A k \in DOMAIN xs : ItemOK(xs[k], n), NEW word, NEW sep
  PROVE  /\ Gives(Joined(NameItemsOf(xs), sep), ToSet(xs) \cap {Neither}, ThoseAt(ClauseUses(x, xs)))
         /\ Gives(Joined(ItemsOf(xs), sep), ToSet(xs) \cap {Neither}, ThoseAt(ClauseUses(x, xs)))
         /\ Gives(Listed(word, ItemsOf(xs)), ToSet(xs) \cap {Neither}, ThoseAt(ClauseUses(x, xs)))
         /\ Gives(Listed(word, NameItemsOf(xs)), ToSet(xs) \cap {Neither}, ThoseAt(ClauseUses(x, xs)))
<1>0. Len(xs) \in Nat /\ DOMAIN xs = 1..Len(xs)
  BY IsSeqFacts
<1>1. /\ IsSeq(ItemsOf(xs)) /\ DOMAIN ItemsOf(xs) = DOMAIN xs
      /\ \A k \in DOMAIN xs : ItemsOf(xs)[k] = Item(xs[k])
  <2> DEFINE ps == [k \in DOMAIN xs |-> Item(xs[k])]
  <2>1. DOMAIN ps = 1..Len(xs) /\ ps = [k \in 1..Len(xs) |-> ps[k]]
    BY <1>0
  <2>2. \A k \in DOMAIN xs : ps[k] = Item(xs[k])
    OBVIOUS
  <2>3. ItemsOf(xs) = ps
    BY DEF ItemsOf
  <2> HIDE DEF ps
  <2>4. IsSeq(ps)
    BY <1>0, <2>1, FunctionIsSeq
  <2> QED
    BY <1>0, <2>1, <2>2, <2>3, <2>4
<1>2. /\ IsSeq(NameItemsOf(xs)) /\ DOMAIN NameItemsOf(xs) = DOMAIN xs
      /\ \A k \in DOMAIN xs : NameItemsOf(xs)[k] = NameItem(xs[k])
  <2> DEFINE ps == [k \in DOMAIN xs |-> NameItem(xs[k])]
  <2>1. DOMAIN ps = 1..Len(xs) /\ ps = [k \in 1..Len(xs) |-> ps[k]]
    BY <1>0
  <2>2. \A k \in DOMAIN xs : ps[k] = NameItem(xs[k])
    OBVIOUS
  <2>3. NameItemsOf(xs) = ps
    BY DEF NameItemsOf
  <2> HIDE DEF ps
  <2>4. IsSeq(ps)
    BY <1>0, <2>1, FunctionIsSeq
  <2> QED
    BY <1>0, <2>1, <2>2, <2>3, <2>4
<1>3. ASSUME NEW ps, DOMAIN ps = DOMAIN xs, ps = <<>>
      PROVE  ToSet(xs) \cap {Neither} = {} /\ ThoseAt(ClauseUses(x, xs)) = {}
  <2>1. DOMAIN xs = {}
    BY <1>3, NoneIsSeq
  <2> QED
    BY <2>1 DEF ToSet, ThoseAt, ClauseUses
<1>4. /\ \A s : Gives(Joined(ItemsOf(xs), s), ToSet(xs) \cap {Neither}, ThoseAt(ClauseUses(x, xs)))
      /\ \A s : Gives(Joined(NameItemsOf(xs), s), ToSet(xs) \cap {Neither}, ThoseAt(ClauseUses(x, xs)))
  BY <1>1, <1>2, GivesItems
<1> QED
  BY <1>1, <1>2, <1>3, <1>4, GivesListed

(* Conditions that are connected.                                          *)
LEMMA GivesConnected ==
  ASSUME NEW and, NEW vs, IsSeq(vs)
  PROVE  Gives(Connected(and, vs), {}, ToSet(vs))
<1> DEFINE ps == [k \in DOMAIN vs |-> Bracketed(<<Sub(vs[k])>>)]
           l == [k \in DOMAIN ps |-> {}]
           ws == [k \in DOMAIN ps |-> {vs[k]}]
<1>0. Len(vs) \in Nat /\ DOMAIN vs = 1..Len(vs)
  BY IsSeqFacts
<1>1. \E sep : Connected(and, vs) = Joined(ps, sep)
  BY Zenon DEF Connected
<1>2. DOMAIN ps = 1..Len(vs) /\ ps = [k \in 1..Len(vs) |-> ps[k]]
  BY <1>0
<1>3. \A k \in DOMAIN ps : ps[k] = Bracketed(<<Sub(vs[k])>>) /\ l[k] = {} /\ ws[k] = {vs[k]}
  OBVIOUS
<1>4. UNION {l[k] : k \in DOMAIN ps} = {} /\ UNION {ws[k] : k \in DOMAIN ps} = ToSet(vs)
  BY DEF ToSet
<1> HIDE DEF ps, l, ws
<1>5. IsSeq(ps)
  BY <1>0, <1>2, FunctionIsSeq
<1>6. \A k \in DOMAIN ps : Gives(ps[k], l[k], ws[k])
  <2> SUFFICES ASSUME NEW k \in DOMAIN ps PROVE Gives(ps[k], l[k], ws[k])
    OBVIOUS
  <2>1. Gives(<<Sub(vs[k])>>, {}, {vs[k]})
    BY GivesSub
  <2>2. Gives(Bracketed(<<Sub(vs[k])>>), {}, {vs[k]})
    BY <2>1, GivesBracketed
  <2> QED
    BY <1>3, <2>2
<1> QED
  BY <1>1, <1>4, <1>5, <1>6, GivesJoined

LEMMA GivesAllOf ==
  ASSUME NEW vs, IsSeq(vs), \A k \in DOMAIN vs : IsCondition(vs[k])
  PROVE  Gives(AllOf(vs), {}, ToSet(vs))
<1>0. Len(vs) \in Nat /\ DOMAIN vs = 1..Len(vs)
  BY IsSeqFacts
<1>1. CASE Len(vs) = 1
  <2>1. ToSet(vs) = {vs[1]}
    BY <1>0, <1>1 DEF ToSet
  <2> QED
    BY <1>1, <2>1, GivesSub DEF AllOf
<1>2. CASE Len(vs) # 1 /\ \E k \in DOMAIN vs : vs[k].failed
  <2>1. AllOf(vs) = <<Fail>>
    BY <1>2 DEF AllOf
  <2>2. ~Calm(ToSet(vs))
    BY <1>2 DEF Calm, ToSet
  <2> QED
    BY <2>1, <2>2, PartFail DEF Gives
<1>3. CASE Len(vs) # 1 /\ ~\E k \in DOMAIN vs : vs[k].failed
  <2>1. AllOf(vs) = Connected(TRUE, vs)
    BY <1>3 DEF AllOf
  <2> QED
    BY <2>1, GivesConnected
<1> QED
  BY <1>1, <1>2, <1>3

LEMMA GivesFilter ==
  ASSUME NEW xs, IsSeq(xs), NEW n, \A k \in DOMAIN xs : FilterOK(xs[k], n, Places), NEW word
  PROVE  Gives(Filter(word, xs), {}, UNION {ThoseAt(PlacesOf(xs[k])) : k \in DOMAIN xs})
<1> DEFINE us == UNION {ThoseAt(PlacesOf(xs[k])) : k \in DOMAIN xs}
           vs == [k \in DOMAIN xs |-> objs[xs[k].k].v]
<1>0. Len(xs) \in Nat /\ DOMAIN xs = 1..Len(xs)
  BY IsSeqFacts
<1>1. CASE xs = <<>>
  <2>1. us = {} /\ Filter(word, xs) = <<>>
    BY <1>1, NoneIsSeq DEF Filter
  <2> QED
    BY <2>1, GivesNone
<1>2. CASE xs # <<>>
  <2>1. Filter(word, xs) = <<Word(word)>> \o AllOf(vs)
    BY <1>2 DEF Filter, ConditionsOf
  <2>2. DOMAIN vs = 1..Len(xs) /\ vs = [k \in 1..Len(xs) |-> vs[k]]
    BY <1>0
  <2>3. \A k \in DOMAIN vs : vs[k] = objs[xs[k].k].v
    OBVIOUS
  <2>4. \A k \in DOMAIN xs : xs[k].k \in Places /\ ThoseAt(PlacesOf(xs[k])) = {objs[xs[k].k].v}
    BY DEF FilterOK, ObjectOK, PlacesOf, ThoseAt
  <2>5. us = {vs[k] : k \in DOMAIN xs}
    BY <2>4
  <2> HIDE DEF vs, us
  <2>6. IsSeq(vs) /\ ToSet(vs) = us
    BY <1>0, <2>2, <2>5, FunctionIsSeq DEF ToSet
  <2>7. \A k \in DOMAIN vs : IsCondition(vs[k])
    BY <1>0, <2>2, <2>3, <2>4 DEF Places
  <2>8. Gives(AllOf(vs), {}, us)
    BY <2>6, <2>7, GivesAllOf
  <2> QED
    BY <2>1, <2>8, GivesAfter DEF us
<1> QED
  BY <1>1, <1>2

LEMMA GivesWhere ==
  ASSUME NEW x \in {"Where", "Having"}, NEW xs, IsSeq(xs), NEW n, \A k \in DOMAIN xs : FilterOK(xs[k], n, Places),
         NEW word
  PROVE  Gives(Filter(word, xs), {}, ThoseAt(ClauseUses(x, xs)))
<1>1. \A k \in DOMAIN xs : ItemUses(x, xs[k]) = PlacesOf(xs[k])
  BY DEF ItemUses
<1>2. ThoseAt(ClauseUses(x, xs)) = UNION {ThoseAt(PlacesOf(xs[k])) : k \in DOMAIN xs}
  BY <1>1, ThoseUsed
<1> QED
  BY <1>2, GivesFilter

LEMMA GivesLimit ==
  ASSUME NEW limit, NEW offset
  PROVE  Gives(LimitParts(limit, offset), {}, {})
<1>1. \A x, y : Gives(<<Word(x), Word(y)>>, {}, {})
  <2> SUFFICES ASSUME NEW x, NEW y PROVE Gives(<<Word(x), Word(y)>>, {}, {})
    OBVIOUS
  <2>1. Gives(<<Word(x)>> \o <<Word(y)>>, {}, {})
    BY GivesWord, GivesAfter
  <2>2. <<Word(x)>> \o <<Word(y)>> = <<Word(x), Word(y)>>
    BY OneAndOne
  <2> QED
    BY <2>1, <2>2
<1>2. ASSUME NEW w, NEW x, NEW y, NEW z
      PROVE  Gives((IF limit > 0 THEN <<Word(w), Word(x)>>
                    ELSE IF offset > 0 THEN <<Word(w), Word(y)>> ELSE <<>>)
                     \o (IF offset > 0 THEN <<Word(z), Word(x)>> ELSE <<>>), {}, {})
  <2> DEFINE p == IF limit > 0 THEN <<Word(w), Word(x)>> ELSE IF offset > 0 THEN <<Word(w), Word(y)>> ELSE <<>>
             q == IF offset > 0 THEN <<Word(z), Word(x)>> ELSE <<>>
  <2>1. Gives(p, {}, {}) /\ Gives(q, {}, {})
    BY <1>1, GivesNone
  <2> HIDE DEF p, q
  <2>2. Gives(p \o q, {} \cup {}, {} \cup {})
    BY <2>1, GivesConcat
  <2> QED
    BY <2>2 DEF p, q
<1> QED
  BY <1>2, Zenon DEF LimitParts

(* Joins, what an update sets, and the rows of an insert.                  *)
GoodJoin(j) ==
  \/ \A x \in ToSet(j.by) : x.is = "string"
  \/ \A x \in ToSet(j.by) : x.is = "object" /\ x.k \in Places
JoinLacks(j) == IF GoodJoin(j) THEN {} ELSE {j}

LEMMA GivesUsing ==
  ASSUME NEW xs, IsSeq(xs), \A k \in DOMAIN xs : StringOK(xs[k])
  PROVE  Gives(UsingParts(xs), {}, {})
<1>1. \A k \in DOMAIN xs : ItemOK(xs[k], 0) /\ PlacesOf(xs[k]) = {} /\ xs[k] # Neither
  BY DEF StringOK, ItemOK, PlacesOf, Neither
<1>2. ToSet(xs) \cap {Neither} = {}
  BY <1>1 DEF ToSet
<1>3. ThoseAt(ClauseUses("Select", xs)) = {}
  BY <1>1 DEF ThoseAt, ClauseUses, ItemUses
<1>4. \A sep : Gives(Joined(ItemsOf(xs), sep), {}, {})
  BY <1>1, <1>2, <1>3, GivesList
<1>5. \A word, sep : Gives(<<Word(word)>> \o Bracketed(Joined(ItemsOf(xs), sep)), {}, {})
  BY <1>4, GivesBracketed, GivesAfter
<1> QED
  BY <1>5, Zenon DEF UsingParts

LEMMA GivesJoin ==
  ASSUME NEW j, NEW n, JoinOK(j, n, Places)
  PROVE  Gives(JoinParts(j), JoinLacks(j), ThoseAt(ItemUses("Join", j)))
<1> DEFINE by == j.by
           us == UNION {ThoseAt(PlacesOf(by[k])) : k \in DOMAIN by}
           rest == IF ToSet(by) = OnOf(by) THEN Filter("ON", by)
                   ELSE IF ToSet(by) = UsingOf(by) THEN UsingParts(by) ELSE <<Fail>>
<1>1. /\ StringOK(j.to) \/ ObjectOK(j.to, n)
      /\ IsSeq(by)
      /\ \A k \in DOMAIN by : StringOK(by[k]) \/ FilterOK(by[k], n, Places) \/ by[k] = Neither
  BY DEF JoinOK
<1>2. ThoseAt(ItemUses("Join", j)) = ThoseAt(PlacesOf(j.to)) \cup us
  <2>1. ItemUses("Join", j) = PlacesOf(j.to) \cup UNION {PlacesOf(by[k]) : k \in DOMAIN by}
    BY DEF ItemUses
  <2>2. ASSUME NEW w
        PROVE  w \in ThoseAt(UNION {PlacesOf(by[k]) : k \in DOMAIN by}) <=> w \in us
    BY DEF ThoseAt
  <2>3. \A s, t : ThoseAt(s \cup t) = ThoseAt(s) \cup ThoseAt(t)
    BY DEF ThoseAt
  <2>4. ThoseAt(UNION {PlacesOf(by[k]) : k \in DOMAIN by}) = us
    BY <2>2
  <2> HIDE DEF us
  <2> QED
    BY <2>1, <2>3, <2>4
<1>3. Gives(rest, JoinLacks(j), us)
  <2>1. CASE ToSet(by) = OnOf(by)
    <3>1. ASSUME NEW k \in DOMAIN by PROVE FilterOK(by[k], n, Places)
      <4>1. by[k] \in OnOf(by)
        BY <2>1 DEF ToSet
      <4>2. by[k].is = "object"
        BY <4>1 DEF OnOf
      <4> QED
        BY <1>1, <4>2 DEF StringOK, Neither
    <3>2. JoinLacks(j) = {}
      BY <3>1 DEF JoinLacks, GoodJoin, ToSet, FilterOK, ObjectOK
    <3>3. Gives(Filter("ON", by), {}, us)
      BY <1>1, <3>1, GivesFilter
    <3> QED
      BY <2>1, <3>2, <3>3
  <2>2. CASE ToSet(by) # OnOf(by) /\ ToSet(by) = UsingOf(by)
    <3>1. ASSUME NEW k \in DOMAIN by PROVE StringOK(by[k]) /\ PlacesOf(by[k]) = {}
      <4>1. by[k] \in UsingOf(by)
        BY <2>2 DEF ToSet
      <4>2. by[k].is = "string"
        BY <4>1 DEF UsingOf
      <4> QED
        BY <1>1, <4>2 DEF FilterOK, ObjectOK, Neither, PlacesOf
    <3>2. JoinLacks(j) = {}
      BY <3>1 DEF JoinLacks, GoodJoin, ToSet, StringOK
    <3>3. us = {}
      BY <3>1 DEF ThoseAt
    <3>4. Gives(UsingParts(by), {}, {})
      BY <1>1, <3>1, GivesUsing
    <3> QED
      BY <2>2, <3>2, <3>3, <3>4
  <2>3. CASE ToSet(by) # OnOf(by) /\ ToSet(by) # UsingOf(by)
    <3>1. ~GoodJoin(j)
      BY <2>3 DEF GoodJoin, OnOf, UsingOf, Places
    <3> QED
      BY <2>3, <3>1, GivesFail DEF JoinLacks
  <2> QED
    BY <2>1, <2>2, <2>3
<1>4. JoinParts(j) = (<<Word(j.way)>> \o Item(j.to)) \o rest
  BY DEF JoinParts
<1> HIDE DEF rest, us
<1>5. Gives(Item(j.to), {}, ThoseAt(PlacesOf(j.to)))
  <2>1. ItemOK(j.to, n) /\ {j.to} \cap {Neither} = {}
    BY <1>1 DEF ItemOK, StringOK, ObjectOK, Neither
  <2> QED
    BY <2>1, GivesItem
<1>6. Gives(<<Word(j.way)>> \o Item(j.to), {}, ThoseAt(PlacesOf(j.to)))
  BY <1>5, GivesAfter
<1>7. Gives((<<Word(j.way)>> \o Item(j.to)) \o rest, {} \cup JoinLacks(j), ThoseAt(PlacesOf(j.to)) \cup us)
  BY <1>3, <1>6, GivesConcat
<1> QED
  BY <1>2, <1>4, <1>7

LEMMA GivesJoins ==
  ASSUME NEW xs, IsSeq(xs), NEW n, \A k \in DOMAIN xs : JoinOK(xs[k], n, Places)
  PROVE  Gives(FlattenSeq([k \in DOMAIN xs |-> JoinParts(xs[k])]),
               {j \in ToSet(xs) : ~GoodJoin(j)}, ThoseAt(ClauseUses("Join", xs)))
<1> DEFINE ps == [k \in DOMAIN xs |-> JoinParts(xs[k])]
           l == [k \in DOMAIN ps |-> JoinLacks(xs[k])]
           vs == [k \in DOMAIN ps |-> ThoseAt(ItemUses("Join", xs[k]))]
<1>0. Len(xs) \in Nat /\ DOMAIN xs = 1..Len(xs)
  BY IsSeqFacts
<1>1. DOMAIN ps = 1..Len(xs) /\ ps = [k \in 1..Len(xs) |-> ps[k]]
  BY <1>0
<1>2. ASSUME NEW k \in DOMAIN ps PROVE Gives(ps[k], l[k], vs[k])
  BY GivesJoin
<1>3. UNION {l[k] : k \in DOMAIN ps} = {j \in ToSet(xs) : ~GoodJoin(j)}
  BY DEF JoinLacks, ToSet
<1>4. UNION {vs[k] : k \in DOMAIN ps} = ThoseAt(ClauseUses("Join", xs))
  BY ThoseUsed
<1> HIDE DEF ps, l, vs
<1>5. IsSeq(ps)
  BY <1>0, <1>1, FunctionIsSeq
<1>6. Gives(FlattenSeq(ps), UNION {l[k] : k \in DOMAIN ps}, UNION {vs[k] : k \in DOMAIN ps})
  BY <1>2, <1>5, GivesFlatten
<1> QED
  BY <1>3, <1>4, <1>6 DEF ps

LEMMA GivesAssignment ==
  ASSUME NEW x, NEW n, SetOK(x, n)
  PROVE  Gives(Assignment(x), {}, ThoseAt(PlacesOf(x.to)))
<1> DEFINE rest == IF x.to.is = "value" THEN <<Value(x.to.x)>> ELSE Item(x.to)
<1>1. Gives(rest, {}, ThoseAt(PlacesOf(x.to)))
  <2>1. CASE x.to.is = "value"
    <3>1. ThoseAt(PlacesOf(x.to)) = {}
      BY <2>1 DEF ThoseAt, PlacesOf
    <3>2. Gives(<<Value(x.to.x)>>, {}, {})
      BY PartValue DEF Gives
    <3> QED
      BY <2>1, <3>1, <3>2
  <2>2. CASE x.to.is # "value"
    <3>1. ItemOK(x.to, n) /\ {x.to} \cap {Neither} = {}
      BY <2>2 DEF SetOK, ItemOK, ObjectOK, Neither
    <3>2. Gives(Item(x.to), {}, ThoseAt(PlacesOf(x.to)))
      BY <3>1, GivesItem
    <3> QED
      BY <2>2, <3>2
  <2> QED
    BY <2>1, <2>2
<1> HIDE DEF rest
<1>2. ASSUME NEW s PROVE Gives(<<Name(x.column), Word(s)>> \o rest, {}, ThoseAt(PlacesOf(x.to)))
  <2>1. Gives(<<Name(x.column)>> \o <<Word(s)>>, {} \cup {}, {} \cup {})
    BY GivesName, GivesWord, GivesConcat
  <2>2. Gives(<<Name(x.column), Word(s)>>, {}, {})
    BY <2>1, OneAndOne
  <2>3. Gives(<<Name(x.column), Word(s)>> \o rest, {} \cup {}, {} \cup ThoseAt(PlacesOf(x.to)))
    BY <1>1, <2>2, GivesConcat
  <2> QED
    BY <2>3
<1>3. \E s : Assignment(x) = <<Name(x.column), Word(s)>> \o rest
  BY Zenon DEF Assignment, rest
<1> QED
  BY <1>2, <1>3

LEMMA GivesSet ==
  ASSUME NEW xs, IsSeq(xs), NEW n, \A k \in DOMAIN xs : SetOK(xs[k], n), NEW word
  PROVE  Gives(Listed(word, [k \in DOMAIN xs |-> Assignment(xs[k])]), {}, ThoseAt(ClauseUses("Set", xs)))
<1> DEFINE ps == [k \in DOMAIN xs |-> Assignment(xs[k])]
           l == [k \in DOMAIN ps |-> {}]
           vs == [k \in DOMAIN ps |-> ThoseAt(PlacesOf(xs[k].to))]
<1>0. Len(xs) \in Nat /\ DOMAIN xs = 1..Len(xs)
  BY IsSeqFacts
<1>1. DOMAIN ps = 1..Len(xs) /\ ps = [k \in 1..Len(xs) |-> ps[k]]
  BY <1>0
<1>2. ASSUME NEW k \in DOMAIN ps PROVE Gives(ps[k], l[k], vs[k])
  BY GivesAssignment
<1>3. UNION {l[k] : k \in DOMAIN ps} = {}
  OBVIOUS
<1>4. UNION {vs[k] : k \in DOMAIN ps} = ThoseAt(ClauseUses("Set", xs))
  <2>1. \A k \in DOMAIN xs : ItemUses("Set", xs[k]) = PlacesOf(xs[k].to)
    BY DEF ItemUses
  <2> QED
    BY <2>1, ThoseUsed
<1> HIDE DEF ps, l, vs
<1>5. IsSeq(ps)
  BY <1>0, <1>1, FunctionIsSeq
<1>6. \A sep : Gives(Joined(ps, sep), {}, ThoseAt(ClauseUses("Set", xs)))
  BY <1>2, <1>3, <1>4, <1>5, GivesJoined
<1>7. ps = <<>> => ThoseAt(ClauseUses("Set", xs)) = {}
  BY <1>4, NoneIsSeq
<1>8. Gives(Listed(word, ps), {}, ThoseAt(ClauseUses("Set", xs)))
  BY <1>6, <1>7, GivesListed
<1> QED
  BY <1>8 DEF ps

(* Names or values, one after the other.                                   *)
LEMMA GivesPlain ==
  ASSUME NEW ps, IsSeq(ps), \A k \in DOMAIN ps : Gives(ps[k], {}, {}), NEW sep
  PROVE  Gives(Bracketed(Joined(ps, sep)), {}, {})
<1> DEFINE l == [k \in DOMAIN ps |-> {}]
<1>1. \A k \in DOMAIN ps : Gives(ps[k], l[k], l[k])
  OBVIOUS
<1>2. UNION {l[k] : k \in DOMAIN ps} = {}
  OBVIOUS
<1> HIDE DEF l
<1>3. Gives(Joined(ps, sep), {}, {})
  BY <1>1, <1>2, GivesJoined
<1> QED
  BY <1>3, GivesBracketed

LEMMA GivesValues ==
  ASSUME NEW r, IsSeq(r), NEW sep
  PROVE  Gives(Bracketed(Joined([k \in DOMAIN r |-> <<Value(r[k])>>], sep)), {}, {})
<1> DEFINE ps == [k \in DOMAIN r |-> <<Value(r[k])>>]
<1>0. Len(r) \in Nat /\ DOMAIN r = 1..Len(r)
  BY IsSeqFacts
<1>1. DOMAIN ps = 1..Len(r) /\ ps = [k \in 1..Len(r) |-> ps[k]]
  BY <1>0
<1>2. \A k \in DOMAIN ps : Gives(ps[k], {}, {})
  BY PartValue DEF Gives
<1> HIDE DEF ps
<1>3. IsSeq(ps)
  BY <1>0, <1>1, FunctionIsSeq
<1>4. Gives(Bracketed(Joined(ps, sep)), {}, {})
  BY <1>2, <1>3, GivesPlain
<1> QED
  BY <1>4 DEF ps

LEMMA GivesNames ==
  ASSUME NEW r, IsSeq(r), NEW sep
  PROVE  Gives(Bracketed(Joined([k \in DOMAIN r |-> <<Name(r[k])>>], sep)), {}, {})
<1> DEFINE ps == [k \in DOMAIN r |-> <<Name(r[k])>>]
<1>0. Len(r) \in Nat /\ DOMAIN r = 1..Len(r)
  BY IsSeqFacts
<1>1. DOMAIN ps = 1..Len(r) /\ ps = [k \in 1..Len(r) |-> ps[k]]
  BY <1>0
<1>2. \A k \in DOMAIN ps : Gives(ps[k], {}, {})
  BY GivesName
<1> HIDE DEF ps
<1>3. IsSeq(ps)
  BY <1>0, <1>1, FunctionIsSeq
<1>4. Gives(Bracketed(Joined(ps, sep)), {}, {})
  BY <1>2, <1>3, GivesPlain
<1> QED
  BY <1>4 DEF ps

LEMMA GivesRows ==
  ASSUME NEW rows, IsSeq(rows), \A k \in DOMAIN rows : IsSeq(rows[k]), NEW n, NEW word, NEW sep
  PROVE  Gives(Listed(word, [k \in DOMAIN rows |->
                 IF Len(rows[k]) # n THEN <<Fail>>
                 ELSE Bracketed(Joined([j \in DOMAIN rows[k] |-> <<Value(rows[k][j])>>], sep))]),
               {r \in ToSet(rows) : Len(r) # n}, {})
<1> DEFINE Row(r) == IF Len(r) # n THEN <<Fail>>
                     ELSE Bracketed(Joined([j \in DOMAIN r |-> <<Value(r[j])>>], sep))
           ps == [k \in DOMAIN rows |-> Row(rows[k])]
           l == [k \in DOMAIN ps |-> IF Len(rows[k]) # n THEN {rows[k]} ELSE {}]
           vs == [k \in DOMAIN ps |-> {}]
           wrong == {r \in ToSet(rows) : Len(r) # n}
<1>0. Len(rows) \in Nat /\ DOMAIN rows = 1..Len(rows)
  BY IsSeqFacts
<1>1. DOMAIN ps = 1..Len(rows) /\ ps = [k \in 1..Len(rows) |-> ps[k]]
  BY <1>0
<1>2. ASSUME NEW k \in DOMAIN ps PROVE Gives(ps[k], l[k], vs[k])
  <2>1. CASE Len(rows[k]) # n
    <3>1. ps[k] = <<Fail>> /\ l[k] = {rows[k]} /\ vs[k] = {}
      BY <2>1
    <3> HIDE DEF ps, l, vs
    <3> QED
      BY <3>1, GivesFail
  <2>2. CASE Len(rows[k]) = n
    <3>1. ps[k] = Bracketed(Joined([j \in DOMAIN rows[k] |-> <<Value(rows[k][j])>>], sep))
          /\ l[k] = {} /\ vs[k] = {}
      BY <2>2
    <3>2. IsSeq(rows[k])
      OBVIOUS
    <3> HIDE DEF ps, l, vs
    <3> QED
      BY <3>1, <3>2, GivesValues
  <2> QED
    BY <2>1, <2>2
<1>3. UNION {l[k] : k \in DOMAIN ps} = wrong
  BY DEF ToSet
<1>4. UNION {vs[k] : k \in DOMAIN ps} = {}
  OBVIOUS
<1> HIDE DEF ps, l, vs, wrong
<1>5. IsSeq(ps)
  BY <1>0, <1>1, FunctionIsSeq
<1>6. \A s : Gives(Joined(ps, s), wrong, {})
  BY <1>2, <1>3, <1>4, <1>5, GivesJoined
<1>7. ps = <<>> => wrong = {}
  BY <1>3, NoneIsSeq
<1>8. Gives(Listed(word, ps), wrong, {})
  BY <1>6, <1>7, GivesListed
<1> QED
  BY <1>8 DEF ps, wrong

-----------------------------------------------------------------------------
(* Statements.                                                             *)
Lacks(v) == IF Fits(v) THEN {} ELSE {v}

LEMMA GivesStatement ==
  ASSUME NEW v, NEW ps, NEW l, NEW vs, Gives(ps, l, vs), l = {} <=> Fits(v), vs = ThoseAt(UsesOf(v))
  PROVE  Gives(ps, Lacks(v), ThoseAt(UsesOf(v)))
<1>1. Lacks(v) = {} <=> l = {}
  BY DEF Lacks
<1> QED
  BY <1>1 DEF Gives

LEMMA ThoseUsedBy ==
  ASSUME NEW v
  PROVE  ThoseAt(UsesOf(v)) = UNION {ThoseAt(ClauseUses(x, v.cl[x])) : x \in BuildersOf(v.kind)}
<1>1. ASSUME NEW w
      PROVE  w \in ThoseAt(UsesOf(v)) <=> \E x \in BuildersOf(v.kind) : w \in ThoseAt(ClauseUses(x, v.cl[x]))
  BY DEF ThoseAt, UsesOf
<1> QED
  BY <1>1

LEMMA ClausesAre ==
  ASSUME NEW v, NEW n, StatementOK(v, n, Places), NEW x \in BuildersOf(v.kind)
  PROVE  /\ IsSeq(v.cl[x])
         /\ \A k \in DOMAIN v.cl[x] :
              /\ x \in {"Select", "From", "GroupBy", "OrderBy"} => ItemOK(v.cl[x][k], n)
              /\ x \in {"Where", "Having"} => FilterOK(v.cl[x][k], n, Places)
              /\ x = "Join" => JoinOK(v.cl[x][k], n, Places)
              /\ x = "Set" => SetOK(v.cl[x][k], n)
              /\ x = "Values" => IsSeq(v.cl[x][k])
<1>1. IsSeq(v.cl[x]) /\ \A k \in DOMAIN v.cl[x] : ClauseOK(x, v.cl[x][k], n, Places)
  BY DEF StatementOK
<1> QED
  BY <1>1 DEF ClauseOK

LEMMA GivesDelete ==
  ASSUME NEW v, NEW n, StatementOK(v, n, Places), v.kind = "delete"
  PROVE  Gives(DeleteParts(v), Lacks(v), ThoseAt(UsesOf(v)))
<1> DEFINE T(x) == ThoseAt(ClauseUses(x, v.cl[x]))
           other == ToSet(v.cl["OrderBy"]) \cap {Neither}
<1>1. BuildersOf(v.kind) = {"Where", "OrderBy"}
  BY DEF BuildersOf
<1>2. ThoseAt(UsesOf(v)) = T("Where") \cup T("OrderBy")
  BY <1>1, ThoseUsedBy
<1>3. other = {} <=> Fits(v)
  BY DEF Fits
<1>4. Gives(Filter("WHERE", v.cl["Where"]), {}, T("Where"))
  BY <1>1, ClausesAre, GivesWhere
<1>5. ASSUME NEW word PROVE Gives(Listed(word, ItemsOf(v.cl["OrderBy"])), other, T("OrderBy"))
  BY <1>1, ClausesAre, GivesList
<1>6. Gives(LimitParts(v.limit, 0), {}, {})
  BY GivesLimit
<1> HIDE DEF T, other
<1>7. ASSUME NEW w, NEW o
      PROVE  Gives(<<Word(w), Name(<<"t">>)>> \o Filter("WHERE", v.cl["Where"]) \o Listed(o, ItemsOf(v.cl["OrderBy"]))
                     \o LimitParts(v.limit, 0), Lacks(v), ThoseAt(UsesOf(v)))
  <2> DEFINE p == Filter("WHERE", v.cl["Where"])
             q == Listed(o, ItemsOf(v.cl["OrderBy"]))
             r == LimitParts(v.limit, 0)
             h == <<Word(w), Name(<<"t">>)>>
  <2>1. Gives(<<Word(w)>> \o <<Name(<<"t">>)>>, {}, {})
    BY GivesName, GivesAfter
  <2>2. Gives(h, {}, {}) /\ Gives(p, {}, T("Where")) /\ Gives(q, other, T("OrderBy")) /\ Gives(r, {}, {})
    BY <1>4, <1>5, <1>6, <2>1, OneAndOne
  <2> HIDE DEF h, p, q, r
  <2>3. Gives(h \o p, {} \cup {}, {} \cup T("Where"))
    BY <2>2, GivesConcat
  <2>4. Gives((h \o p) \o q, ({} \cup {}) \cup other, ({} \cup T("Where")) \cup T("OrderBy"))
    BY <2>2, <2>3, GivesConcat
  <2>5. Gives(((h \o p) \o q) \o r, (({} \cup {}) \cup other) \cup {}, (({} \cup T("Where")) \cup T("OrderBy")) \cup {})
    BY <2>2, <2>4, GivesConcat
  <2>6. Gives(((h \o p) \o q) \o r, other, T("Where") \cup T("OrderBy"))
    BY <2>5
  <2>7. Gives(((h \o p) \o q) \o r, Lacks(v), ThoseAt(UsesOf(v)))
    BY <1>2, <1>3, <2>6, GivesStatement
  <2> QED
    BY <2>7 DEF h, p, q, r
<1> QED
  BY <1>7, Zenon DEF DeleteParts

LEMMA GivesUpdate ==
  ASSUME NEW v, NEW n, StatementOK(v, n, Places), v.kind = "update"
  PROVE  Gives(UpdateParts(v), Lacks(v), ThoseAt(UsesOf(v)))
<1> DEFINE T(x) == ThoseAt(ClauseUses(x, v.cl[x]))
           other == ToSet(v.cl["OrderBy"]) \cap {Neither}
           none == {<<>>} \cap {v.cl["Set"]}
           sets == [k \in DOMAIN v.cl["Set"] |-> Assignment(v.cl["Set"][k])]
<1>1. BuildersOf(v.kind) = {"Set", "Where", "OrderBy"}
  BY DEF BuildersOf
<1>2. ThoseAt(UsesOf(v)) = T("Set") \cup T("Where") \cup T("OrderBy")
  BY <1>1, ThoseUsedBy
<1>3. none \cup other = {} <=> Fits(v)
  BY DEF Fits
<1>4. Gives(Filter("WHERE", v.cl["Where"]), {}, T("Where"))
  BY <1>1, ClausesAre, GivesWhere
<1>5. ASSUME NEW word PROVE Gives(Listed(word, ItemsOf(v.cl["OrderBy"])), other, T("OrderBy"))
  BY <1>1, ClausesAre, GivesList
<1>6. Gives(LimitParts(v.limit, 0), {}, {})
  BY GivesLimit
<1>8. Gives(Listed("SET", sets), {}, T("Set"))
  BY <1>1, ClausesAre, GivesSet
<1>9. Gives((IF v.cl["Set"] = <<>> THEN <<Fail>> ELSE Listed("SET", sets)), none, T("Set"))
  <2> HIDE DEF sets, T
  <2>1. CASE v.cl["Set"] = <<>>
    BY <2>1, GivesFail
  <2>2. CASE v.cl["Set"] # <<>>
    <3>1. none = {}
      BY <2>2
    <3> HIDE DEF none
    <3> QED
      BY <1>8, <2>2, <3>1
  <2> QED
    BY <2>1, <2>2
<1> HIDE DEF T, other, none
<1>7. ASSUME NEW w, NEW o
      PROVE  Gives(<<Word(w), Name(<<"t">>)>> \o (IF v.cl["Set"] = <<>> THEN <<Fail>> ELSE Listed("SET", sets))
                     \o Filter("WHERE", v.cl["Where"]) \o Listed(o, ItemsOf(v.cl["OrderBy"]))
                     \o LimitParts(v.limit, 0), Lacks(v), ThoseAt(UsesOf(v)))
  <2> DEFINE s == IF v.cl["Set"] = <<>> THEN <<Fail>> ELSE Listed("SET", sets)
             p == Filter("WHERE", v.cl["Where"])
             q == Listed(o, ItemsOf(v.cl["OrderBy"]))
             r == LimitParts(v.limit, 0)
             h == <<Word(w), Name(<<"t">>)>>
  <2>1. Gives(<<Word(w)>> \o <<Name(<<"t">>)>>, {}, {})
    BY GivesName, GivesAfter
  <2>2. /\ Gives(h, {}, {}) /\ Gives(s, none, T("Set")) /\ Gives(p, {}, T("Where"))
        /\ Gives(q, other, T("OrderBy")) /\ Gives(r, {}, {})
    BY <1>4, <1>5, <1>6, <1>9, <2>1, OneAndOne
  <2> HIDE DEF h, s, p, q, r
  <2>3. Gives(h \o s, {} \cup none, {} \cup T("Set"))
    BY <2>2, GivesConcat
  <2>4. Gives((h \o s) \o p, ({} \cup none) \cup {}, ({} \cup T("Set")) \cup T("Where"))
    BY <2>2, <2>3, GivesConcat
  <2>5. Gives(((h \o s) \o p) \o q, (({} \cup none) \cup {}) \cup other,
              (({} \cup T("Set")) \cup T("Where")) \cup T("OrderBy"))
    BY <2>2, <2>4, GivesConcat
  <2>6. Gives(((h \o s) \o p) \o q, none \cup other, T("Set") \cup T("Where") \cup T("OrderBy"))
    BY <2>5
  <2>7. Gives((((h \o s) \o p) \o q) \o r, (none \cup other) \cup {}, (T("Set") \cup T("Where") \cup T("OrderBy")) \cup {})
    BY <2>2, <2>6, GivesConcat
  <2>8. Gives((((h \o s) \o p) \o q) \o r, none \cup other, T("Set") \cup T("Where") \cup T("OrderBy"))
    BY <2>7
  <2>9. Gives((((h \o s) \o p) \o q) \o r, Lacks(v), ThoseAt(UsesOf(v)))
    BY <1>2, <1>3, <2>8, GivesStatement
  <2> QED
    BY <2>9 DEF h, s, p, q, r
<1> QED
  BY <1>7, Zenon DEF UpdateParts, sets

LEMMA GivesInsert ==
  ASSUME NEW v, NEW n, StatementOK(v, n, Places), v.kind = "insert"
  PROVE  Gives(InsertParts(v), Lacks(v), ThoseAt(UsesOf(v)))
<1> DEFINE cols == v.cl["Columns"]
           rows == v.cl["Values"]
           wrong == {r \in ToSet(rows) : Len(r) # Len(cols)}
           Row(r, sep) == IF Len(r) # Len(cols) THEN <<Fail>>
                          ELSE Bracketed(Joined([j \in DOMAIN r |-> <<Value(r[j])>>], sep))
           Some(w, sep) == <<Word(w), Name(<<"t">>)>>
                             \o Bracketed(Joined([k \in DOMAIN cols |-> <<Name(cols[k])>>], sep))
                             \o Listed("VALUES", [k \in DOMAIN rows |-> Row(rows[k], sep)])
<1>1. BuildersOf(v.kind) = {"Columns", "Values"}
  BY DEF BuildersOf
<1>2. ThoseAt(UsesOf(v)) = {}
  <2>1. \A x \in {"Columns", "Values"} : ClauseUses(x, v.cl[x]) = {}
    BY DEF ClauseUses, ItemUses
  <2>2. \A x \in {"Columns", "Values"} : ThoseAt(ClauseUses(x, v.cl[x])) = {}
    BY <2>1 DEF ThoseAt
  <2> QED
    BY <1>1, <2>2, ThoseUsedBy
<1>3. Fits(v) <=> cols # <<>> /\ rows # <<>> /\ wrong = {}
  BY DEF Fits
<1>4. IsSeq(cols) /\ IsSeq(rows) /\ \A k \in DOMAIN rows : IsSeq(rows[k])
  BY <1>1, ClausesAre
<1>5. ASSUME NEW w, NEW sep PROVE Gives(Some(w, sep), wrong, {})
  <2> DEFINE h == <<Word(w), Name(<<"t">>)>>
             p == Bracketed(Joined([k \in DOMAIN cols |-> <<Name(cols[k])>>], sep))
             q == Listed("VALUES", [k \in DOMAIN rows |-> Row(rows[k], sep)])
  <2>1. Gives(<<Word(w)>> \o <<Name(<<"t">>)>>, {}, {})
    BY GivesName, GivesAfter
  <2>2. Gives(p, {}, {})
    <3> HIDE DEF cols
    <3> QED
      BY <1>4, GivesNames
  <2>3. Gives(q, wrong, {})
    <3> DEFINE m == Len(cols)
    <3> HIDE DEF rows, m
    <3>1. Gives(Listed("VALUES", [k \in DOMAIN rows |->
                  IF Len(rows[k]) # m THEN <<Fail>>
                  ELSE Bracketed(Joined([j \in DOMAIN rows[k] |-> <<Value(rows[k][j])>>], sep))]),
                {r \in ToSet(rows) : Len(r) # m}, {})
      BY <1>4, GivesRows
    <3> QED
      BY <3>1 DEF m
  <2>4. Gives(h, {}, {})
    BY <2>1, OneAndOne
  <2>5. Some(w, sep) = (h \o p) \o q
    OBVIOUS
  <2> HIDE DEF h, p, q, wrong, Some
  <2>6. Gives(h \o p, {} \cup {}, {} \cup {})
    BY <2>2, <2>4, GivesConcat
  <2>7. Gives((h \o p) \o q, ({} \cup {}) \cup wrong, ({} \cup {}) \cup {})
    BY <2>3, <2>6, GivesConcat
  <2> QED
    BY <2>5, <2>7
<1>6. \E w, sep : InsertParts(v) = IF cols = <<>> \/ rows = <<>> THEN <<Fail>> ELSE Some(w, sep)
  BY Zenon DEF InsertParts
<1>7. PICK w, sep : InsertParts(v) = IF cols = <<>> \/ rows = <<>> THEN <<Fail>> ELSE Some(w, sep)
  BY <1>6
<1> HIDE DEF Some, cols, rows, wrong
<1>8. CASE cols = <<>> \/ rows = <<>>
  <2>1. Lacks(v) = {v} /\ InsertParts(v) = <<Fail>>
    BY <1>3, <1>7, <1>8 DEF Lacks
  <2> QED
    BY <1>2, <2>1, GivesFail
<1>9. CASE ~(cols = <<>> \/ rows = <<>>)
  <2>1. Gives(InsertParts(v), wrong, {}) /\ (wrong = {} <=> Fits(v))
    BY <1>3, <1>5, <1>7, <1>9
  <2> QED
    BY <1>2, <2>1, GivesStatement
<1> QED
  BY <1>8, <1>9

LEMMA GivesSelect ==
  ASSUME NEW v, NEW n, StatementOK(v, n, Places), v.kind = "select"
  PROVE  Gives(SelectParts(v), Lacks(v), ThoseAt(UsesOf(v)))
<1> DEFINE T(x) == ThoseAt(ClauseUses(x, v.cl[x]))
           N(x) == ToSet(v.cl[x]) \cap {Neither}
           none == {<<>>} \cap {v.cl["From"]}
           bad == {j \in ToSet(v.cl["Join"]) : ~GoodJoin(j)}
           joins == FlattenSeq([k \in DOMAIN v.cl["Join"] |-> JoinParts(v.cl["Join"][k])])
           Chosen(star, sep) == IF v.cl["Select"] = <<>> THEN <<Word(star)>> ELSE Joined(NameItemsOf(v.cl["Select"]), sep)
           from == IF v.cl["From"] = <<>> THEN <<Fail>> ELSE Listed("FROM", ItemsOf(v.cl["From"]))
<1>1. BuildersOf(v.kind) = {"Select", "From", "Join", "Where", "GroupBy", "Having", "OrderBy"}
  BY DEF BuildersOf
<1>2. ThoseAt(UsesOf(v)) = T("Select") \cup T("From") \cup T("Join") \cup T("Where") \cup T("GroupBy") \cup T("Having")
                             \cup T("OrderBy")
  BY <1>1, ThoseUsedBy
<1>3. N("Select") \cup none \cup N("From") \cup bad \cup N("GroupBy") \cup N("OrderBy") = {} <=> Fits(v)
  <2>1. Fits(v) <=> /\ v.cl["From"] # <<>>
                    /\ \A x \in {"Select", "From", "GroupBy", "OrderBy"} : Neither \notin ToSet(v.cl[x])
                    /\ \A j \in ToSet(v.cl["Join"]) : GoodJoin(j)
    BY DEF Fits, GoodJoin
  <2> QED
    BY <2>1
<1>4. ASSUME NEW word
      PROVE  Gives(Filter(word, v.cl["Where"]), {}, T("Where")) /\ Gives(Filter(word, v.cl["Having"]), {}, T("Having"))
  BY <1>1, ClausesAre, GivesWhere
<1>5. ASSUME NEW x \in {"Select", "From", "GroupBy", "OrderBy"}, NEW word, NEW sep
      PROVE  /\ Gives(Joined(NameItemsOf(v.cl[x]), sep), N(x), T(x))
             /\ Gives(Listed(word, ItemsOf(v.cl[x])), N(x), T(x))
             /\ Gives(Listed(word, NameItemsOf(v.cl[x])), N(x), T(x))
  <2>1. x \in BuildersOf(v.kind)
    BY <1>1
  <2>2. IsSeq(v.cl[x]) /\ \A k \in DOMAIN v.cl[x] : ItemOK(v.cl[x][k], n)
    BY <2>1, ClausesAre
  <2> QED
    BY <2>2, GivesList
<1>6. Gives(LimitParts(v.limit, v.offset), {}, {})
  BY GivesLimit
<1>7. Gives(joins, bad, T("Join"))
  BY <1>1, ClausesAre, GivesJoins
<1>8. ASSUME NEW star, NEW sep PROVE Gives(Chosen(star, sep), N("Select"), T("Select"))
  <2>1. CASE v.cl["Select"] = <<>>
    <3>1. N("Select") = {} /\ T("Select") = {}
      BY <2>1, NoneIsSeq, NoUses DEF ThoseAt
    <3> HIDE DEF N, T
    <3> QED
      BY <2>1, <3>1, GivesWord
  <2>2. CASE v.cl["Select"] # <<>>
    <3> HIDE DEF N, T
    <3> QED
      BY <1>5, <2>2
  <2> QED
    BY <2>1, <2>2
<1>9. Gives(from, none \cup N("From"), T("From"))
  <2>1. CASE v.cl["From"] = <<>>
    <3>1. none \cup N("From") # {}
      BY <2>1
    <3> HIDE DEF none, N, T
    <3> QED
      BY <2>1, <3>1, GivesFail
  <2>2. CASE v.cl["From"] # <<>>
    <3>1. none \cup N("From") = N("From")
      BY <2>2
    <3> HIDE DEF none, N, T
    <3>2. Gives(Listed("FROM", ItemsOf(v.cl["From"])), N("From"), T("From"))
      BY <1>5
    <3> QED
      BY <2>2, <3>1, <3>2
  <2> QED
    BY <2>1, <2>2
<1> HIDE DEF T, N, none, bad
<1>10. ASSUME NEW s, NEW w, NEW h, NEW g, NEW o, NEW star, NEW sep
       PROVE  Gives(<<Word(s)>> \o Chosen(star, sep) \o from \o joins \o Filter(w, v.cl["Where"])
                      \o Listed(g, NameItemsOf(v.cl["GroupBy"])) \o Filter(h, v.cl["Having"])
                      \o Listed(o, NameItemsOf(v.cl["OrderBy"])) \o LimitParts(v.limit, v.offset),
                    Lacks(v), ThoseAt(UsesOf(v)))
  <2> DEFINE p1 == Chosen(star, sep)
             p4 == Filter(w, v.cl["Where"])
             p5 == Listed(g, NameItemsOf(v.cl["GroupBy"]))
             p6 == Filter(h, v.cl["Having"])
             p7 == Listed(o, NameItemsOf(v.cl["OrderBy"]))
             p8 == LimitParts(v.limit, v.offset)
             all4 == <<Word(s)>> \o p1 \o from \o joins \o p4
             all8 == all4 \o p5 \o p6 \o p7 \o p8
  <2>1. /\ Gives(p1, N("Select"), T("Select")) /\ Gives(from, none \cup N("From"), T("From"))
        /\ Gives(joins, bad, T("Join")) /\ Gives(p4, {}, T("Where"))
    BY <1>4, <1>7, <1>8, <1>9
  <2>2. /\ Gives(p5, N("GroupBy"), T("GroupBy")) /\ Gives(p6, {}, T("Having"))
        /\ Gives(p7, N("OrderBy"), T("OrderBy")) /\ Gives(p8, {}, {})
    BY <1>4, <1>5, <1>6
  <2>3. Gives(all4, N("Select") \cup none \cup N("From") \cup bad, T("Select") \cup T("From") \cup T("Join") \cup T("Where"))
    <3> HIDE DEF p1, from, joins, p4
    <3>1. Gives(<<Word(s)>> \o p1, N("Select"), T("Select"))
      BY <2>1, GivesAfter
    <3>2. Gives((<<Word(s)>> \o p1) \o from, N("Select") \cup (none \cup N("From")), T("Select") \cup T("From"))
      BY <2>1, <3>1, GivesConcat
    <3>3. Gives(((<<Word(s)>> \o p1) \o from) \o joins, (N("Select") \cup (none \cup N("From"))) \cup bad,
                (T("Select") \cup T("From")) \cup T("Join"))
      BY <2>1, <3>2, GivesConcat
    <3>4. Gives(all4, ((N("Select") \cup (none \cup N("From"))) \cup bad) \cup {},
                ((T("Select") \cup T("From")) \cup T("Join")) \cup T("Where"))
      BY <2>1, <3>3, GivesConcat
    <3>5. ((N("Select") \cup (none \cup N("From"))) \cup bad) \cup {} = N("Select") \cup none \cup N("From") \cup bad
      OBVIOUS
    <3> HIDE DEF all4
    <3> QED
      BY <3>4, <3>5
  <2> DEFINE l4 == N("Select") \cup none \cup N("From") \cup bad
             t4 == T("Select") \cup T("From") \cup T("Join") \cup T("Where")
  <2>4. Gives(all8, l4 \cup N("GroupBy") \cup N("OrderBy"), t4 \cup T("GroupBy") \cup T("Having") \cup T("OrderBy"))
    <3>1. Gives(all4, l4, t4)
      BY <2>3
    <3> HIDE DEF p5, p6, p7, p8, all4, l4, t4
    <3>2. Gives(all4 \o p5, l4 \cup N("GroupBy"), t4 \cup T("GroupBy"))
      BY <2>2, <3>1, GivesConcat
    <3>3. Gives((all4 \o p5) \o p6, (l4 \cup N("GroupBy")) \cup {}, (t4 \cup T("GroupBy")) \cup T("Having"))
      BY <2>2, <3>2, GivesConcat
    <3>4. Gives((all4 \o p5) \o p6, l4 \cup N("GroupBy"), t4 \cup T("GroupBy") \cup T("Having"))
      BY <3>3
    <3>5. Gives(((all4 \o p5) \o p6) \o p7, (l4 \cup N("GroupBy")) \cup N("OrderBy"),
                (t4 \cup T("GroupBy") \cup T("Having")) \cup T("OrderBy"))
      BY <2>2, <3>4, GivesConcat
    <3>6. Gives(all8, ((l4 \cup N("GroupBy")) \cup N("OrderBy")) \cup {},
                ((t4 \cup T("GroupBy") \cup T("Having")) \cup T("OrderBy")) \cup {})
      BY <2>2, <3>5, GivesConcat
    <3> HIDE DEF all8
    <3> QED
      BY <3>6
  <2> HIDE DEF all8
  <2>5. Gives(all8, Lacks(v), ThoseAt(UsesOf(v)))
    BY <1>2, <1>3, <2>4, GivesStatement
  <2> QED
    BY <2>5 DEF all8, all4, p1, p4, p5, p6, p7, p8
<1> QED
  BY <1>10, Zenon DEF SelectParts, Chosen, from, joins

-----------------------------------------------------------------------------
(* Conditions.  The slots of a template take its fillings in turn, and     *)
(* come to every one of them.                                              *)
LEMMA CountReaches ==
  ASSUME NEW s, NEW x, NEW n \in Nat
  PROVE  \A m \in 1..Count(s, x, n) : \E p \in 1..n : s[p] = x /\ Count(s, x, p) = m
<1> DEFINE S == {k \in Nat : \A m \in 1..Count(s, x, k) : \E p \in 1..k : s[p] = x /\ Count(s, x, p) = m}
<1>1. 0 \in S
  <2>1. Count(s, x, 0) = 0
    BY CountNext
  <2> QED
    BY <2>1
<1>2. ASSUME NEW k \in Nat, k \in S PROVE k + 1 \in S
  <2>1. /\ Count(s, x, k) \in Nat
        /\ Count(s, x, k + 1) = Count(s, x, k) + (IF s[k + 1] = x THEN 1 ELSE 0)
    BY CountNext
  <2>2. ASSUME NEW m \in 1..Count(s, x, k + 1) PROVE \E p \in 1..(k + 1) : s[p] = x /\ Count(s, x, p) = m
    <3>1. CASE m \in 1..Count(s, x, k)
      <4>1. \A p \in 1..k : p \in 1..(k + 1)
        OBVIOUS
      <4> QED
        BY <1>2, <3>1, <4>1
    <3>2. CASE m \notin 1..Count(s, x, k)
      <4>1. s[k + 1] = x /\ m = Count(s, x, k + 1)
        BY <2>1, <2>2, <3>2
      <4>2. k + 1 \in 1..(k + 1)
        OBVIOUS
      <4> QED
        BY <4>1, <4>2
    <3> QED
      BY <3>1, <3>2
  <2> QED
    BY <2>2
<1> HIDE DEF S
<1>3. Nat \subseteq S
  BY <1>1, <1>2, NatInductive
<1> QED
  BY <1>3 DEF S

LEMMA GivesFilling ==
  ASSUME NEW x, x.type \in {"identifier", "marker", "expression"}, IsSeq(x.name)
  PROVE  Gives(CASE x.type = "identifier" -> Dotted(x.name)
                 [] x.type = "marker"     -> <<Value(x.value)>>
                 [] x.type = "expression" -> <<Sub(objs[x.value].v)>>,
               {}, IF x.type = "expression" THEN {objs[x.value].v} ELSE {})
<1>1. CASE x.type = "identifier"
  <2>1. Gives(Dotted(x.name), {}, {})
    BY PartsDotted DEF Gives
  <2> QED
    BY <1>1, <2>1
<1>2. CASE x.type = "marker"
  <2>1. Gives(<<Value(x.value)>>, {}, {})
    BY PartValue DEF Gives
  <2> QED
    BY <1>2, <2>1
<1>3. CASE x.type = "expression"
  <2>1. Gives(<<Sub(objs[x.value].v)>>, {}, {objs[x.value].v})
    BY GivesSub
  <2> QED
    BY <1>3, <2>1
<1> QED
  BY <1>1, <1>2, <1>3

LEMMA GivesFilled ==
  ASSUME NEW v, NEW n, CondOK(v, n)
  PROVE  Gives(Filled(v), {}, ThoseAt(ExprPlaces(v)))
<1> DEFINE at(p) == Count(v.a, Slot, p)
           Of(x) == CASE x.type = "identifier" -> Dotted(x.name)
                      [] x.type = "marker"     -> <<Value(x.value)>>
                      [] x.type = "expression" -> <<Sub(objs[x.value].v)>>
           Inside(x) == IF x.type = "expression" THEN {objs[x.value].v} ELSE {}
           Part(p, pc) == CASE v.a[p] = Slot    -> Of(v.b[at(p)])
                            [] v.a[p] = Percent -> <<Word(pc)>>
                            [] OTHER            -> <<Word(v.a[p])>>
<1>0. /\ Len(v.a) \in Nat /\ DOMAIN v.a = 1..Len(v.a) /\ Len(v.b) \in Nat /\ DOMAIN v.b = 1..Len(v.b)
      /\ at(Len(v.a)) = Len(v.b)
      /\ \A k \in DOMAIN v.b : v.b[k].type \in {"identifier", "marker", "expression"} /\ IsSeq(v.b[k].name)
  BY IsSeqFacts DEF CondOK
<1>1. \E pc : Filled(v) = FlattenSeq([p \in DOMAIN v.a |-> Part(p, pc)])
  BY Zenon DEF Filled, Count
<1>2. PICK pc : Filled(v) = FlattenSeq([p \in DOMAIN v.a |-> Part(p, pc)])
  BY <1>1
<1>3. Slot # Percent
  BY Zenon DEF Slot, Percent
<1>4. ASSUME NEW x, x.type \in {"identifier", "marker", "expression"}, IsSeq(x.name)
      PROVE  Gives(Of(x), {}, Inside(x))
  BY <1>4, GivesFilling
<1> HIDE DEF Of, Inside
<1> DEFINE ps == [p \in DOMAIN v.a |-> Part(p, pc)]
           l == [p \in DOMAIN ps |-> {}]
           vs == [p \in DOMAIN ps |-> IF v.a[p] = Slot THEN Inside(v.b[at(p)]) ELSE {}]
<1>5. ASSUME NEW p \in DOMAIN v.a, v.a[p] = Slot PROVE at(p) \in DOMAIN v.b
  <2>1. at(p) \in 1..at(Len(v.a))
    BY <1>0, <1>5, CountBounds
  <2> HIDE DEF at
  <2> QED
    BY <1>0, <2>1
<1>6. ASSUME NEW p \in DOMAIN ps PROVE Gives(ps[p], l[p], vs[p])
  <2>1. CASE v.a[p] = Slot
    <3>1. ps[p] = Of(v.b[at(p)]) /\ l[p] = {} /\ vs[p] = Inside(v.b[at(p)])
      BY <1>3, <2>1
    <3>2. at(p) \in DOMAIN v.b
      BY <1>5, <2>1
    <3> HIDE DEF ps, l, vs, at
    <3>3. Gives(Of(v.b[at(p)]), {}, Inside(v.b[at(p)]))
      BY <1>0, <1>4, <3>2
    <3> QED
      BY <3>1, <3>3
  <2>2. CASE v.a[p] = Percent /\ v.a[p] # Slot
    <3>1. ps[p] = <<Word(pc)>> /\ l[p] = {} /\ vs[p] = {}
      BY <2>2
    <3> HIDE DEF ps, l, vs
    <3> QED
      BY <3>1, GivesWord
  <2>3. CASE v.a[p] # Slot /\ v.a[p] # Percent
    <3>1. ps[p] = <<Word(v.a[p])>> /\ l[p] = {} /\ vs[p] = {}
      BY <2>3
    <3> HIDE DEF ps, l, vs
    <3> QED
      BY <3>1, GivesWord
  <2> QED
    BY <2>1, <2>2, <2>3
<1>7. DOMAIN ps = 1..Len(v.a) /\ ps = [p \in 1..Len(v.a) |-> ps[p]]
  BY <1>0
<1>8. UNION {l[p] : p \in DOMAIN ps} = {}
  OBVIOUS
<1>9. UNION {vs[p] : p \in DOMAIN ps} = ThoseAt(ExprPlaces(v))
  <2>1. DOMAIN ps = DOMAIN v.a /\ \A p \in DOMAIN v.a : vs[p] = IF v.a[p] = Slot THEN Inside(v.b[at(p)]) ELSE {}
    OBVIOUS
  <2> HIDE DEF ps, vs
  <2>2. ASSUME NEW w
        PROVE  (\E p \in DOMAIN v.a : w \in vs[p]) <=> \E j \in DOMAIN v.b : w \in Inside(v.b[j])
    <3>1. ASSUME NEW p \in DOMAIN v.a, w \in vs[p] PROVE \E j \in DOMAIN v.b : w \in Inside(v.b[j])
      <4>1. v.a[p] = Slot /\ w \in Inside(v.b[at(p)])
        BY <2>1, <3>1
      <4> QED
        BY <1>5, <4>1
    <3>2. ASSUME NEW j \in DOMAIN v.b, w \in Inside(v.b[j]) PROVE \E p \in DOMAIN v.a : w \in vs[p]
      <4>1. j \in 1..Count(v.a, Slot, Len(v.a))
        BY <1>0
      <4>2. Len(v.a) \in Nat
        BY <1>0
      <4> DEFINE s == v.a
                 m == Len(v.a)
      <4> HIDE DEF s, m
      <4>3. j \in 1..Count(s, Slot, m) /\ m \in Nat
        BY <4>1, <4>2 DEF s, m
      <4>4. \E p \in 1..m : s[p] = Slot /\ Count(s, Slot, p) = j
        BY <4>3, CountReaches
      <4>5. PICK p \in 1..Len(v.a) : v.a[p] = Slot /\ at(p) = j
        BY <4>4 DEF s, m
      <4> HIDE DEF at
      <4> QED
        BY <1>0, <2>1, <3>2, <4>5
    <3> QED
      BY <3>1, <3>2
  <2>3. ASSUME NEW w PROVE (\E j \in DOMAIN v.b : w \in Inside(v.b[j])) <=> w \in ThoseAt(ExprPlaces(v))
    BY DEF Inside, ThoseAt, ExprPlaces
  <2> QED
    BY <2>1, <2>2, <2>3
<1> HIDE DEF ps, l, vs
<1>10. IsSeq(ps)
  BY <1>0, <1>7, FunctionIsSeq
<1>11. Gives(FlattenSeq(ps), UNION {l[p] : p \in DOMAIN ps}, UNION {vs[p] : p \in DOMAIN ps})
  BY <1>6, <1>10, GivesFlatten
<1> QED
  BY <1>2, <1>8, <1>9, <1>11 DEF ps

LEMMA GivesCond ==
  ASSUME NEW v, NEW n, CondOK(v, n)
  PROVE  Gives(CondParts(v), IF v.failed THEN {v} ELSE {}, ThoseAt(ExprPlaces(v)))
<1>1. CASE v.failed
  BY <1>1, GivesFail DEF CondParts
<1>2. CASE ~v.failed
  <2>1. Gives(Filled(v), {}, ThoseAt(ExprPlaces(v)))
    BY GivesFilled
  <2>2. Gives(<<Word("NOT")>> \o Bracketed(Filled(v)), {}, ThoseAt(ExprPlaces(v)))
    BY <2>1, GivesBracketed, GivesAfter
  <2> QED
    BY <1>2, <2>1, <2>2 DEF CondParts
<1> QED
  BY <1>1, <1>2

LEMMA GivesLogic ==
  ASSUME WellMade, NEW v, LogicOK(v, heap)
  PROVE  Gives(LogicParts(v), IF v.failed THEN {v} ELSE {}, ToSet(Operands(v)))
<1>1. CASE v.failed
  BY <1>1, GivesFail DEF LogicParts
<1>2. CASE ~v.failed
  BY <1>2, OperandsAre, GivesConnected DEF LogicParts
<1> QED
  BY <1>1, <1>2

(* All expressions.                                                        *)
LEMMA ExpressionsAre ==
  ASSUME WellMade, NEW v \in Expressions
  PROVE  ConditionOK(v, Len(objs), heap) \/ \E n : StatementOK(v, n, Places)
<1>0. Len(objs) \in Nat /\ DOMAIN objs = 1..Len(objs)
  BY HeapFacts
<1>1. ASSUME NEW k \in DOMAIN objs, v = objs[k].v
      PROVE  ConditionOK(v, Len(objs), heap) \/ \E n : StatementOK(v, n, Places)
  <2>1. ThingOK(objs[k], k - 1, heap, Places)
    BY DEF WellMade
  <2>2. ConditionOK(v, k - 1, heap) \/ StatementOK(v, k - 1, Places)
    BY <1>1, <2>1 DEF ThingOK
  <2>3. 1..(k - 1) \subseteq 1..Len(objs) /\ More(heap, heap)
    BY <1>0 DEF More
  <2> QED
    BY <2>2, <2>3, ConditionMore
<1>2. ASSUME NEW m \in DOMAIN heap, v \in ToSet(heap[m].of) PROVE ConditionOK(v, Len(objs), heap)
  <2>1. ConditionOK(v, Len(objs) - 1, heap)
    BY <1>2, HeapFacts DEF ToSet
  <2>2. 1..(Len(objs) - 1) \subseteq 1..Len(objs) /\ More(heap, heap)
    BY <1>0 DEF More
  <2> QED
    BY <2>1, <2>2, ConditionMore
<1> QED
  BY <1>1, <1>2 DEF Expressions

LEMMA GivesParts ==
  ASSUME WellMade, NEW v \in Expressions
  PROVE  Gives(PartsOf(v), IF Okay(v) THEN {} ELSE {v}, Refs(v))
<1>1. CASE CondOK(v, Len(objs))
  <2>1. v.kind = "cond"
    BY <1>1 DEF CondOK
  <2>2. PartsOf(v) = CondParts(v) /\ Refs(v) = ThoseAt(ExprPlaces(v)) /\ (Okay(v) <=> ~v.failed)
    BY <2>1 DEF PartsOf, Refs, Okay, IsCondition
  <2>3. Gives(CondParts(v), IF v.failed THEN {v} ELSE {}, ThoseAt(ExprPlaces(v)))
    BY <1>1, GivesCond
  <2>4. (IF Okay(v) THEN {} ELSE {v}) = IF v.failed THEN {v} ELSE {}
    BY <2>2
  <2> QED
    BY <2>2, <2>3, <2>4
<1>2. CASE LogicOK(v, heap)
  <2>1. v.kind = "logic"
    BY <1>2 DEF LogicOK
  <2>2. PartsOf(v) = LogicParts(v) /\ Refs(v) = ToSet(Operands(v)) /\ (Okay(v) <=> ~v.failed)
    BY <2>1 DEF PartsOf, Refs, Okay, IsCondition
  <2>3. Gives(LogicParts(v), IF v.failed THEN {v} ELSE {}, ToSet(Operands(v)))
    BY <1>2, GivesLogic
  <2>4. (IF Okay(v) THEN {} ELSE {v}) = IF v.failed THEN {v} ELSE {}
    BY <2>2
  <2> QED
    BY <2>2, <2>3, <2>4
<1>3. ASSUME NEW n, StatementOK(v, n, Places) PROVE Gives(PartsOf(v), IF Okay(v) THEN {} ELSE {v}, Refs(v))
  <2>1. v.kind \in Kinds
    BY <1>3 DEF StatementOK
  <2>2. Refs(v) = ThoseAt(UsesOf(v)) /\ (Okay(v) <=> Fits(v))
    BY <2>1 DEF Kinds, Refs, Okay, IsCondition
  <2>3. (IF Okay(v) THEN {} ELSE {v}) = Lacks(v)
    BY <2>2 DEF Lacks
  <2>4. Gives(PartsOf(v), Lacks(v), ThoseAt(UsesOf(v)))
    <3>1. CASE v.kind = "select"
      BY <1>3, <3>1, GivesSelect DEF PartsOf
    <3>2. CASE v.kind = "insert"
      BY <1>3, <3>2, GivesInsert DEF PartsOf
    <3>3. CASE v.kind = "update"
      BY <1>3, <3>3, GivesUpdate DEF PartsOf
    <3>4. CASE v.kind = "delete"
      BY <1>3, <3>4, GivesDelete DEF PartsOf
    <3> QED
      BY <2>1, <3>1, <3>2, <3>3, <3>4 DEF Kinds
  <2> QED
    BY <2>2, <2>3, <2>4
<1> QED
  BY <1>1, <1>2, <1>3, ExpressionsAre DEF ConditionOK

(* What expands without an error is what is fine: an expansion comes upon  *)
(* the error of a condition at the condition, or before.                   *)
IsSound(v) ==
  \E R \in SUBSET Expressions : v \in R /\ \A x \in R : ~Fails(x) /\ Subs(x) \subseteq R

LEMMA PartsGive ==
  ASSUME WellMade, NEW v \in Expressions
  PROVE  /\ ~Fails(v) => Okay(v) /\ Subs(v) = Refs(v)
         /\ Okay(v) /\ Calm(Refs(v)) => ~Fails(v)
<1>1. (Fails(v) <=> Bad(PartsOf(v))) /\ Subs(v) = SubsIn(PartsOf(v))
  BY DEF Fails, Bad, Subs, SubsIn
<1>2. Gives(PartsOf(v), IF Okay(v) THEN {} ELSE {v}, Refs(v))
  BY GivesParts
<1> QED
  BY <1>1, <1>2 DEF Gives

LEMMA SoundIsFine == WellMade => \A v : IsSound(v) <=> IsFine(v)
<1> SUFFICES ASSUME WellMade, NEW v PROVE IsSound(v) <=> IsFine(v)
  OBVIOUS
<1>1. ASSUME NEW R \in SUBSET Expressions, \A x \in R : ~Fails(x) /\ Subs(x) \subseteq R PROVE Fine(R)
  <2>1. \A x \in R : Okay(x) /\ Subs(x) = Refs(x)
    BY <1>1, PartsGive
  <2> QED
    BY <1>1, <2>1 DEF Fine
<1>2. ASSUME NEW R \in SUBSET Expressions, Fine(R) PROVE \A x \in R : ~Fails(x) /\ Subs(x) \subseteq R
  <2> SUFFICES ASSUME NEW x \in R PROVE ~Fails(x) /\ Subs(x) \subseteq R
    OBVIOUS
  <2>1. Okay(x) /\ Refs(x) \subseteq R
    BY <1>2 DEF Fine
  <2>2. Calm(Refs(x))
    BY <1>2, <2>1 DEF Fine, Okay, Calm
  <2> QED
    BY <2>1, <2>2, PartsGive
<1> QED
  BY <1>1, <1>2 DEF IsSound, IsFine

(* The rounds of Sound come to rest: every round but the last takes        *)
(* something away.                                                         *)
Prune(S) == {v \in S : ~Fails(v) /\ Subs(v) \subseteq S}

LEMMA ImageFinite ==
  ASSUME NEW D, IsFiniteSet(D), NEW f
  PROVE  IsFiniteSet({f[x] : x \in D})
<1> DEFINE T == {f[x] : x \in D}
           g == [x \in D |-> f[x]]
<1>1. g \in [D -> T] /\ \A t \in T : \E x \in D : g[x] = t
  OBVIOUS
<1>2. g \in Surjection(D, T)
  <2> HIDE DEF g, T
  <2> QED
    BY <1>1 DEF Surjection
<1> HIDE DEF g, T
<1> QED
  BY <1>2, FS_Surjection DEF T

LEMMA FiniteExpressions == WellMade => IsFiniteSet(Expressions)
<1> SUFFICES ASSUME WellMade PROVE IsFiniteSet(Expressions)
  OBVIOUS
<1>1. \A n \in Nat : IsFiniteSet(1..n)
  BY FS_Interval
<1>2. IsFiniteSet(DOMAIN objs) /\ IsFiniteSet(DOMAIN heap) /\ \A m \in DOMAIN heap : IsFiniteSet(DOMAIN heap[m].of)
  BY <1>1, HeapFacts
<1> DEFINE f == [k \in DOMAIN objs |-> objs[k].v]
           g == [m \in DOMAIN heap |-> ToSet(heap[m].of)]
<1>3. {objs[k].v : k \in DOMAIN objs} = {f[k] : k \in DOMAIN objs}
  OBVIOUS
<1>4. IsFiniteSet({f[k] : k \in DOMAIN objs})
  <2> HIDE DEF f
  <2> QED
    BY <1>2, ImageFinite
<1>5. {ToSet(heap[m].of) : m \in DOMAIN heap} = {g[m] : m \in DOMAIN heap}
  OBVIOUS
<1>6. IsFiniteSet({g[m] : m \in DOMAIN heap})
  <2> HIDE DEF g
  <2> QED
    BY <1>2, ImageFinite
<1>7. ASSUME NEW T \in {ToSet(heap[m].of) : m \in DOMAIN heap} PROVE IsFiniteSet(T)
  <2>1. PICK m \in DOMAIN heap : T = {heap[m].of[k] : k \in DOMAIN heap[m].of}
    BY DEF ToSet
  <2> DEFINE s == heap[m].of
  <2>2. IsFiniteSet(DOMAIN s)
    BY <1>2
  <2>3. T = {s[k] : k \in DOMAIN s}
    BY <2>1
  <2> HIDE DEF s
  <2> QED
    BY <2>2, <2>3, ImageFinite
<1> DEFINE H == {ToSet(heap[m].of) : m \in DOMAIN heap}
<1>8. IsFiniteSet(UNION H)
  <2>1. IsFiniteSet(H) /\ \A T \in H : IsFiniteSet(T)
    BY <1>5, <1>6, <1>7
  <2> HIDE DEF H
  <2> QED
    BY <2>1, FS_UNION
<1>9. IsFiniteSet({objs[k].v : k \in DOMAIN objs})
  BY <1>3, <1>4
<1> DEFINE O == {objs[k].v : k \in DOMAIN objs}
<1>10. Expressions = O \cup UNION H
  BY DEF Expressions
<1> HIDE DEF O, H
<1> QED
  BY <1>8, <1>9, <1>10, FS_Union DEF O

LEMMA SoundRounds ==
  ASSUME NEW n \in Nat
  PROVE  \E s : /\ s[0] = Expressions
                /\ \A j \in 1..n : s[j] = Prune(s[j - 1])
                /\ Sound(n) = s[n]
<1> DEFINE V == SUBSET Expressions
           F(f) == f = [j \in 0..n |-> IF j = 0 THEN Expressions ELSE Prune(f[j - 1])]
           g == [p \in (1..n) \X V |-> Prune(p[2])]
           s == CHOOSE f : F(f)
<1>1. \A j \in 1..n, r \in V : g[<<j, r>>] = Prune(r) /\ g[<<j, r>>] \in V
  BY DEF Prune
<1> HIDE DEF g
<1>2. PICK f : Iterates(f, g, Expressions, V, n)
  <2>1. Expressions \in V
    OBVIOUS
  <2> HIDE DEF V
  <2> QED
    BY <1>1, <2>1, Iterated
<1>3. F(f)
  <2>1. f = [j \in 0..n |-> f[j]] /\ f[0] = Expressions /\ \A j \in 0..n : f[j] \in V
    BY <1>2 DEF Iterates
  <2>2. ASSUME NEW j \in 1..n PROVE f[j] = Prune(f[j - 1])
    <3>1. j - 1 \in 0..n
      OBVIOUS
    <3>2. f[j - 1] \in V
      BY <2>1, <3>1
    <3>3. f[j] = g[<<j, f[j - 1]>>]
      BY <1>2 DEF Iterates
    <3> HIDE DEF V
    <3> QED
      BY <1>1, <3>2, <3>3
  <2> DEFINE h == [j \in 0..n |-> IF j = 0 THEN Expressions ELSE Prune(f[j - 1])]
  <2>3. ASSUME NEW j \in 0..n PROVE f[j] = h[j]
    <3>1. CASE j = 0
      BY <2>1, <3>1
    <3>2. CASE j # 0
      <4>1. j \in 1..n
        BY <3>2
      <4> QED
        BY <2>2, <3>2, <4>1
    <3> QED
      BY <3>1, <3>2
  <2>4. h = [j \in 0..n |-> h[j]]
    OBVIOUS
  <2> QED
    BY <2>1, <2>3, <2>4
<1>4. F(s)
  <2> HIDE DEF F
  <2> QED
    BY <1>3
<1>5. Sound(n) = s[n]
  BY DEF Sound, Prune
<1> HIDE DEF s
<1>6. s[0] = Expressions /\ \A j \in 1..n : s[j] = Prune(s[j - 1])
  BY <1>4
<1> QED
  BY <1>5, <1>6

LEMMA ExpandableIsSound == WellMade => \A v : v \in Expandable <=> IsSound(v)
<1> SUFFICES ASSUME WellMade PROVE \A v : v \in Expandable <=> IsSound(v)
  OBVIOUS
<1> DEFINE E == Expressions
           N == Cardinality(E)
<1>1. IsFiniteSet(E) /\ N \in Nat
  BY FiniteExpressions, FS_CardinalityType
<1>2. PICK s : s[0] = E /\ (\A j \in 1..N : s[j] = Prune(s[j - 1])) /\ Sound(N) = s[N]
  <2> HIDE DEF N
  <2> QED
    BY <1>1, SoundRounds
<1>3. Expandable = s[N]
  BY <1>2 DEF Expandable
<1> DEFINE Rested(m) == s[m] \subseteq E /\ (Cardinality(s[m]) + m <= N \/ Prune(s[m]) = s[m])
           Kept(m) == \A R \in SUBSET E : (\A x \in R : ~Fails(x) /\ Subs(x) \subseteq R) => R \subseteq s[m]
           S == {m \in Nat : m <= N => Rested(m) /\ Kept(m)}
<1> HIDE DEF E, N
<1>4. 0 \in S
  <2>1. Cardinality(s[0]) + 0 <= N
    BY <1>1, <1>2 DEF N
  <2>2. Rested(0) /\ Kept(0)
    BY <1>2, <2>1
  <2> HIDE DEF Rested, Kept
  <2> QED
    BY <2>2
<1>5. ASSUME NEW m \in Nat, m \in S PROVE m + 1 \in S
  <2> SUFFICES ASSUME m + 1 <= N PROVE Rested(m + 1) /\ Kept(m + 1)
    OBVIOUS
  <2>1. m + 1 \in 1..N /\ m <= N /\ (m + 1) - 1 = m
    BY <1>1
  <2>2. s[m + 1] = Prune(s[m])
    BY <1>2, <2>1
  <2>3. Rested(m) /\ Kept(m)
    BY <1>5, <2>1
  <2>4. Prune(s[m]) \subseteq s[m]
    BY DEF Prune
  <2>5. Kept(m + 1)
    <3> SUFFICES ASSUME NEW R \in SUBSET E, \A x \in R : ~Fails(x) /\ Subs(x) \subseteq R
                 PROVE  R \subseteq s[m + 1]
      OBVIOUS
    <3>1. R \subseteq s[m]
      BY <2>3
    <3> QED
      BY <2>2, <3>1 DEF Prune
  <2>6. Rested(m + 1)
    <3>1. CASE Prune(s[m]) = s[m]
      BY <2>2, <2>3, <3>1
    <3>2. CASE Prune(s[m]) # s[m]
      <4> DEFINE A == s[m]
                 B == s[m + 1]
      <4>1. Cardinality(A) + m <= N /\ A \subseteq E /\ B \subseteq A /\ A # B
        BY <2>2, <2>3, <2>4, <3>2
      <4> HIDE DEF A, B
      <4>2. IsFiniteSet(A)
        BY <1>1, <4>1, FS_Subset
      <4>3. IsFiniteSet(B) /\ Cardinality(B) <= Cardinality(A) /\ Cardinality(A) # Cardinality(B)
        BY <4>1, <4>2, FS_Subset
      <4>4. Cardinality(A) \in Nat /\ Cardinality(B) \in Nat
        BY <4>2, <4>3, FS_CardinalityType
      <4>5. Cardinality(B) + (m + 1) <= N /\ B \subseteq E
        BY <1>1, <4>1, <4>3, <4>4
      <4> QED
        BY <4>5 DEF B
    <3> QED
      BY <3>1, <3>2
  <2> QED
    BY <2>5, <2>6
<1>6. Nat \subseteq S
  <2> HIDE DEF S
  <2> QED
    BY <1>4, <1>5, NatInductive
<1>7. Rested(N) /\ Kept(N)
  BY <1>1, <1>6
<1>8. Prune(s[N]) = s[N]
  <2> SUFFICES ASSUME Cardinality(s[N]) + N <= N PROVE Prune(s[N]) = s[N]
    BY <1>7
  <2> DEFINE A == s[N]
  <2>1. IsFiniteSet(A)
    BY <1>1, <1>7, FS_Subset
  <2>2. Cardinality(A) + N <= N
    OBVIOUS
  <2> HIDE DEF A
  <2>3. Cardinality(A) \in Nat
    BY <2>1, FS_CardinalityType
  <2>4. Cardinality(A) = 0
    BY <1>1, <2>2, <2>3
  <2>5. A = {}
    BY <2>1, <2>4, FS_EmptySet
  <2> QED
    BY <2>5 DEF A, Prune
<1>9. ASSUME NEW v \in s[N] PROVE IsSound(v)
  <2>1. s[N] \in SUBSET Expressions
    BY <1>7 DEF E
  <2>2. \A x \in s[N] : ~Fails(x) /\ Subs(x) \subseteq s[N]
    BY <1>8 DEF Prune
  <2> DEFINE A == s[N]
  <2> HIDE DEF A
  <2> QED
    BY <2>1, <2>2 DEF IsSound, A
<1>10. ASSUME NEW v, IsSound(v) PROVE v \in s[N]
  BY <1>7, <1>10 DEF IsSound, E
<1> QED
  BY <1>3, <1>9, <1>10

LEMMA ExpandableIsFine == WellMade => \A v : v \in Expandable <=> IsFine(v)
  BY ExpandableIsSound, SoundIsFine

-----------------------------------------------------------------------------
(* What is left alone stays as fine as it was.  n places are left alone,   *)
(* and so are the arrays.                                                  *)
Old(n) == {objs[j].v : j \in 1..n} \cup UNION {ToSet(heap[m].of) : m \in DOMAIN heap}

LeftAlone(n) ==
  /\ n \in Nat /\ Len(objs) - 1 <= n /\ n <= Len(objs)
  /\ 1..n \subseteq DOMAIN objs' /\ \A j \in 1..n : objs'[j] = objs[j]
  /\ More(heap, heap')

LEMMA OldAre ==
  ASSUME WellMade, NEW n \in Nat, Len(objs) - 1 <= n, n <= Len(objs), NEW x \in Old(n)
  PROVE  \/ ConditionOK(x, n, heap)
         \/ \E m \in 0..n : StatementOK(x, m, Places) /\ UsesOf(x) \subseteq 1..m
<1>0. Len(objs) \in Nat /\ DOMAIN objs = 1..Len(objs) /\ More(heap, heap)
  BY HeapFacts DEF More
<1>1. ASSUME NEW j \in 1..n, x = objs[j].v
      PROVE  \/ ConditionOK(x, n, heap)
             \/ \E m \in 0..n : StatementOK(x, m, Places) /\ UsesOf(x) \subseteq 1..m
  <2>1. j \in DOMAIN objs /\ j - 1 \in 0..n /\ 1..(j - 1) \subseteq 1..n
    BY <1>0
  <2>2. ThingOK(objs[j], j - 1, heap, Places)
    BY <2>1 DEF WellMade
  <2>3. ConditionOK(x, j - 1, heap) \/ (StatementOK(x, j - 1, Places) /\ UsesOf(x) \subseteq 1..(j - 1))
    BY <1>1, <2>2 DEF ThingOK
  <2> QED
    BY <1>0, <2>1, <2>3, ConditionMore
<1>2. ASSUME NEW m \in DOMAIN heap, x \in ToSet(heap[m].of) PROVE ConditionOK(x, n, heap)
  <2>1. ConditionOK(x, Len(objs) - 1, heap)
    BY <1>2, HeapFacts DEF ToSet
  <2>2. 1..(Len(objs) - 1) \subseteq 1..n
    BY <1>0
  <2> QED
    BY <1>0, <2>1, <2>2, ConditionMore
<1> QED
  BY <1>1, <1>2 DEF Old

LEMMA FitsStays ==
  ASSUME NEW v, NEW m, StatementOK(v, m, Places), \A k \in 1..m : k \in Places <=> k \in Places'
  PROVE  Fits(v)' <=> Fits(v)
<1>1. CASE v.kind = "select"
  <2>1. ASSUME NEW j \in ToSet(v.cl["Join"])
        PROVE  (\A x \in ToSet(j.by) : x.is = "object" /\ x.k \in Places)
                 <=> \A x \in ToSet(j.by) : x.is = "object" /\ x.k \in Places'
    <3>1. "Join" \in BuildersOf(v.kind)
      BY <1>1, BuildersAre
    <3>2. JoinOK(j, m, Places)
      BY <2>1, <3>1, ClausesAre DEF ToSet
    <3>3. \A x \in ToSet(j.by) : x.is = "object" => x.k \in 1..m
      BY <3>2 DEF JoinOK, StringOK, FilterOK, ObjectOK, Neither, ToSet
    <3> QED
      BY <3>3
  <2>2. Fits(v) <=> /\ v.cl["From"] # <<>>
                    /\ \A x \in {"Select", "From", "GroupBy", "OrderBy"} : Neither \notin ToSet(v.cl[x])
                    /\ \A j \in ToSet(v.cl["Join"]) :
                         \/ \A x \in ToSet(j.by) : x.is = "string"
                         \/ \A x \in ToSet(j.by) : x.is = "object" /\ x.k \in Places
    BY <1>1 DEF Fits
  <2>3. Fits(v)' <=> /\ v.cl["From"] # <<>>
                     /\ \A x \in {"Select", "From", "GroupBy", "OrderBy"} : Neither \notin ToSet(v.cl[x])
                     /\ \A j \in ToSet(v.cl["Join"]) :
                          \/ \A x \in ToSet(j.by) : x.is = "string"
                          \/ \A x \in ToSet(j.by) : x.is = "object" /\ x.k \in Places'
    BY <1>1 DEF Fits
  <2> QED
    BY <2>1, <2>2, <2>3
<1>2. CASE v.kind # "select"
  <2>1. v.kind \in {"insert", "update", "delete"}
    BY <1>2 DEF StatementOK, Kinds
  <2> QED
    BY <2>1 DEF Fits
<1> QED
  BY <1>1, <1>2

LEMMA OldStays ==
  ASSUME WellMade, NEW n, LeftAlone(n), NEW x \in Old(n)
  PROVE  (Okay(x)' <=> Okay(x)) /\ Refs(x)' = Refs(x) /\ Refs(x) \subseteq Old(n)
<1>0. /\ n \in Nat /\ Len(objs) - 1 <= n /\ n <= Len(objs)
      /\ 1..n \subseteq DOMAIN objs' /\ \A j \in 1..n : objs'[j] = objs[j]
      /\ Len(objs) \in Nat /\ DOMAIN objs = 1..Len(objs)
  BY HeapFacts DEF LeftAlone
<1>1. \A k \in 1..n : k \in DOMAIN objs /\ (k \in Places <=> k \in Places')
  BY <1>0 DEF Places, IsCondition
<1>2. ASSUME NEW us, us \subseteq 1..n PROVE ThoseAt(us)' = ThoseAt(us) /\ ThoseAt(us) \subseteq Old(n)
  BY <1>0, <1>2 DEF ThoseAt, Old
<1>3. CASE CondOK(x, n)
  <2>1. x.kind = "cond" /\ ExprPlaces(x) \subseteq 1..n
    BY <1>3 DEF CondOK, ExprPlaces
  <2>2. Refs(x) = ThoseAt(ExprPlaces(x)) /\ Refs(x)' = ThoseAt(ExprPlaces(x))'
    BY <2>1 DEF Refs
  <2>3. Okay(x)' <=> Okay(x)
    BY <2>1 DEF Okay, IsCondition
  <2>4. ThoseAt(ExprPlaces(x))' = ThoseAt(ExprPlaces(x)) /\ ThoseAt(ExprPlaces(x)) \subseteq Old(n)
    BY <1>2, <2>1 DEF ExprPlaces
  <2> QED
    BY <2>2, <2>3, <2>4
<1>4. CASE LogicOK(x, heap)
  <2>1. x.kind = "logic" /\ x.array \in DOMAIN heap
    BY <1>4 DEF LogicOK
  <2>2. heap'[x.array] = heap[x.array]
    BY <2>1 DEF LeftAlone, More
  <2>3. Operands(x)' = Operands(x)
    BY <2>2 DEF Operands
  <2>4. Refs(x) = ToSet(Operands(x)) /\ Refs(x)' = ToSet(Operands(x)')
    BY <2>1 DEF Refs, ToSet
  <2>5. Okay(x)' <=> Okay(x)
    BY <2>1 DEF Okay, IsCondition
  <2>6. ToSet(Operands(x)) \subseteq ToSet(heap[x.array].of)
    BY <1>4, OperandsAre DEF ToSet
  <2>7. ToSet(heap[x.array].of) \subseteq Old(n)
    BY <2>1 DEF Old
  <2> QED
    BY <2>3, <2>4, <2>5, <2>6, <2>7
<1>5. ASSUME NEW m \in 0..n, StatementOK(x, m, Places), UsesOf(x) \subseteq 1..m
      PROVE  (Okay(x)' <=> Okay(x)) /\ Refs(x)' = Refs(x) /\ Refs(x) \subseteq Old(n)
  <2>1. x.kind \in Kinds /\ 1..m \subseteq 1..n
    BY <1>0, <1>5 DEF StatementOK
  <2>2. Fits(x)' <=> Fits(x)
    BY <1>1, <1>5, <2>1, FitsStays
  <2>3. ~IsCondition(x) /\ x.kind # "cond" /\ x.kind # "logic"
    BY <2>1 DEF Kinds, IsCondition
  <2>4. Okay(x)' <=> Okay(x)
    BY <2>2, <2>3 DEF Okay, IsCondition
  <2>5. Refs(x) = ThoseAt(UsesOf(x)) /\ Refs(x)' = ThoseAt(UsesOf(x))'
    BY <2>3 DEF Refs
  <2> DEFINE us == UsesOf(x)
  <2>6. us \subseteq 1..n
    BY <1>5, <2>1
  <2>7. ThoseAt(us)' = ThoseAt(us) /\ ThoseAt(us) \subseteq Old(n)
    <3> HIDE DEF us
    <3>1. us' = us
      BY DEF us, UsesOf, ClauseUses, ItemUses, PlacesOf
    <3> QED
      BY <1>0, <2>6, <3>1 DEF ThoseAt, Old
  <2> QED
    BY <2>4, <2>5, <2>7
<1> QED
  BY <1>0, <1>3, <1>4, <1>5, OldAre DEF ConditionOK

LEMMA Stays ==
  ASSUME WellMade, NEW n, LeftAlone(n)
  PROVE  \A x \in Old(n) : IsFine(x)' <=> IsFine(x)
<1> DEFINE D == Old(n)
<1>1. n \in Nat /\ n <= Len(objs) /\ Len(objs) \in Nat /\ DOMAIN objs = 1..Len(objs)
  BY HeapFacts DEF LeftAlone
<1>2. D \subseteq Expressions
  BY <1>1 DEF Old, Expressions
<1>3. D \subseteq Expressions'
  BY DEF Old, Expressions, LeftAlone, More
<1>4. \A x \in D : (Okay(x)' <=> Okay(x)) /\ Refs(x)' = Refs(x) /\ Refs(x) \subseteq D
  BY OldStays
<1> HIDE DEF D
<1>5. \A x \in D : IsFine(x)' <=> IsFine(x)
  BY <1>2, <1>3, <1>4, FineStays
<1> QED
  BY <1>5 DEF D

-----------------------------------------------------------------------------
(* The account kept of every thing, against what it is.                    *)
Own(k) == ~objs[k].refused /\ (k \notin Places => Fits(objs[k].v))
AccountOf(k) == IsFine(objs[k].v) <=> Own(k) /\ \A j \in objs[k].uses : IsFine(objs[j].v)
Accounted == \A k \in Places : AccountOf(k)

LEMMA StatementsAccounted ==
  ASSUME WellMade, NEW k \in DOMAIN objs, k \notin Places
  PROVE  AccountOf(k)
<1> DEFINE v == objs[k].v
<1>1. ThingOK(objs[k], k - 1, heap, Places) /\ ~IsCondition(v)
  BY DEF WellMade, Places
<1>2. StatementOK(v, k - 1, Places) /\ objs[k].uses = UsesOf(v) /\ ~objs[k].refused
  BY <1>1, Kind DEF ThingOK
<1>3. v \in Expressions
  BY DEF Expressions
<1> DEFINE us == objs[k].uses
<1>4. Okay(v) <=> Fits(v)
  BY <1>1 DEF Okay
<1>5. Refs(v) = ThoseAt(us)
  <2>1. v.kind # "cond" /\ v.kind # "logic"
    BY <1>1 DEF IsCondition
  <2> HIDE DEF v
  <2> QED
    BY <1>2, <2>1 DEF Refs, v
<1> HIDE DEF v
<1>6. IsFine(v) <=> Fits(v) /\ \A w \in Refs(v) : IsFine(w)
  BY <1>3, <1>4, Unfolds
<1>7. (\A w \in Refs(v) : IsFine(w)) <=> \A j \in us : IsFine(objs[j].v)
  <2> HIDE DEF us
  <2> QED
    BY <1>5 DEF ThoseAt
<1> QED
  BY <1>2, <1>6, <1>7 DEF AccountOf, Own, v

LEMMA AccountsAgree ==
  ASSUME WellMade, Accounted, NEW k \in DOMAIN objs
  PROVE  IsFine(objs[k].v) <=> \A j \in Inner(k) : Own(j)
<1>0. Len(objs) \in Nat /\ DOMAIN objs = 1..Len(objs)
  BY HeapFacts
<1>1. \A j \in DOMAIN objs : AccountOf(j)
  BY StatementsAccounted DEF Accounted
<1>2. \A j \in DOMAIN objs : objs[j].uses \subseteq 1..(j - 1) /\ objs[j].uses \subseteq DOMAIN objs
  <2> SUFFICES ASSUME NEW j \in DOMAIN objs
               PROVE  objs[j].uses \subseteq 1..(j - 1) /\ objs[j].uses \subseteq DOMAIN objs
    OBVIOUS
  <2>1. ThingOK(objs[j], j - 1, heap, Places)
    BY DEF WellMade
  <2>2. objs[j].uses \subseteq 1..(j - 1)
    BY <2>1 DEF ThingOK
  <2>3. 1..(j - 1) \subseteq DOMAIN objs
    BY <1>0
  <2> QED
    BY <2>2, <2>3
<1>3. ASSUME IsFine(objs[k].v), NEW j \in Inner(k) PROVE Own(j)
  <2> DEFINE R == {x \in DOMAIN objs : IsFine(objs[x].v)}
  <2>1. R \in SUBSET DOMAIN objs /\ k \in R
    BY <1>3
  <2>2. \A x \in R : objs[x].uses \subseteq R
    BY <1>1, <1>2 DEF AccountOf
  <2>3. j \in R
    <3> HIDE DEF R
    <3> QED
      BY <2>1, <2>2 DEF Inner
  <2> QED
    BY <1>1, <2>3 DEF AccountOf
<1>4. k \in Inner(k) /\ Inner(k) \subseteq DOMAIN objs /\ \A j \in Inner(k) : objs[j].uses \subseteq Inner(k)
  <2>1. k \in Inner(k) /\ Inner(k) \subseteq DOMAIN objs
    BY DEF Inner
  <2>2. ASSUME NEW j \in Inner(k), NEW u \in objs[j].uses PROVE u \in Inner(k)
    <3>1. u \in DOMAIN objs
      BY <1>2, <2>1
    <3>2. ASSUME NEW R \in SUBSET DOMAIN objs, k \in R, \A x \in R : objs[x].uses \subseteq R PROVE u \in R
      <4>1. j \in R
        BY <3>2 DEF Inner
      <4> QED
        BY <3>2, <4>1
    <3> QED
      BY <3>1, <3>2 DEF Inner
  <2> QED
    BY <2>1, <2>2
<1>5. ASSUME \A j \in Inner(k) : Own(j) PROVE IsFine(objs[k].v)
  <2> DEFINE S == {m \in Nat : \A j \in Inner(k) : j <= m => IsFine(objs[j].v)}
  <2>1. 0 \in S
    BY <1>0, <1>4
  <2>2. ASSUME NEW m \in Nat, m \in S PROVE m + 1 \in S
    <3> SUFFICES ASSUME NEW j \in Inner(k), j <= m + 1 PROVE IsFine(objs[j].v)
      OBVIOUS
    <3>1. j \in DOMAIN objs /\ j \in Nat
      BY <1>0, <1>4
    <3>2. ASSUME NEW u \in objs[j].uses PROVE IsFine(objs[u].v)
      <4>1. u \in Inner(k) /\ u \in 1..(j - 1)
        BY <1>2, <1>4, <3>1
      <4>2. u <= m
        BY <3>1, <4>1
      <4> QED
        BY <2>2, <4>1, <4>2
    <3> QED
      BY <1>1, <1>5, <3>1, <3>2 DEF AccountOf
  <2> HIDE DEF S
  <2>3. Nat \subseteq S
    BY <2>1, <2>2, NatInductive
  <2>4. Len(objs) \in S /\ k <= Len(objs)
    BY <1>0, <2>3
  <2> QED
    BY <1>4, <2>4 DEF S
<1> QED
  BY <1>3, <1>5

LEMMA AccountedSurface == WellMade /\ Accounted => ErrorsSurface
<1> SUFFICES ASSUME WellMade, Accounted, Now > 0
             PROVE  objs[Now].v \in Expandable <=>
                      \A j \in Inner(Now) : ~objs[j].refused /\ (j \notin Places => Fits(objs[j].v))
  BY DEF ErrorsSurface
<1>1. Now \in DOMAIN objs
  BY HeapFacts DEF Now
<1> DEFINE n == Now
<1> HIDE DEF n
<1>2. n \in DOMAIN objs
  BY <1>1 DEF n
<1>3. objs[n].v \in Expandable <=> IsFine(objs[n].v)
  BY ExpandableIsFine
<1>4. IsFine(objs[n].v) <=> \A j \in Inner(n) : Own(j)
  BY <1>2, AccountsAgree
<1> QED
  BY <1>3, <1>4 DEF Own, n

-----------------------------------------------------------------------------
(* The account is kept by every step.                                      *)
LEMMA UnfoldsNext == (\A v \in Expressions : IsFine(v) <=> Okay(v) /\ \A w \in Refs(v) : IsFine(w))'
  BY Unfolds, PTL

LEMMA FineAt ==
  ASSUME NEW k, NEW v, objs'[k].v = v
  PROVE  IsFine(objs[k].v)' <=> IsFine(v)'
  BY DEF IsFine

LEMMA OldFine ==
  ASSUME WellMade, NEW n, LeftAlone(n), NEW j \in 1..n
  PROVE  IsFine(objs[j].v)' <=> IsFine(objs[j].v)
<1>1. PICK v : v = objs[j].v
  OBVIOUS
<1>2. objs'[j].v = v /\ v \in Old(n)
  BY <1>1 DEF LeftAlone, Old
<1>3. IsFine(v)' <=> IsFine(v)
  BY <1>2, Stays
<1>4. IsFine(objs[j].v)' <=> IsFine(v)'
  BY <1>2, FineAt
<1> QED
  BY <1>1, <1>3, <1>4

LEMMA OldAccounts ==
  ASSUME WellMade, Accounted, NEW n, LeftAlone(n), NEW k \in 1..n, k \in Places'
  PROVE  AccountOf(k)'
<1>0. n \in Nat /\ n <= Len(objs) /\ Len(objs) \in Nat /\ DOMAIN objs = 1..Len(objs)
  BY HeapFacts DEF LeftAlone
<1>1. objs'[k] = objs[k] /\ k \in Places
  BY <1>0 DEF LeftAlone, Places, IsCondition
<1>2. objs[k].uses \subseteq 1..(k - 1) /\ AccountOf(k)
  BY <1>1, PlaceOK DEF Accounted
<1>3. \A j \in 1..n : IsFine(objs[j].v)' <=> IsFine(objs[j].v)
  BY OldFine
<1>4. 1..(k - 1) \subseteq 1..n
  BY <1>0
<1>5. Own(k) <=> ~objs[k].refused
  BY <1>1 DEF Own
<1>6. Own(k)' <=> ~objs[k].refused
  BY <1>1 DEF Own
<1>7. IsFine(objs[k].v)' <=> Own(k)' /\ \A j \in objs'[k].uses : IsFine(objs[j].v)'
  <2> DEFINE F(j) == IsFine(objs[j].v)
  <2>1. \A j \in 1..n : F(j)' <=> F(j)
    BY <1>3
  <2>2. F(k) <=> Own(k) /\ \A j \in objs[k].uses : F(j)
    BY <1>2 DEF AccountOf
  <2> HIDE DEF F
  <2>3. F(k)' <=> Own(k)' /\ \A j \in objs'[k].uses : F(j)'
    BY <1>1, <1>2, <1>4, <1>5, <1>6, <2>1, <2>2
  <2> QED
    BY <2>3 DEF F
<1> QED
  BY <1>7 DEF AccountOf

(* Something more is made.                                                 *)
LEMMA MakeLeaves ==
  ASSUME WellMade, NEW v, NEW means, NEW refused, NEW uses, Make(v, means, refused, uses), More(heap, heap')
  PROVE  /\ LeftAlone(Len(objs))
         /\ DOMAIN objs' = 1..(Len(objs) + 1)
         /\ objs'[Len(objs) + 1] = [v |-> v, means |-> means, refused |-> refused, uses |-> uses]
<1> DEFINE x == [v |-> v, means |-> means, refused |-> refused, uses |-> uses]
<1>1. IsSeq(objs) /\ Len(objs) \in Nat /\ DOMAIN objs = 1..Len(objs)
  BY HeapFacts DEF WellMade
<1>2. objs' = Append(objs, x)
  BY DEF Make
<1> HIDE DEF x
<1>3. DOMAIN objs' = 1..(Len(objs) + 1) /\ objs'[Len(objs) + 1] = x /\ \A k \in 1..Len(objs) : objs'[k] = objs[k]
  BY <1>1, <1>2, AppendIsSeq
<1> QED
  BY <1>1, <1>3 DEF LeftAlone, x

LEMMA MakeAccounts ==
  ASSUME WellMade, Accounted, NEW v, NEW means, NEW refused, NEW uses, Make(v, means, refused, uses),
         More(heap, heap'), uses \subseteq 1..Len(objs),
         IsCondition(v) => (IsFine(v)' <=> ~refused /\ \A j \in uses : IsFine(objs[j].v))
  PROVE  Accounted'
<1>0. Len(objs) \in Nat
  BY HeapFacts
<1>1. PICK n \in Nat : n = Len(objs)
  BY <1>0
<1>2. /\ LeftAlone(n) /\ DOMAIN objs' = 1..(n + 1)
      /\ objs'[n + 1] = [v |-> v, means |-> means, refused |-> refused, uses |-> uses]
  BY <1>1, MakeLeaves
<1>3. objs'[n + 1].v = v /\ objs'[n + 1].refused = refused /\ objs'[n + 1].uses = uses
  BY <1>2
<1>4. ASSUME n + 1 \in Places' PROVE AccountOf(n + 1)'
  <2>1. IsCondition(v)
    BY <1>3, <1>4 DEF Places, IsCondition
  <2>2. IsFine(objs[n + 1].v)' <=> IsFine(v)'
    BY <1>3, FineAt
  <2>3. Own(n + 1)' <=> ~refused
    BY <1>3, <1>4 DEF Own
  <2>4. \A j \in uses : IsFine(objs[j].v)' <=> IsFine(objs[j].v)
    BY <1>1, <1>2, OldFine
  <2> DEFINE F(j) == IsFine(objs[j].v)
  <2>5. F(n + 1)' <=> Own(n + 1)' /\ \A j \in objs'[n + 1].uses : F(j)'
    <3>1. F(n + 1)' <=> ~refused /\ \A j \in uses : F(j)
      BY <2>1, <2>2
    <3>2. \A j \in uses : F(j)' <=> F(j)
      BY <2>4
    <3> HIDE DEF F
    <3> QED
      BY <1>3, <2>3, <3>1, <3>2
  <2> QED
    BY <2>5 DEF AccountOf
<1>5. ASSUME NEW k \in Places' PROVE AccountOf(k)'
  <2>1. k \in 1..n \/ k = n + 1
    BY <1>2 DEF Places
  <2> QED
    BY <1>2, <1>4, <1>5, <2>1, OldAccounts
<1> QED
  BY <1>5 DEF Accounted

LEMMA MakeIsExpression ==
  ASSUME WellMade, NEW v, NEW means, NEW refused, NEW uses, Make(v, means, refused, uses), More(heap, heap')
  PROVE  v \in Expressions'
<1>1. Len(objs) \in Nat
  BY HeapFacts
<1>2. /\ DOMAIN objs' = 1..(Len(objs) + 1)
      /\ objs'[Len(objs) + 1] = [v |-> v, means |-> means, refused |-> refused, uses |-> uses]
  BY MakeLeaves
<1>3. Len(objs) + 1 \in DOMAIN objs' /\ objs'[Len(objs) + 1].v = v
  BY <1>1, <1>2
<1> QED
  BY <1>3 DEF Expressions

(* A condition from a format: it fails by itself, or by its arguments.     *)
LEMMA FormatAccount ==
  ASSUME NEW k, k \in DOMAIN objs', NEW v, objs'[k].v = v, v.kind = "cond",
         objs'[k].refused = v.failed, objs'[k].uses = ExprPlaces(v)
  PROVE  AccountOf(k)'
<1> DEFINE us == ExprPlaces(v)
<1>1. IsCondition(v) /\ k \in Places' /\ v \in Expressions'
  BY DEF Places, IsCondition, Expressions
<1>2. Own(k)' <=> ~v.failed
  BY <1>1 DEF Own
<1>3. Okay(v)' <=> ~v.failed
  BY DEF Okay, IsCondition
<1>4. Refs(v)' = {objs'[j].v : j \in us}
  BY DEF Refs, ThoseAt, ExprPlaces
<1>5. IsFine(v)' <=> Okay(v)' /\ \A w \in Refs(v)' : IsFine(w)'
  BY <1>1, UnfoldsNext
<1>6. \A j \in us : \A w : w = objs'[j].v => (IsFine(objs[j].v)' <=> IsFine(w)')
  BY FineAt
<1>7. IsFine(objs[k].v)' <=> IsFine(v)'
  BY FineAt
<1> DEFINE F(j) == IsFine(objs[j].v)
<1>8. F(k)' <=> Own(k)' /\ \A j \in objs'[k].uses : F(j)'
  <2>1. F(k)' <=> IsFine(v)'
    BY <1>7
  <2>2. \A j \in us : \A w : w = objs'[j].v => (F(j)' <=> IsFine(w)')
    BY <1>6
  <2>3. (\A w \in {objs'[j].v : j \in us} : IsFine(w)') <=> \A j \in us : F(j)'
    <3> HIDE DEF F, us
    <3>1. ASSUME NEW j \in us, \A w \in {objs'[m].v : m \in us} : IsFine(w)' PROVE F(j)'
      <4>1. PICK w : w = objs'[j].v
        OBVIOUS
      <4>2. IsFine(w)'
        BY <3>1, <4>1
      <4> QED
        BY <2>2, <4>1, <4>2
    <3>2. ASSUME NEW w \in {objs'[m].v : m \in us}, \A j \in us : F(j)' PROVE IsFine(w)'
      BY <2>2, <3>2
    <3> QED
      BY <3>1, <3>2
  <2> HIDE DEF F
  <2> QED
    BY <1>2, <1>3, <1>4, <1>5, <2>1, <2>3
<1> QED
  BY <1>8 DEF AccountOf

LEMMA ReturnAccounts ==
  ASSUME WellMade, Accounted, NEW neg \in BOOLEAN, Return(neg)
  PROVE  Accounted'
<1>1. PICK failed : failed = (mode = "failed")
  OBVIOUS
<1>2. PICK v : v = CondOf(neg, mode = "failed")
  OBVIOUS
<1>3. PICK uses : uses = {b[k].value : k \in {j \in DOMAIN b : b[j].type = "expression"}}
  OBVIOUS
<1>4. PICK n \in Nat : n = Len(objs)
  <2>1. Len(objs) \in Nat
    BY HeapFacts
  <2> QED
    BY <2>1
<1>5. heap' = heap /\ \E means : Make(v, means, failed, uses)
  BY <1>1, <1>2, <1>3 DEF Return
<1>6. PICK means : Make(v, means, failed, uses)
  BY <1>5
<1>7. v.kind = "cond" /\ v.failed = failed /\ v.b = b
  BY <1>1, <1>2 DEF CondOf
<1>8. ExprPlaces(v) = uses
  BY <1>3, <1>7 DEF ExprPlaces
<1>9. /\ LeftAlone(n) /\ DOMAIN objs' = 1..(n + 1)
      /\ objs'[n + 1] = [v |-> v, means |-> means, refused |-> failed, uses |-> uses]
  BY <1>4, <1>5, <1>6, MakeLeaves DEF More
<1>10. AccountOf(n + 1)'
  <2>1. objs'[n + 1].v = v /\ objs'[n + 1].refused = failed /\ objs'[n + 1].uses = uses /\ n + 1 \in DOMAIN objs'
    BY <1>9
  <2> QED
    BY <1>7, <1>8, <2>1, FormatAccount
<1>11. ASSUME NEW k \in Places' PROVE AccountOf(k)'
  <2>1. k \in 1..n \/ k = n + 1
    BY <1>9 DEF Places
  <2> QED
    BY <1>9, <1>10, <2>1, OldAccounts
<1> QED
  BY <1>11 DEF Accounted

LEMMA PrefixElements ==
  ASSUME NEW s, IsSeq(s), NEW n \in Nat, n <= Len(s)
  PROVE  ToSet(SubSeq(s, 1, n)) = {s[k] : k \in 1..n}
<1> DEFINE S == ToSet(s)
           t == SubSeq(s, 1, n)
<1>1. s \in Seq(S) /\ Len(s) \in Nat /\ DOMAIN s = 1..Len(s)
  BY IsSeqFacts DEF IsSeq
<1>2. \A k \in 1..n : s[k] \in S
  BY <1>1 DEF ToSet
<1> HIDE DEF S
<1>3. /\ t \in Seq(S)
      /\ Len(t) = IF 1 <= n THEN (n - 1) + 1 ELSE 0
      /\ \A k \in 1..((n - 1) + 1) : t[k] = s[(1 + k) - 1]
  BY <1>1, <1>2, SubSeqProperties
<1> HIDE DEF t
<1>4. Len(t) = n /\ \A k \in 1..n : t[k] = s[k]
  BY <1>1, <1>3
<1>5. DOMAIN t = 1..n
  BY <1>3, <1>4, LenProperties
<1>6. ToSet(t) = {s[k] : k \in 1..n}
  BY <1>4, <1>5 DEF ToSet
<1> QED
  BY <1>6 DEF t

(* A connective of such operands as are fine when what was connected is.   *)
LEMMA JoinsAccount ==
  ASSUME WellMade, Accounted, NEW j \in Places, NEW k \in Places,
         NEW vs, IsSeq(vs), \A x \in ToSet(vs) : x \in Old(Len(objs)),
         NEW and, NEW failed, NEW room, Joins(and, failed, vs, room, j, k),
         (~failed /\ \A x \in ToSet(vs) : IsFine(x)) <=> (IsFine(objs[j].v) /\ IsFine(objs[k].v))
  PROVE  Accounted'
<1>1. PICK v : v = LogicOf(and, failed, Len(heap) + 1, Len(vs))
  OBVIOUS
<1>2. PICK means : Make(v, means, FALSE, {j, k})
  BY <1>1 DEF Joins
<1>3. heap' = Append(heap, Array(vs, room))
  BY DEF Joins
<1>4. IsSeq(heap) /\ Len(heap) \in Nat /\ {j, k} \subseteq 1..Len(objs)
  BY HeapFacts, PlaceOK DEF WellMade
<1>5. More(heap, heap')
  BY <1>3, AppendKeeps
<1>6. heap'[Len(heap) + 1].of = vs
  <2> DEFINE x == Array(vs, room)
  <2>1. x.of = vs
    BY DEF Array
  <2> HIDE DEF x
  <2>2. heap'[Len(heap) + 1] = x
    BY <1>3, <1>4, AppendIsSeq DEF x
  <2> QED
    BY <2>1, <2>2
<1>7. v.kind = "logic" /\ v.failed = failed /\ v.array = Len(heap) + 1 /\ v.len = Len(vs)
  BY <1>1 DEF LogicOf
<1>8. v \in Expressions'
  BY <1>2, <1>5, MakeIsExpression
<1>9. Refs(v)' = ToSet(vs)
  <2>1. Operands(v)' = SubSeq(vs, 1, Len(vs))
    BY <1>6, <1>7 DEF Operands
  <2>2. Refs(v)' = ToSet(Operands(v)')
    BY <1>7 DEF Refs, ToSet
  <2>3. ToSet(SubSeq(vs, 1, Len(vs))) = ToSet(vs)
    <3>1. Len(vs) \in Nat /\ Len(vs) <= Len(vs) /\ ToSet(vs) = {vs[m] : m \in 1..Len(vs)}
      BY IsSeqFacts
    <3> QED
      BY <3>1, PrefixElements
  <2> QED
    BY <2>1, <2>2, <2>3
<1>10. Okay(v)' <=> ~failed
  BY <1>7 DEF Okay, IsCondition
<1>11. \A x \in ToSet(vs) : IsFine(x)' <=> IsFine(x)
  <2>1. LeftAlone(Len(objs))
    BY <1>2, <1>5, MakeLeaves
  <2>2. PICK n : n = Len(objs)
    OBVIOUS
  <2> QED
    BY <2>1, <2>2, Stays
<1>12. IsFine(v)' <=> Okay(v)' /\ \A x \in Refs(v)' : IsFine(x)'
  BY <1>8, UnfoldsNext
<1>13. IsFine(v)' <=> (IsFine(objs[j].v) /\ IsFine(objs[k].v))
  BY <1>9, <1>10, <1>11, <1>12
<1>14. IsFine(v)' <=> ~FALSE /\ \A m \in {j, k} : IsFine(objs[m].v)
  BY <1>13
<1> QED
  BY <1>2, <1>4, <1>5, <1>14, MakeAccounts

LEMMA FineCondition ==
  ASSUME NEW v, IsCondition(v), IsFine(v)
  PROVE  ~v.failed
<1>1. PICK R \in SUBSET Expressions : v \in R /\ Fine(R)
  BY DEF IsFine
<1> QED
  BY <1>1 DEF Fine, Okay

LEMMA ConnectAccounts ==
  ASSUME WellMade, Accounted, NEW and \in BOOLEAN, NEW j \in Places, NEW k \in Places, NEW room,
         Connect(and, j, k, room) \/ Chain(and, j, k)
  PROVE  Accounted'
<1> DEFINE v == objs[j].v
           w == objs[k].v
           two == <<v, w>>
           more == Operands(v) \o <<w>>
           D == Old(Len(objs))
<1>1. /\ IsCondition(v) /\ IsCondition(w) /\ v \in D /\ w \in D /\ v \in Expressions
  BY PlaceOK DEF Old, Expressions
<1>2. IsSeq(two) /\ ToSet(two) = {v, w}
  BY TwoIsSeq
<1>3. IsFine(v) => ~v.failed
  BY <1>1, FineCondition
<1>4. IsFine(w) => ~w.failed
  BY <1>1, FineCondition
<1>5. /\ \A x \in ToSet(two) : x \in D
      /\ (~(v.failed \/ w.failed) /\ \A x \in ToSet(two) : IsFine(x)) <=> (IsFine(v) /\ IsFine(w))
  <2> HIDE DEF v, w, two, D
  <2> QED
    BY <1>1, <1>2, <1>3, <1>4
<1>6. ASSUME LogicOK(v, heap)
      PROVE  /\ IsSeq(more) /\ \A x \in ToSet(more) : x \in D
             /\ (~v.failed /\ \A x \in ToSet(more) : IsFine(x)) <=> (IsFine(v) /\ IsFine(w))
  <2>1. IsSeq(Operands(v)) /\ ToSet(Operands(v)) \subseteq ToSet(heap[v.array].of)
    BY <1>6, OperandsAre DEF ToSet
  <2>2. ToSet(heap[v.array].of) \subseteq D
    BY <1>6 DEF Old, LogicOK
  <2>3. IsSeq(<<w>>) /\ ToSet(<<w>>) = {w}
    BY OneIsSeq
  <2>4. IsSeq(more) /\ ToSet(more) = ToSet(Operands(v)) \cup {w}
    BY <2>1, <2>3, ConcatIsSeq
  <2>5. Refs(v) = ToSet(Operands(v)) /\ (Okay(v) <=> ~v.failed)
    BY <1>1, <1>6 DEF Refs, Okay, LogicOK
  <2>6. IsFine(v) <=> Okay(v) /\ \A x \in Refs(v) : IsFine(x)
    BY <1>1, Unfolds
  <2> HIDE DEF v, w, more, D
  <2> QED
    BY <1>1, <2>1, <2>2, <2>4, <2>5, <2>6
<1> HIDE DEF two, more
<1>7. ASSUME NEW x, Joins(and, v.failed \/ w.failed, two, x, j, k) PROVE Accounted'
  BY <1>2, <1>5, <1>7, JoinsAccount
<1>8. ASSUME LogicOK(v, heap), Joins(and, v.failed, more, 1, j, k) PROVE Accounted'
  BY <1>6, <1>8, JoinsAccount
<1>9. CASE Connect(and, j, k, room)
  BY <1>7, <1>9, ConnectJoins DEF two
<1>10. CASE Chain(and, j, k)
  BY <1>7, <1>8, <1>10, ChainJoins DEF two, more
<1> QED
  BY <1>9, <1>10

(* A copy in which everything refers to copies, or to the same, is as fine. *)
LEMMA CopiesAreFine ==
  ASSUME NEW H, NEW N,
         \A x \in H : /\ x \in Expressions' /\ N[x] \in Expressions'
                      /\ Okay(N[x])' <=> Okay(x)'
                      /\ \/ Refs(N[x])' = Refs(x)'
                         \/ Refs(x)' \subseteq H /\ Refs(N[x])' = {N[y] : y \in Refs(x)'}
  PROVE  \A x \in H : IsFine(N[x])' <=> IsFine(x)'
<1>1. ASSUME NEW x \in H, IsFine(x)' PROVE IsFine(N[x])'
  <2>1. PICK R \in SUBSET Expressions' : x \in R /\ Fine(R)'
    BY <1>1 DEF IsFine
  <2>2. PICK Q : Q = R \cup {N[y] : y \in R \cap H}
    OBVIOUS
  <2>3. Q \in SUBSET Expressions' /\ N[x] \in Q
    BY <2>1, <2>2
  <2>4. \A y \in R : Okay(y)' /\ Refs(y)' \subseteq R
    BY <2>1 DEF Fine
  <2>5. ASSUME NEW y \in R \cap H PROVE Okay(N[y])' /\ Refs(N[y])' \subseteq Q
    BY <2>2, <2>4
  <2>6. \A z \in Q : Okay(z)' /\ Refs(z)' \subseteq Q
    BY <2>2, <2>4, <2>5
  <2>7. Fine(Q)'
    BY <2>6 DEF Fine
  <2> QED
    BY <2>3, <2>7 DEF IsFine
<1>2. ASSUME NEW x \in H, IsFine(N[x])' PROVE IsFine(x)'
  <2>1. PICK R \in SUBSET Expressions' : N[x] \in R /\ Fine(R)'
    BY <1>2 DEF IsFine
  <2>2. PICK Q : Q = R \cup {y \in H : N[y] \in R}
    OBVIOUS
  <2>3. Q \in SUBSET Expressions' /\ x \in Q
    BY <2>1, <2>2
  <2>4. \A y \in R : Okay(y)' /\ Refs(y)' \subseteq R
    BY <2>1 DEF Fine
  <2>5. ASSUME NEW y \in H, N[y] \in R PROVE Okay(y)' /\ Refs(y)' \subseteq Q
    BY <2>2, <2>4, <2>5
  <2>6. \A z \in Q : Okay(z)' /\ Refs(z)' \subseteq Q
    BY <2>2, <2>4, <2>5
  <2>7. Fine(Q)'
    BY <2>6 DEF Fine
  <2> QED
    BY <2>3, <2>7 DEF IsFine
<1> QED
  BY <1>1, <1>2

(* The operands of a negated connective are those of the other, negated.   *)
LEMMA NegatedOperands ==
  ASSUME WellMade, NEW x, LogicOK(x, heap), Mirrors(heap'), NEW w, w = Negated(x)
  PROVE  ToSet(Operands(w)') = {Negated(y) : y \in ToSet(Operands(x))}
<1> DEFINE old == heap[x.array].of
           new == NegatedArray(heap[x.array]).of
<1>1. x.array \in DOMAIN heap /\ x.len \in Nat /\ x.len <= Len(old)
  BY DEF LogicOK
<1>2. IsSeq(old) /\ DOMAIN old = 1..Len(old) /\ Len(old) \in Nat
  BY <1>1, HeapFacts
<1>3. IsSeq(new) /\ Len(new) = Len(old) /\ \A k \in DOMAIN old : new[k] = Negated(old[k])
  BY <1>1, NegatedArrayIs
<1>4. w.len = x.len /\ heap'[w.array] = NegatedArray(heap[x.array])
  BY NegatedLogic
<1>5. Operands(w)' = SubSeq(new, 1, x.len)
  BY <1>4 DEF Operands
<1>6. Operands(x) = SubSeq(old, 1, x.len)
  BY DEF Operands
<1>7. \A k \in 1..x.len : k \in DOMAIN old
  BY <1>1, <1>2
<1> HIDE DEF old, new
<1>8. ToSet(Operands(w)') = {new[k] : k \in 1..x.len}
  BY <1>1, <1>3, <1>5, PrefixElements
<1>9. ToSet(Operands(x)) = {old[k] : k \in 1..x.len}
  BY <1>1, <1>2, <1>6, PrefixElements
<1>10. \A k \in 1..x.len : new[k] = Negated(old[k])
  BY <1>3, <1>7
<1> QED
  BY <1>8, <1>9, <1>10

LEMMA NotAccounts ==
  ASSUME WellMade, Accounted, NEW k \in Places, NotOf(k)
  PROVE  Accounted'
<1>1. PICK v : v = objs[k].v
  OBVIOUS
<1>2. PICK n \in Nat : n = Len(objs)
  <2>1. Len(objs) \in Nat
    BY HeapFacts
  <2> QED
    BY <2>1
<1>3. PICK w : w = Negated(v)
  OBVIOUS
<1>4. PICK means : Make(w, means, FALSE, {k})
  BY <1>1, <1>3 DEF NotOf
<1>5. IF v.kind = "cond" THEN heap' = heap ELSE Mirrors(heap')
  BY <1>1, NegatedHeapIs DEF NotOf
<1>6. More(heap, heap')
  BY <1>5 DEF Mirrors, More
<1>7. LeftAlone(n) /\ DOMAIN objs' = 1..(n + 1) /\ w \in Expressions'
  BY <1>2, <1>4, <1>6, MakeLeaves, MakeIsExpression
<1>8. ConditionOK(v, n, heap) /\ v \in Old(n) /\ k \in 1..n
  BY <1>1, <1>2, PlaceMore, PlaceOK DEF Old
<1>9. ASSUME NEW x, CondOK(x, n), NEW y, y = Negated(x), x \in Expressions'
      PROVE  (Okay(y)' <=> Okay(x)') /\ Refs(y)' = Refs(x)'
  <2>1. y.kind = "cond" /\ x.kind = "cond" /\ y.failed = x.failed /\ y.b = x.b
    BY <1>9, NegatedCond DEF CondOK
  <2>2. (Okay(x)' <=> ~x.failed) /\ (Okay(y)' <=> ~y.failed)
    BY <2>1 DEF Okay, IsCondition
  <2>3. Refs(x)' = ThoseAt(ExprPlaces(x))' /\ Refs(y)' = ThoseAt(ExprPlaces(y))'
    BY <2>1 DEF Refs
  <2>4. ThoseAt(ExprPlaces(x))' = {objs'[j].v : j \in ExprPlaces(x)}
    BY DEF ThoseAt, ExprPlaces
  <2>5. ThoseAt(ExprPlaces(y))' = {objs'[j].v : j \in ExprPlaces(y)}
    BY DEF ThoseAt, ExprPlaces
  <2>6. ExprPlaces(y) = ExprPlaces(x)
    BY <2>1 DEF ExprPlaces
  <2> QED
    BY <2>1, <2>2, <2>3, <2>4, <2>5, <2>6
<1>10. IsFine(w)' <=> IsFine(v)'
  <2>1. CASE v.kind = "cond"
    <3>1. CondOK(v, n)
      BY <1>8, <2>1 DEF ConditionOK, LogicOK
    <3>2. v \in Expressions'
      BY <1>1, <1>7, <1>8 DEF LeftAlone, Expressions
    <3>3. (Okay(w)' <=> Okay(v)') /\ Refs(w)' = Refs(v)'
      BY <1>3, <1>9, <3>1, <3>2
    <3> QED
      BY <1>7, <3>2, <3>3, UnfoldsNext
  <2>2. CASE v.kind # "cond"
    <3>1. Mirrors(heap')
      BY <1>5, <2>2
    <3>2. PICK H : H = {v} \cup UNION {ToSet(heap[m].of) : m \in DOMAIN heap}
      OBVIOUS
    <3>3. PICK N : N = [x \in H |-> Negated(x)]
      OBVIOUS
    <3>4. N[v] = w /\ v \in H
      BY <1>3, <3>2, <3>3
    <3>5. ASSUME NEW x \in H PROVE x \in Expressions' /\ N[x] \in Expressions'
      <4>1. CASE x = v
        BY <1>1, <1>7, <1>8, <3>4, <4>1 DEF LeftAlone, Expressions
      <4>2. ASSUME NEW m \in DOMAIN heap, x \in ToSet(heap[m].of) PROVE x \in Expressions' /\ N[x] \in Expressions'
        <5>1. PICK q \in DOMAIN heap[m].of : x = heap[m].of[q]
          BY <4>2 DEF ToSet
        <5>2. m \in DOMAIN heap' /\ heap'[m] = heap[m]
          BY <1>6 DEF More
        <5>3. x \in Expressions'
          BY <4>2, <5>2 DEF Expressions, ToSet
        <5>4. m + Len(heap) \in DOMAIN heap' /\ heap'[m + Len(heap)] = NegatedArray(heap[m])
          BY <3>1 DEF Mirrors
        <5>5. /\ DOMAIN NegatedArray(heap[m]).of = DOMAIN heap[m].of
              /\ NegatedArray(heap[m]).of[q] = Negated(x)
          BY <5>1, NegatedArrayIs
        <5>6. N[x] \in ToSet(heap'[m + Len(heap)].of)
          BY <3>3, <5>4, <5>5 DEF ToSet
        <5>7. N[x] \in Expressions'
          BY <5>4, <5>6 DEF Expressions, ToSet
        <5> QED
          BY <5>3, <5>7
      <4> QED
        BY <3>2, <4>1, <4>2
    <3>6. \A x \in H : ConditionOK(x, n, heap)
      <4>1. 1..(Len(objs) - 1) \subseteq 1..n /\ More(heap, heap)
        BY <1>2 DEF More
      <4>2. ASSUME NEW m \in DOMAIN heap, NEW x \in ToSet(heap[m].of) PROVE ConditionOK(x, n, heap)
        <5>1. ConditionOK(x, Len(objs) - 1, heap)
          BY HeapFacts DEF ToSet
        <5> QED
          BY <4>1, <5>1, ConditionMore
      <4> QED
        BY <1>8, <3>2, <4>2
    <3>7. ASSUME NEW x \in H, CondOK(x, n)
          PROVE  (Okay(N[x])' <=> Okay(x)') /\ Refs(N[x])' = Refs(x)'
      <4>1. N[x] = Negated(x)
        BY <3>3
      <4> QED
        BY <1>9, <3>5, <3>7, <4>1
    <3>8. ASSUME NEW x \in H, LogicOK(x, heap)
          PROVE  /\ Okay(N[x])' <=> Okay(x)'
                 /\ Refs(x)' \subseteq H /\ Refs(N[x])' = {N[y] : y \in Refs(x)'}
      <4>1. PICK y : y = N[x]
        OBVIOUS
      <4>2. y = Negated(x)
        BY <3>3, <4>1
      <4>3. LogicOK(y, heap') /\ y.failed = x.failed
        BY <3>1, <3>8, <4>2, NegatedLogic
      <4>4. x.kind = "logic" /\ y.kind = "logic"
        BY <3>8, <4>3 DEF LogicOK
      <4>5. Okay(y)' <=> Okay(x)'
        BY <4>3, <4>4 DEF Okay, IsCondition
      <4>6. Refs(x)' = ToSet(Operands(x)') /\ Refs(y)' = ToSet(Operands(y)')
        BY <4>4 DEF Refs, ToSet
      <4>7. Operands(x)' = Operands(x)
        BY <1>6, <3>8 DEF More, LogicOK, Operands
      <4>8. ToSet(Operands(x)) \subseteq H
        <5>1. ToSet(Operands(x)) \subseteq ToSet(heap[x.array].of) /\ x.array \in DOMAIN heap
          BY <3>8, OperandsAre DEF ToSet, LogicOK
        <5> QED
          BY <3>2, <5>1
      <4>9. ToSet(Operands(y)') = {Negated(z) : z \in ToSet(Operands(x))}
        BY <3>1, <3>8, <4>2, NegatedOperands
      <4>10. {Negated(z) : z \in ToSet(Operands(x))} = {N[z] : z \in ToSet(Operands(x))}
        BY <3>3, <4>8
      <4>11. Refs(x)' \subseteq H /\ Refs(y)' = {N[z] : z \in Refs(x)'}
        BY <4>6, <4>7, <4>8, <4>9, <4>10
      <4> QED
        BY <4>1, <4>5, <4>11
    <3>9. \A x \in H : IsFine(N[x])' <=> IsFine(x)'
      BY <3>5, <3>6, <3>7, <3>8, CopiesAreFine DEF ConditionOK
    <3> QED
      BY <3>4, <3>9
  <2> QED
    BY <2>1, <2>2
<1>11. IsFine(v)' <=> IsFine(v)
  BY <1>7, <1>8, Stays
<1>12. IsFine(w)' <=> ~FALSE /\ \A j \in {k} : IsFine(objs[j].v)
  BY <1>1, <1>10, <1>11
<1>13. {k} \subseteq 1..Len(objs)
  BY <1>2, <1>8
<1> QED
  BY <1>4, <1>6, <1>12, <1>13, MakeAccounts

LEMMA NewAccounts ==
  ASSUME WellMade, Accounted, NEW kind \in Kinds, NEW j \in {0} \cup Places,
         NewStatement(kind) \/ NewUsual(kind, j)
  PROVE  Accounted'
<1>1. j # 0 => j \in 1..Len(objs)
  BY PlaceOK
<1>2. heap' = heap
  BY DEF NewStatement, NewUsual
<1>3. More(heap, heap')
  BY <1>2 DEF More
<1>4. CASE NewStatement(kind)
  <2>1. PICK v : v = Bare(kind)
    OBVIOUS
  <2>2. Make(v, {}, FALSE, {})
    BY <1>4, <2>1 DEF NewStatement
  <2>3. ~IsCondition(v)
    BY <2>1, BareOK, Kind
  <2> QED
    BY <1>3, <2>2, <2>3, MakeAccounts
<1>5. CASE NewUsual(kind, j)
  <2>1. PICK v : v = Usual(kind, j)
    OBVIOUS
  <2>2. Make(v, {}, FALSE, {j} \ {0}) /\ (kind = "insert" => j = 0)
    BY <1>5, <2>1 DEF NewUsual
  <2>3. StatementOK(v, Len(objs), Places)
    BY <1>1, <2>1, <2>2, UsualOK
  <2>4. ~IsCondition(v)
    BY <2>3, Kind
  <2>5. {j} \ {0} \subseteq 1..Len(objs)
    BY <1>1
  <2> QED
    BY <1>3, <2>2, <2>4, <2>5, MakeAccounts
<1> QED
  BY <1>4, <1>5

(* The conditions of SelectRelation are made of the statement before them. *)
LEMMA RelationAccounts ==
  ASSUME NEW r, NEW columns, SelectRelation(r, columns)
  PROVE  Accounted'
<1>1. objs' = MadeFor(r, columns)
  BY DEF SelectRelation
<1>2. ASSUME NEW s, NEW t, NEW k PROVE ~IsCondition(SelectFrom(s, t, k))
  BY DEF SelectFrom, Bare, IsCondition
<1>3. ASSUME NEW s, NEW op, NEW x
      PROVE  LET v == NameOpArgument(s, op, x)
             IN  /\ v.kind = "cond" /\ v.failed = FALSE
                 /\ ExprPlaces(v) = IF x.expression THEN {x.value} ELSE {}
  <2> DEFINE p == Identifier(s)
             q == Argument(x)
             two == <<p, q>>
             v == NameOpArgument(s, op, x)
  <2>1. p.type = "identifier" /\ q.value = x.value /\ q.type = (IF x.expression THEN "expression" ELSE "marker")
    BY DEF Identifier, Argument
  <2>2. v.kind = "cond" /\ v.failed = FALSE /\ v.b = two
    BY DEF NameOpArgument
  <2>3. DOMAIN two = 1..2 /\ two[1] = p /\ two[2] = q
    OBVIOUS
  <2> HIDE DEF p, q, two, v
  <2>4. {k \in DOMAIN two : two[k].type = "expression"} = IF x.expression THEN {2} ELSE {}
    BY <2>1, <2>3
  <2>5. ExprPlaces(v) = IF x.expression THEN {x.value} ELSE {}
    BY <2>1, <2>2, <2>3, <2>4 DEF ExprPlaces
  <2> QED
    BY <2>2, <2>5 DEF v
<1>4. ASSUME NEW k, k \in DOMAIN objs', NEW s, NEW op, NEW x, NEW us,
             objs'[k] = Thing(NameOpArgument(s, op, x), us), us = IF x.expression THEN {x.value} ELSE {}
      PROVE  AccountOf(k)'
  <2>1. PICK v : v = NameOpArgument(s, op, x)
    OBVIOUS
  <2>2. objs'[k].v = v /\ objs'[k].refused = FALSE /\ objs'[k].uses = us
    <3>1. Thing(v, us).v = v /\ Thing(v, us).refused = FALSE /\ Thing(v, us).uses = us
      BY ThingIs
    <3> QED
      BY <1>4, <2>1, <3>1
  <2>3. v.kind = "cond" /\ v.failed = FALSE /\ ExprPlaces(v) = us
    BY <1>3, <1>4, <2>1
  <2> QED
    BY <1>4, <2>2, <2>3, FormatAccount
<1>5. ASSUME NEW k, NEW s, NEW t, NEW m, NEW us, objs'[k] = Thing(SelectFrom(s, t, m), us) PROVE k \notin Places'
  <2>1. PICK v : v = SelectFrom(s, t, m)
    OBVIOUS
  <2>2. objs'[k].v = v
    <3>1. Thing(v, us).v = v
      BY ThingIs
    <3> QED
      BY <1>5, <2>1, <3>1
  <2> QED
    BY <1>2, <2>1, <2>2 DEF Places, IsCondition
<1> DEFINE elect == [j \in DOMAIN Elect(r, columns) |-> Str(Elect(r, columns)[j].name)]
           joined == [expression |-> TRUE, value |-> 2]
           owner  == Plain(ValueFor[r.left])
           first  == Thing(NameOpArgument(r.left, "=", owner), {})
           second == Thing(SelectFrom(<<Str(r.right)>>, r.join, 1), {1})
           third  == Thing(NameOpArgument(r.key, "IN", joined), {2})
           last(k) == Thing(SelectFrom(elect, r.table, k), {k})
<1>6. owner.expression = FALSE /\ joined.expression = TRUE /\ joined.value = 2
  BY DEF Plain
<1>7. CASE r.relation = "one_to_many"
  <2>1. objs' = <<first, last(1)>>
    BY <1>1, <1>7 DEF MadeFor
  <2>2. DOMAIN objs' = 1..2 /\ objs'[1] = first /\ objs'[2] = last(1)
    <3> HIDE DEF first, last
    <3> QED
      BY <2>1
  <2>3. AccountOf(1)'
    BY <1>4, <1>6, <2>2
  <2>4. 2 \notin Places'
    BY <1>5, <2>2
  <2>5. \A k \in Places' : k = 1
    BY <2>2, <2>4 DEF Places
  <2> QED
    BY <2>3, <2>5 DEF Accounted
<1>8. CASE r.relation # "one_to_many"
  <2>1. objs' = <<first, second, third, last(3)>>
    BY <1>1, <1>8 DEF MadeFor
  <2>2. DOMAIN objs' = 1..4 /\ objs'[1] = first /\ objs'[2] = second /\ objs'[3] = third /\ objs'[4] = last(3)
    <3> HIDE DEF first, second, third, last
    <3> QED
      BY <2>1
  <2>3. AccountOf(1)'
    BY <1>4, <1>6, <2>2
  <2>4. AccountOf(3)'
    BY <1>4, <1>6, <2>2
  <2>5. 2 \notin Places' /\ 4 \notin Places'
    BY <1>5, <2>2
  <2>6. \A k \in Places' : k = 1 \/ k = 3
    BY <2>2, <2>5 DEF Places
  <2> QED
    BY <2>3, <2>4, <2>6 DEF Accounted
<1> QED
  BY <1>7, <1>8

(* A statement changes: what was made before it does not.                  *)
LEMMA BuilderAccounts ==
  ASSUME WellMade, Accounted, Chaining, CallBuilder
  PROVE  Accounted'
<1>1. PICK w, all : NowBecomes(w, all)
  BY BuilderChanges
<1>2. Now > 0 /\ Now \notin Places
  BY DEF Chaining
<1>3. /\ DOMAIN objs' = DOMAIN objs /\ Places' = Places
      /\ \A k \in DOMAIN objs \ {Now} : objs'[k] = objs[k]
  BY <1>1, <1>2, NowChanges
<1>4. DOMAIN objs = 1..Now /\ Now \in Nat \ {0}
  BY <1>2, NowIs
<1>5. PICK n : n = Now - 1
  OBVIOUS
<1>6. LeftAlone(n)
  <2>1. \A m \in 1..n : m \in DOMAIN objs \ {Now}
    BY <1>4, <1>5
  <2>2. n \in Nat /\ Len(objs) - 1 <= n /\ n <= Len(objs)
    BY <1>4, <1>5 DEF Now
  <2>3. More(heap, heap')
    BY <1>1 DEF NowBecomes, More
  <2> QED
    BY <1>3, <2>1, <2>2, <2>3 DEF LeftAlone
<1>7. ASSUME NEW k \in Places' PROVE k \in 1..n
  <2>1. k \in 1..Now /\ k # Now
    BY <1>2, <1>3, <1>4 DEF Places
  <2> QED
    BY <1>4, <1>5, <2>1
<1> QED
  BY <1>6, <1>7, OldAccounts DEF Accounted

LEMMA AccountedStep ==
  ASSUME Sized, WellMade, Accounted, [RelationNext]_<<vars, sent>>
  PROVE  Accounted'
<1>1. ASSUME Same PROVE Accounted'
  <2>1. PICK n \in Nat : n = Len(objs)
    <3>1. Len(objs) \in Nat
      BY HeapFacts
    <3> QED
      BY <3>1
  <2>2. LeftAlone(n)
    BY <1>1, <2>1, HeapFacts DEF Same, LeftAlone, More
  <2>3. Places' \subseteq 1..n
    BY <1>1, <2>1, HeapFacts DEF Same, Places
  <2> QED
    BY <2>2, <2>3, OldAccounts DEF Accounted
<1> QED
  BY StepIs, <1>1, RelationAccounts, ReturnAccounts, ConnectAccounts, NotAccounts, NewAccounts, BuilderAccounts

LEMMA AccountedAlways == RelationSpec => []Accounted
<1>1. RelationInit => Accounted
  BY NoneIsSeq DEF RelationInit, Init, Accounted, Places
<1>2. Sized /\ WellMade /\ Accounted /\ [RelationNext]_<<vars, sent>> => Accounted'
  BY AccountedStep
<1> QED
  BY <1>1, <1>2, SizedAlways, MadeAlways, PTL DEF RelationSpec

-----------------------------------------------------------------------------
(* No error is lost and none is invented, in programs of any length that   *)
(* nest conditions and statements to any depth: what has been made expands *)
(* exactly when nothing inside it was refused or is incomplete.  A         *)
(* connective keeps the errors of some operands only, Not keeps all of     *)
(* them, a builder checks nothing when it is called, and yet no error is   *)
(* missed when the whole is expanded.  (cond.go:63-83, Err and Expand)     *)
THEOREM EveryErrorSurfaces == RelationSpec => []ErrorsSurface
  BY MadeAlways, AccountedAlways, AccountedSurface, PTL
=============================================================================
