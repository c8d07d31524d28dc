--------------------- MODULE TableRegistryAcyclicProofs ---------------------
(***************************************************************************)
(* Proofs about the registry, for the types of any schema whose relations  *)
(* lead into no cycle: a call never asks for such a type while it builds   *)
(* it, so whatever tableOf returns for it is finished, its columns are     *)
(* named from finished tables and it refers to known types.                *)
(***************************************************************************)
EXTENDS TableRegistryAcyclic, TableRegistryProofs

(* Type a comes before b in the ranks, if b has one.                       *)
Beneath(a, b) == b \in Ranked => a \in Ranked /\ Rank[a] < Rank[b]

(* The types a call is inside of are each beneath those further out, and   *)
(* so is the type it looks up.                                             *)
Descending ==
  \A c \in Calls :
    /\ \A j, k \in 1..Len(stack[c]) : j < k => Beneath(stack[c][j], stack[c][k])
    /\ st[c] = "lookup" => \A k \in 1..Len(stack[c]) : Beneath(arg[c], stack[c][k])

(* The tags of every struct on the stack have parsed, unless they are what *)
(* the call failed on.                                                     *)
Parsed ==
  \A c \in Calls : st[c] # "failed" =>
    \A k \in 1..Len(stack[c]) : Schema[stack[c][k]].parses

(* No table of a ranked type points at an unfinished one, nor is a frame   *)
(* handed an unfinished table of such a type.                              *)
Settled ==
  /\ \A T \in Tables : T[2] \in Ranked => \A U \in Links(T) : Finished(U)
  /\ \A c \in Calls : st[c] = "returned" /\ ret[c][2] \in Ranked => Finished(ret[c])

(* A type that some call has finished is published, if not by that call.   *)
Known == \A T \in Tables : Finished(T) => tables[T[2]] # Nil

(* The through table that an initialised column names has been found.      *)
ThroughFilled ==
  \A T \in Tables : \A i \in inited[T] :
    Column(T[2], i).kind = "many_to_many" /\ Column(T[2], i).through # Nil =>
      thr[T][i] # Nil /\ thr[T][i][2] = Column(T[2], i).through

(* Column i of T is named from the key it refers to, which is there.       *)
NamesKey(T, i) ==
  IF Column(T[2], i).kind = "one_to_many"
  THEN /\ Key(T[2]) \in inited[T]
       /\ name[T][i] = ColumnName[T[2]][i][KeyName(T)]
  ELSE /\ Key(Column(T[2], i).target) # 0
       /\ name[T][i] = ColumnName[T[2]][i][KeyName(rel[T][i])]

(* A relation has its name from the moment it is bound, unless it fails.   *)
Linked(T, i) == i \in inited[T] \/ (rel[T][i] # Nil /\ st[T[1]] # "failed")

NamesKeys ==
  \A T \in Tables : T[2] \in Ranked => \A i \in Cols(T[2]) :
    Column(T[2], i).kind # "plain" /\ Linked(T, i) => NamesKey(T, i)

(* The inductive invariant for types that lead into no cycle.              *)
AInv ==
  /\ IInv
  /\ Descending
  /\ Parsed
  /\ Settled
  /\ Known
  /\ ThroughFilled
  /\ NamesKeys

-----------------------------------------------------------------------------
LEMMA TargetFacts ==
  ASSUME NEW t, NEW u \in Targets[t]
  PROVE  Beneath(u, t)
  BY RankAssumption DEF Beneath

LEMMA BeneathTransitive ==
  ASSUME NEW a, NEW b, NEW c, Beneath(a, b), Beneath(b, c)
  PROVE  Beneath(a, c)
<1>1. \A t \in Ranked : Rank[t] \in Nat
  BY RankAssumption
<1> QED
  BY <1>1 DEF Beneath

LEMMA RefersTo ==
  ASSUME NEW t \in Types, NEW i \in Cols(t), Column(t, i).kind # "plain"
  PROVE  /\ Column(t, i).target \in Targets[t]
         /\ Column(t, i).kind = "many_to_many" /\ Column(t, i).through # Nil =>
              Column(t, i).through \in Targets[t]
  BY DEF Targets

(* What the init of a column looks up is a type its struct refers to.      *)
LEMMA LooksUpTarget ==
  ASSUME TypeInv, TypeInv', Bound, NEW c \in Calls, NEW i \in 1..MaxCols, InitColumn(c, i),
         NEW F \in Tables, F = Frame(c), st'[c] = "lookup"
  PROVE  arg'[c] \in Targets[F[2]]
<1>1. /\ i \in Due(F)
      /\ Column(F[2], i).kind # "plain"
      /\ rel'[F][i] = Nil => arg'[c] = Column(F[2], i).target
      /\ \/ st[c] = "init" /\ rel'[F][i] = rel[F][i]
         \/ /\ Column(F[2], i).kind = "many_to_many"
            /\ arg'[c] = Column(F[2], i).through
  BY InitColumnEffect
<1>2. i \in Cols(F[2]) /\ F[2] \in Types
  BY <1>1, DueFacts DEF Tables
<1>3. arg'[c] # Nil
  BY SchemaAssumption DEF TypeInv, Placed
<1>4. st[c] = "init" => rel[F][i] = Nil
  BY <1>1 DEF Bound
<1> QED
  BY <1>1, <1>2, <1>3, <1>4, RefersTo

(* So is what comes back to the init of a column.                          *)
LEMMA ReturnsTarget ==
  ASSUME TypeInv, Waiting, NEW c \in Calls, NEW F \in Tables, F = Frame(c),
         NEW i \in Due(F), st[c] = "returned"
  PROVE  ret[c][2] \in Targets[F[2]]
<1>1. /\ Column(F[2], i).kind # "plain"
      /\ \/ ret[c][2] = Column(F[2], i).target
         \/ /\ Column(F[2], i).kind = "many_to_many"
            /\ ret[c][2] = Column(F[2], i).through
  BY DEF Waiting, Waits, Awaits
<1>2. i \in Cols(F[2]) /\ F[2] \in Types
  BY DueFacts DEF Tables
<1>3. ret[c][2] # Nil
  BY SchemaAssumption DEF TypeInv, Placed, Tables
<1> QED
  BY <1>1, <1>2, <1>3, RefersTo

LEMMA DescendingStep ==
  ASSUME IInv, Descending, [Next]_vars
  PROVE  Descending'
<1>0. /\ TypeInv /\ TypeInv' /\ Bound /\ Outside
      /\ stack \in [Calls -> Seq(Types)] /\ st \in [Calls -> States]
  BY TypeStep DEF IInv, TypeInv, TypeOK
<1>1. CASE UNCHANGED vars
  BY <1>1 DEF vars, Descending
<1>2. ASSUME NEW c \in Calls, Step(c) \/ \E t \in Types : Call(c, t), NEW d \in Calls
      PROVE  /\ \A j, k \in 1..Len(stack'[d]) :
                  j < k => Beneath(stack'[d][j], stack'[d][k])
             /\ st'[d] = "lookup" =>
                  \A k \in 1..Len(stack'[d]) : Beneath(arg'[d], stack'[d][k])
  <2>1. Others(c)
    BY <1>0, <1>2, StepShape
  <2>2. /\ \A j, k \in 1..Len(stack[d]) : j < k => Beneath(stack[d][j], stack[d][k])
        /\ st[d] = "lookup" => \A k \in 1..Len(stack[d]) : Beneath(arg[d], stack[d][k])
        /\ Len(stack[d]) \in Nat
        /\ \A k \in 1..Len(stack[d]) : stack[d][k] \in Types
    BY <1>0, ElementOfSeq, LenProperties DEF Descending
  <2>3. CASE d # c
    BY <2>1, <2>2, <2>3 DEF Others
  <2>4. CASE d = c /\ \E t \in Types : Call(c, t)
    <3>1. stack'[c] = <<>> /\ Len(stack'[c]) = 0
      BY <1>0, <2>4 DEF Call, Outside
    <3> QED
      BY <2>4, <3>1
  <2>5. CASE d = c /\ (LookupCached(c) \/ LookupOwn(c))
    <3>1. stack' = stack /\ st'[c] # "lookup"
      BY <1>0, <2>5 DEF LookupCached, LookupOwn, Return, Goto
    <3> QED
      BY <2>2, <2>5, <3>1
  <2>6. CASE d = c /\ LookupNew(c)
    <3>1. st[c] = "lookup" /\ st'[c] # "lookup"
      BY <1>0, <2>6 DEF LookupNew, Goto
    <3>2. /\ Len(stack'[c]) = Len(stack[c]) + 1
          /\ stack'[c][1] = arg[c]
          /\ \A k \in 1..Len(stack[c]) : stack'[c][k + 1] = stack[c][k]
      BY <1>0, <2>6, PushStep
    <3>3. \A k \in 2..Len(stack'[c]) :
            k - 1 \in 1..Len(stack[c]) /\ stack'[c][k] = stack[c][k - 1]
      <4>1. ASSUME NEW k \in 2..Len(stack'[c])
            PROVE  k - 1 \in 1..Len(stack[c]) /\ (k - 1) + 1 = k
        BY <2>2, <2>6, <3>2, <4>1
      <4> QED
        BY <3>2, <4>1
    <3>4. ASSUME NEW j \in 1..Len(stack'[c]), NEW k \in 1..Len(stack'[c]), j < k
          PROVE  Beneath(stack'[c][j], stack'[c][k])
      <4>1. k \in 2..Len(stack'[c])
        BY <2>2, <2>6, <3>2, <3>4
      <4>2. k - 1 \in 1..Len(stack[c]) /\ stack'[c][k] = stack[c][k - 1]
        BY <3>3, <4>1
      <4>3. CASE j = 1
        BY <2>2, <2>6, <3>1, <3>2, <4>2, <4>3
      <4>4. CASE j # 1
        <5>1. j \in 2..Len(stack'[c])
          BY <2>2, <2>6, <3>2, <4>4
        <5>2. j - 1 \in 1..Len(stack[c]) /\ stack'[c][j] = stack[c][j - 1] /\ j - 1 < k - 1
          BY <3>3, <3>4, <5>1
        <5> QED
          BY <2>2, <2>6, <4>2, <5>2
      <4> QED
        BY <4>3, <4>4
    <3> QED
      BY <2>6, <3>1, <3>4
  <2>7. CASE d = c /\ Publish(c)
    <3>1. /\ st'[c] # "lookup"
          /\ Len(stack'[c]) = Len(stack[c]) - 1
          /\ \A k \in 1..Len(stack'[c]) : stack'[c][k] = stack[c][k + 1]
      BY <1>0, <2>7, PopStep DEF Publish, Return, Goto
    <3>2. ASSUME NEW j \in 1..Len(stack'[c]), NEW k \in 1..Len(stack'[c]), j < k
          PROVE  Beneath(stack'[c][j], stack'[c][k])
      <4>1. j + 1 \in 1..Len(stack[c]) /\ k + 1 \in 1..Len(stack[c]) /\ j + 1 < k + 1
        BY <2>2, <2>7, <3>1, <3>2
      <4> QED
        BY <2>2, <2>7, <3>1, <4>1
    <3> QED
      BY <2>7, <3>1, <3>2
  <2>8. CASE d = c /\ \E i \in 1..MaxCols : InitColumn(c, i)
    <3>1. PICK i \in 1..MaxCols : InitColumn(c, i)
      BY <2>8
    <3>2. stack' = stack /\ stack[c] # <<>>
      BY <1>0, <3>1, InitColumnStays DEF Stays
    <3>3. PICK F \in Tables : F = Frame(c) /\ F[2] = stack[c][1] /\ F[2] \in Types
      BY <1>0, <3>2, FrameFacts DEF TypeInv
    <3>4. ASSUME st'[c] = "lookup", NEW k \in 1..Len(stack'[c])
          PROVE  Beneath(arg'[c], stack'[c][k])
      <4>1. Beneath(arg'[c], stack[c][1])
        BY <1>0, <3>1, <3>3, <3>4, LooksUpTarget, TargetFacts
      <4>2. k = 1 \/ Beneath(stack[c][1], stack[c][k])
        BY <1>0, <2>2, <2>8, <3>2, <3>4
      <4> QED
        BY <3>2, <4>1, <4>2, BeneathTransitive
    <3> QED
      BY <2>2, <2>8, <3>2, <3>4
  <2> QED
    BY <1>2, <2>3, <2>4, <2>5, <2>6, <2>7, <2>8 DEF Step
<1> QED
  BY <1>1, <1>2 DEF Next, Descending

(* A call that failed is over.                                             *)
LEMMA FailedStays ==
  ASSUME TypeInv, [Next]_vars, NEW c \in Calls, st[c] = "failed"
  PROVE  st'[c] = "failed"
<1>1. CASE UNCHANGED vars
  BY <1>1 DEF vars
<1>2. ASSUME NEW d \in Calls, Step(d) \/ \E t \in Types : Call(d, t)
      PROVE  st'[c] = "failed"
  <2>1. d # c
    BY <1>2 DEF Step, Call, LookupCached, LookupOwn, LookupNew, Publish, InitColumn, InitPlain,
           InitRelation, BindKeyless, BindOne, BindOneToMany, BindManyToMany, BindThrough,
           BindRelation
  <2> QED
    BY <1>2, <2>1, StepShape DEF Others
<1> QED
  BY <1>1, <1>2 DEF Next

LEMMA ParsedStep ==
  ASSUME TypeInv, Parsed, [Next]_vars
  PROVE  Parsed'
<1> SUFFICES ASSUME NEW d \in Calls, st'[d] # "failed", NEW k \in 1..Len(stack'[d])
             PROVE  Schema[stack'[d][k]].parses
  BY DEF Parsed
<1>0. st \in [Calls -> States]
  BY DEF TypeInv, TypeOK
<1>1. \A j \in 1..Len(stack[d]) : Schema[stack[d][j]].parses
  BY FailedStays DEF Parsed
<1>2. CASE UNCHANGED vars
  BY <1>1, <1>2 DEF vars
<1>3. ASSUME NEW c \in Calls, Step(c) \/ \E t \in Types : Call(c, t)
      PROVE  Schema[stack'[d][k]].parses
  <2>1. CASE d # c \/ Stays(c)
    BY <1>1, <1>3, <2>1, StepShape DEF Others, Stays
  <2>2. CASE d = c /\ LookupNew(c)
    <3>1. Schema[arg[c]].parses
      BY <1>0, <2>2 DEF LookupNew, Goto
    <3>2. /\ Len(stack'[c]) = Len(stack[c]) + 1 /\ Len(stack[c]) \in Nat
          /\ stack'[c][1] = arg[c]
          /\ \A j \in 1..Len(stack[c]) : stack'[c][j + 1] = stack[c][j]
      BY <2>2, PushStep
    <3>3. k = 1 \/ (k - 1 \in 1..Len(stack[c]) /\ (k - 1) + 1 = k)
      BY <2>2, <3>2
    <3> QED
      BY <1>1, <2>2, <3>1, <3>2, <3>3
  <2>3. CASE d = c /\ Publish(c)
    <3>1. k + 1 \in 1..Len(stack[c]) /\ stack'[c][k] = stack[c][k + 1]
      BY <2>3, PopStep
    <3> QED
      BY <1>1, <2>3, <3>1
  <2> QED
    BY <1>3, <2>1, <2>2, <2>3, StepShape
<1> QED
  BY <1>2, <1>3 DEF Next

(* A call never looks up a ranked type it is still building.               *)
LEMMA NeverOwn ==
  ASSUME TypeInv, Descending, Known, NEW c \in Calls, arg[c] \in Ranked
  PROVE  ~LookupOwn(c)
<1> SUFFICES ASSUME LookupOwn(c) PROVE FALSE
  OBVIOUS
<1>1. /\ st[c] = "lookup" /\ tables[arg[c]] = Nil /\ arg[c] \in x[c] /\ arg[c] \in Types
  BY DEF LookupOwn, TypeInv, Placed
<1>2. PICK T \in Tables : T = <<c, arg[c]>>
  BY <1>1 DEF Tables
<1>3. ~Finished(T)
  BY <1>1, <1>2 DEF Known
<1>4. PICK k \in 1..Len(stack[c]) : stack[c][k] = arg[c]
  BY <1>1, <1>2, <1>3 DEF Finished, OnStack
<1>5. Rank[arg[c]] < Rank[arg[c]]
  BY <1>1, <1>4 DEF Descending, Beneath
<1>6. Rank[arg[c]] \in Nat
  BY RankAssumption
<1> QED
  BY <1>5, <1>6

LEMMA SettledStep ==
  ASSUME IInv, Descending, Known, Settled, [Next]_vars
  PROVE  Settled'
<1>0. /\ TypeInv /\ TypeInv' /\ NoReentry /\ Published /\ Waiting
      /\ st \in [Calls -> States] /\ ret \in [Calls -> Tables \cup {Nil}]
      /\ tables \in [Types -> Tables \cup {Nil}]
  BY TypeStep DEF IInv, TypeInv, TypeOK
<1>t. TypeInv'
  BY <1>0
<1>1. ASSUME NEW T \in Tables, T[2] \in Ranked, NEW U \in Links(T)' PROVE Finished(U)'
  <2>1. /\ U # Nil /\ U \in Tables
        /\ \E i \in 1..MaxCols : U = rel'[T][i] \/ U = thr'[T][i]
    <3>1. /\ rel' \in [Tables -> [1..MaxCols -> Tables \cup {Nil}]]
          /\ thr' \in [Tables -> [1..MaxCols -> Tables \cup {Nil}]]
      BY <1>t DEF TypeInv, TypeOK
    <3>2. U \in ({rel'[T][i] : i \in 1..MaxCols} \cup {thr'[T][i] : i \in 1..MaxCols}) \ {Nil}
      BY <1>1, Zenon DEF Links
    <3>3. U # Nil /\ \E i \in 1..MaxCols : U = rel'[T][i] \/ U = thr'[T][i]
      BY <3>2
    <3>4. PICK i \in 1..MaxCols : U = rel'[T][i] \/ U = thr'[T][i]
      BY <3>3
    <3>5. rel'[T][i] \in Tables \cup {Nil} /\ thr'[T][i] \in Tables \cup {Nil}
      BY <3>1
    <3>6. U \in Tables
      BY <3>3, <3>4, <3>5
    <3> QED
      BY <3>3, <3>6
  <2>2. CASE U \in Links(T)
    BY <1>0, <1>1, <2>1, <2>2, FinishedKept DEF Settled
  <2>3. CASE U \notin Links(T)
    <3>1. ~Untouched(T)
      BY <1>0, <2>1, <2>3, LinksTyped DEF Untouched
    <3>2. /\ T[1] \in Calls /\ T = Frame(T[1])
          /\ \E i \in 1..MaxCols : InitColumn(T[1], i)
      BY <1>0, <3>1, ColumnsChange
    <3>3. PICK i \in 1..MaxCols : InitColumn(T[1], i)
      BY <3>2
    <3>4. st[T[1]] = "returned" /\ U = ret[T[1]] /\ i \in Due(T)
      BY <1>0, <2>1, <2>3, <3>2, <3>3, LinksTyped, InitColumnEffect
    <3>5. U[2] \in Ranked
      BY <1>0, <1>1, <3>2, <3>4, ReturnsTarget, TargetFacts DEF Beneath
    <3> QED
      BY <1>0, <2>1, <3>2, <3>4, <3>5, FinishedKept DEF Settled
  <2> QED
    BY <2>2, <2>3
<1>2. ASSUME NEW d \in Calls, st'[d] = "returned", ret'[d][2] \in Ranked
      PROVE  Finished(ret[d])'
  <2>0. PICK U \in Tables : U = ret'[d]
    BY <1>0, <1>2 DEF TypeInv, Placed
  <2> SUFFICES Finished(U)'
    BY <2>0 DEF Finished, OnStack
  <2>1. ASSUME st[d] = "returned", ret'[d] = ret[d] PROVE Finished(U)'
    BY <1>0, <1>2, <2>0, <2>1, FinishedKept DEF Settled
  <2>2. CASE UNCHANGED vars
    BY <1>2, <2>1, <2>2 DEF vars
  <2>3. ASSUME NEW c \in Calls, Step(c) \/ \E t \in Types : Call(c, t)
        PROVE  Finished(U)'
    <3>1. CASE d # c
      BY <1>0, <1>2, <2>1, <2>3, <3>1, StepShape DEF Others
    <3>2. CASE d = c /\ LookupCached(c)
      <4>1. ret'[c] = tables[arg[c]] /\ arg[c] \in Types /\ tables[arg[c]] # Nil
        BY <1>0, <3>2 DEF LookupCached, Return, TypeInv, Placed
      <4>2. Finished(U)
        BY <1>0, <2>0, <3>2, <4>1 DEF Published
      <4> QED
        BY <1>0, <4>2, FinishedKept
    <3>3. CASE d = c /\ Publish(c)
      <4>1. U = Frame(c)
        BY <1>0, <2>0, <3>3 DEF Publish, Return
      <4> QED
        BY <1>0, <3>3, <4>1, PublishFinishes
    <3>4. CASE d = c /\ ~LookupCached(c) /\ ~Publish(c)
      <4>1. CASE \E i \in 1..MaxCols : InitColumn(c, i)
        <5>1. PICK i \in 1..MaxCols : InitColumn(c, i)
          BY <4>1
        <5>2. PICK F \in Tables : F = Frame(c)
          BY <1>0, <5>1, InitColumnStays, FrameFacts DEF TypeInv
        <5> QED
          BY <1>0, <1>2, <3>4, <5>1, <5>2, InitColumnEffect
      <4>2. CASE LookupNew(c) \/ \E t \in Types : Call(c, t)
        BY <1>0, <1>2, <3>4, <4>2 DEF LookupNew, Call, Goto
      <4>3. CASE LookupOwn(c)
        <5>1. ret'[c] = <<c, arg[c]>>
          BY <1>0, <4>3 DEF LookupOwn, Return
        <5>2. arg[c] \in Ranked
          BY <1>2, <3>4, <5>1
        <5> QED
          BY <1>0, <4>3, <5>2, NeverOwn
      <4> QED
        BY <1>0, <2>3, <3>4, <4>1, <4>2, <4>3 DEF Step
    <3> QED
      BY <3>1, <3>2, <3>3, <3>4
  <2> QED
    BY <2>2, <2>3 DEF Next
<1> QED
  BY <1>1, <1>2 DEF Settled

(* What is published stays published.                                      *)
LEMMA KnownKept ==
  ASSUME TypeInv, [Next]_vars
  PROVE  \/ tables' = tables
         \/ \E c \in Calls : /\ Publish(c) /\ Frame(c) \in Tables
                             /\ tables' = [tables EXCEPT ![Frame(c)[2]] = Frame(c)]
<1>1. ASSUME NEW c \in Calls, Publish(c)
      PROVE  /\ Frame(c) \in Tables
             /\ tables' = [tables EXCEPT ![Frame(c)[2]] = Frame(c)]
  BY <1>1, PopStep, FrameFacts DEF TypeInv
<1>2. CASE \A c \in Calls : ~Publish(c)
  BY <1>2, StepShape, PushStep DEF Next, vars, Stays
<1> QED
  BY <1>1, <1>2

LEMMA KnownStep ==
  ASSUME TypeInv, Known, [Next]_vars
  PROVE  Known'
<1> SUFFICES ASSUME NEW T \in Tables, Finished(T)' PROVE tables'[T[2]] # Nil
  BY DEF Known
<1>0. /\ T[1] \in Calls /\ T[2] \in Types /\ tables \in [Types -> Tables \cup {Nil}]
      /\ Nil \notin Tables
  BY SchemaAssumption DEF Tables, TypeInv, TypeOK
<1>1. CASE Finished(T)
  BY <1>0, <1>1, KnownKept DEF Known
<1>2. CASE ~Finished(T)
  <2>1. Publish(T[1]) /\ T = Frame(T[1])
    BY <1>2, OnlyPublishFinishes
  <2> QED
    BY <1>0, <2>1, PopStep
<1> QED
  BY <1>1, <1>2
-----------------------------------------------------------------------------
(* What the steps of an init do to the ThroughTable of their column.       *)
LEMMA ThroughEffect ==
  ASSUME TypeInv, NEW c \in Calls, NEW i \in 1..MaxCols, InitColumn(c, i),
         NEW F \in Tables, F = Frame(c)
  PROVE  /\ \A j \in 1..MaxCols : j # i => thr'[F][j] = thr[F][j]
         /\ i \in inited'[F] /\ Column(F[2], i).kind = "many_to_many"
              /\ Column(F[2], i).through # Nil =>
              /\ st[c] = "returned" /\ rel[F][i] # Nil /\ thr'[F][i] = ret[c]
<1> USE DEF heap
<1>0. /\ thr \in [Tables -> [1..MaxCols -> Tables \cup {Nil}]] /\ st \in [Calls -> States]
      /\ i \in Due(F) /\ i \notin inited[F]
  BY InitColumnEffect, DueFacts DEF TypeInv, TypeOK
<1>1. CASE InitPlain(c, i)
  BY <1>1 DEF InitPlain
<1>2. CASE InitRelation(c, i)
  BY <1>0, <1>2 DEF InitRelation
<1>3. CASE BindKeyless(c, i)
  BY <1>0, <1>3 DEF BindKeyless, BindRelation
<1>4. CASE BindOne(c, i)
  <2>1. Column(F[2], i).kind \in OneRelation /\ BindRelation(c, i)
    BY <1>4 DEF BindOne
  <2>2. thr' = thr
    BY <2>1 DEF BindRelation
  <2> QED
    BY <2>1, <2>2 DEF OneRelation
<1>5. CASE BindOneToMany(c, i)
  <2>1. Column(F[2], i).kind = "one_to_many" /\ BindRelation(c, i)
    BY <1>5 DEF BindOneToMany
  <2> QED
    BY <2>1 DEF BindRelation
<1>6. CASE BindManyToMany(c, i)
  <2>1. /\ thr' = thr
        /\ Column(F[2], i).through # Nil => inited' = inited
    BY <1>6 DEF BindManyToMany, BindRelation
  <2> QED
    BY <1>0, <2>1
<1>7. CASE BindThrough(c, i)
  <2>1. /\ st[c] = "returned" /\ rel[F][i] # Nil
        /\ \/ inited' = inited /\ thr' = thr
           \/ thr' = [thr EXCEPT ![F][i] = ret[c]]
    BY <1>7 DEF BindThrough
  <2>2. CASE thr' = [thr EXCEPT ![F][i] = ret[c]]
    <3>1. thr'[F] = [thr[F] EXCEPT ![i] = ret[c]] /\ thr[F] \in [1..MaxCols -> Tables \cup {Nil}]
      BY <1>0, <2>2
    <3> QED
      BY <2>1, <3>1
  <2> QED
    BY <1>0, <2>1, <2>2
<1> QED
  BY <1>1, <1>2, <1>3, <1>4, <1>5, <1>6, <1>7 DEF InitColumn

LEMMA ThroughFilledStep ==
  ASSUME IInv, ThroughFilled, [Next]_vars
  PROVE  ThroughFilled'
<1> SUFFICES ASSUME NEW T \in Tables, NEW j \in inited'[T],
                    Column(T[2], j).kind = "many_to_many", Column(T[2], j).through # Nil
             PROVE  thr'[T][j] # Nil /\ thr'[T][j][2] = Column(T[2], j).through
  BY DEF ThroughFilled
<1>0. TypeInv /\ Waiting
  BY DEF IInv
<1>1. CASE Untouched(T)
  BY <1>1 DEF Untouched, ThroughFilled
<1>2. CASE ~Untouched(T)
  <2>1. T[1] \in Calls /\ T = Frame(T[1]) /\ \E i \in 1..MaxCols : InitColumn(T[1], i)
    BY <1>0, <1>2, ColumnsChange
  <2>2. PICK i \in 1..MaxCols : InitColumn(T[1], i)
    BY <2>1
  <2>3. i \in Due(T) /\ (inited'[T] = inited[T] \cup {i} \/ inited'[T] = inited[T])
    BY <1>0, <2>1, <2>2, InitColumnEffect
  <2>4. i \notin inited[T] /\ inited[T] \subseteq 1..MaxCols
    BY <1>0, <2>3, DueFacts DEF TypeInv, TypeOK
  <2>5. CASE j # i
    <3>1. j \in inited[T] /\ thr'[T][j] = thr[T][j]
      BY <1>0, <2>1, <2>2, <2>3, <2>4, <2>5, ThroughEffect
    <3> QED
      BY <3>1 DEF ThroughFilled
  <2>6. CASE j = i
    <3>1. st[T[1]] = "returned" /\ rel[T][i] # Nil /\ thr'[T][i] = ret[T[1]]
      BY <1>0, <2>1, <2>2, <2>6, ThroughEffect
    <3>2. ret[T[1]][2] = Column(T[2], i).through
      BY <1>0, <2>1, <2>3, <3>1 DEF Waiting, Waits, Awaits
    <3>3. ret[T[1]] \in Tables /\ Nil \notin Tables
      BY <1>0, <2>1, <3>1, SchemaAssumption DEF TypeInv, Placed, Tables
    <3> QED
      BY <2>6, <3>1, <3>2, <3>3
  <2> QED
    BY <2>5, <2>6
<1> QED
  BY <1>1, <1>2

(* How the steps of an init name their column, when they do not fail.      *)
LEMMA NameEffect ==
  ASSUME TypeInv, NEW c \in Calls, NEW i \in 1..MaxCols, InitColumn(c, i),
         NEW F \in Tables, F = Frame(c)
  PROVE  /\ st[c] # "failed"
         /\ \A j \in 1..MaxCols : j # i => name'[F][j] = name[F][j]
         /\ Column(F[2], i).kind # "plain" /\ rel'[F][i] # Nil /\ st'[c] # "failed" =>
              \/ rel[F][i] # Nil /\ rel'[F][i] = rel[F][i] /\ name'[F][i] = name[F][i]
              \/ /\ Column(F[2], i).kind = "one_to_many"
                 /\ Key(F[2]) # 0
                 /\ name'[F][i] = ColumnName[F[2]][i][KeyName(F)]
              \/ /\ st[c] = "returned"
                 /\ Column(F[2], i).kind # "one_to_many"
                 /\ Key(Column(F[2], i).target) # 0
                 /\ rel'[F][i] = ret[c]
                 /\ name'[F][i] = ColumnName[F[2]][i][KeyName(ret[c])]
<1> USE DEF heap
<1>0. /\ name \in [Tables -> [1..MaxCols -> Names]]
      /\ rel \in [Tables -> [1..MaxCols -> Tables \cup {Nil}]]
      /\ st \in [Calls -> States]
  BY DEF TypeInv, TypeOK
<1>1. ASSUME NEW n, SetName(c, i, n)
      PROVE  name'[F][i] = n /\ \A j \in 1..MaxCols : j # i => name'[F][j] = name[F][j]
  BY <1>0, <1>1 DEF SetName
<1>2. ASSUME Fail(c) PROVE st'[c] = "failed"
  BY <1>0, <1>2 DEF Fail, Goto
<1>3. ASSUME BindRelation(c, i) PROVE st[c] = "returned" /\ rel'[F][i] = ret[c]
  BY <1>0, <1>3 DEF BindRelation
<1>4. CASE InitPlain(c, i)
  BY <1>1, <1>4 DEF InitPlain, NameColumn
<1>5. CASE InitRelation(c, i)
  BY <1>5 DEF InitRelation
<1>6. CASE BindKeyless(c, i)
  BY <1>2, <1>3, <1>6 DEF BindKeyless
<1>7. CASE BindOne(c, i)
  BY <1>1, <1>3, <1>7 DEF BindOne, NameColumn, NeedsKey, OneRelation
<1>8. CASE BindOneToMany(c, i)
  BY <1>1, <1>3, <1>8 DEF BindOneToMany, NeedsKey, ManyRelation
<1>9. CASE BindManyToMany(c, i)
  BY <1>1, <1>3, <1>9 DEF BindManyToMany, NeedsKey
<1>10. CASE BindThrough(c, i)
  BY <1>10 DEF BindThrough
<1> QED
  BY <1>4, <1>5, <1>6, <1>7, <1>8, <1>9, <1>10 DEF InitColumn

(* The primary key of a struct that parses comes before its one_to_many.   *)
LEMMA KeyFirst ==
  ASSUME NEW T \in Tables, NEW i \in Due(T), Schema[T[2]].parses, Key(T[2]) # 0,
         Column(T[2], i).kind \in ManyRelation
  PROVE  Key(T[2]) \in inited[T]
<1>1. T[2] \in Types
  BY DEF Tables
<1>2. Key(T[2]) \in Cols(T[2]) /\ Column(T[2], Key(T[2])).kind \notin ManyRelation
  BY <1>1, SchemaAssumption
<1> QED
  BY <1>2 DEF Due

(* Names that follow keys of finished tables do not change.                *)
LEMMA KeyNameKept ==
  ASSUME TypeInv, [Next]_vars, NEW U \in Tables, Finished(U)
  PROVE  KeyName(U)' = KeyName(U)
  BY FinishedKept DEF KeyName, Same, Untouched

(* Only the init of its columns renames a table that has been started.     *)
LEMMA NamesChange ==
  ASSUME TypeInv, [Next]_vars, NEW T \in Tables, Untouched(T), ~Same(T), T[2] \in x[T[1]]
  PROVE  /\ T[1] \in Calls /\ T = Frame(T[1]) /\ stack[T[1]] # <<>>
         /\ \E i \in 1..MaxCols : InitColumn(T[1], i)
<1>1. CASE UNCHANGED vars
  BY <1>1 DEF vars, Same, Untouched
<1>2. ASSUME NEW c \in Calls, NEW t \in Types, Call(c, t) PROVE Same(T)
  BY <1>2 DEF Call, heap, Same, Untouched
<1>3. ASSUME NEW c \in Calls, Step(c)
      PROVE  /\ T[1] = c /\ T = Frame(c) /\ stack[c] # <<>>
             /\ \E i \in 1..MaxCols : InitColumn(c, i)
  <2>1. CASE LookupNew(c)
    BY <2>1, PushStep
  <2>2. CASE \E i \in 1..MaxCols : InitColumn(c, i)
    BY <2>2, InitColumnStays, FrameFacts DEF Stays, TypeInv
  <2> QED
    BY <1>3, <2>1, <2>2 DEF Step, LookupCached, LookupOwn, Publish, heap, Same, Untouched
<1> QED
  BY <1>1, <1>2, <1>3 DEF Next

LEMMA NamesKeysStep ==
  ASSUME AInv, [Next]_vars
  PROVE  NamesKeys'
<1> SUFFICES ASSUME NEW T \in Tables, T[2] \in Ranked, NEW j \in Cols(T[2]),
                    Column(T[2], j).kind # "plain", Linked(T, j)'
             PROVE  NamesKey(T, j)'
  BY DEF NamesKeys
<1>0. /\ TypeInv /\ Filled /\ Settled /\ Parsed /\ Waiting
      /\ T[1] \in Calls /\ T[2] \in Types /\ j \in 1..MaxCols
      /\ Cols(T[2]) \subseteq 1..MaxCols
  BY SchemaFacts DEF AInv, IInv, Tables
(* A column that had its name keeps it, with the key it is named from.     *)
<1>1. ASSUME Linked(T, j), rel'[T][j] = rel[T][j], name'[T][j] = name[T][j],
             inited[T] \subseteq inited'[T],
             \A k \in inited[T] : name'[T][k] = name[T][k]
      PROVE  NamesKey(T, j)'
  <2>1. NamesKey(T, j)
    BY <1>1 DEF AInv, NamesKeys
  <2>2. CASE Column(T[2], j).kind = "one_to_many"
    <3>1. Key(T[2]) \in inited[T] /\ name[T][j] = ColumnName[T[2]][j][KeyName(T)]
      BY <2>1, <2>2 DEF NamesKey
    <3>2. KeyName(T)' = KeyName(T)
      BY <1>1, <3>1 DEF KeyName
    <3> QED
      BY <1>1, <2>2, <3>1, <3>2 DEF NamesKey
  <2>3. CASE Column(T[2], j).kind # "one_to_many"
    <3>1. rel[T][j] # Nil
      BY <1>0, <1>1 DEF Linked, Filled
    <3>2. PICK U \in Tables : U = rel[T][j] /\ Finished(U)
      BY <1>0, <3>1, LinksTyped DEF Settled, Links, TypeInv, TypeOK
    <3>3. KeyName(U)' = KeyName(U)
      BY <1>0, <3>2, KeyNameKept
    <3>4. /\ Key(Column(T[2], j).target) # 0
          /\ name[T][j] = ColumnName[T[2]][j][KeyName(U)]
      BY <2>1, <2>3, <3>2 DEF NamesKey
    <3>5. /\ Key(Column(T[2], j).target) # 0
          /\ name'[T][j] = ColumnName[T[2]][j][KeyName(U)']
          /\ rel'[T][j] = U
      BY <1>1, <3>2, <3>3, <3>4
    <3> QED
      BY <2>3, <3>5 DEF NamesKey, KeyName
  <2> QED
    BY <2>2, <2>3
<1>2. CASE Same(T)
  <2>1. Linked(T, j)
    BY <1>0, <1>2, FailedStays DEF Linked, Same, Untouched
  <2> QED
    BY <1>1, <1>2, <2>1 DEF Same, Untouched
<1>3. CASE ~Same(T)
  <2> DEFINE c == T[1]
  <2>0. ASSUME Untouched(T) PROVE T[2] \in x[c]
    <3>1. rel[T][j] # Nil
      BY <1>0, <2>0 DEF Linked, Filled, Untouched
    <3> QED
      BY <1>0, <3>1 DEF AInv, IInv, Bound
  <2>1. /\ c \in Calls /\ T = Frame(c) /\ stack[c] # <<>>
        /\ \E i \in 1..MaxCols : InitColumn(c, i)
    BY <1>0, <1>3, <2>0, ColumnsChange, NamesChange
  <2>2. PICK i \in 1..MaxCols : InitColumn(c, i)
    BY <2>1
  <2>3. /\ i \in Due(T) /\ i \notin inited[T]
        /\ \A k \in 1..MaxCols : k # i => rel'[T][k] = rel[T][k]
        /\ inited'[T] = inited[T] \cup {i} \/ inited'[T] = inited[T]
        /\ i \in inited'[T] => rel'[T][i] # Nil \/ Column(T[2], i).kind = "plain"
        /\ i \in inited'[T] => st'[c] = "init"
    BY <1>0, <2>1, <2>2, InitColumnEffect, DueFacts
  <2>4. /\ st[c] # "failed" /\ \A k \in 1..MaxCols : k # i => name'[T][k] = name[T][k]
    BY <1>0, <2>1, <2>2, NameEffect
  <2>5. inited[T] \subseteq 1..MaxCols
    BY <1>0 DEF TypeInv, TypeOK
  <2>6. /\ inited[T] \subseteq inited'[T]
        /\ \A k \in inited[T] : name'[T][k] = name[T][k]
    BY <2>3, <2>4, <2>5
  <2>7. CASE j # i
    <3>1. Linked(T, j)
      BY <1>0, <2>3, <2>4, <2>7 DEF Linked
    <3> QED
      BY <1>0, <1>1, <2>3, <2>4, <2>6, <2>7, <3>1
  <2>8. CASE j = i
    <3>1. rel'[T][i] # Nil /\ st'[c] # "failed"
      BY <2>3, <2>8 DEF Linked
    <3>2. CASE rel[T][i] # Nil /\ rel'[T][i] = rel[T][i] /\ name'[T][i] = name[T][i]
      <4>1. Linked(T, j)
        BY <2>4, <2>8, <3>2 DEF Linked
      <4> QED
        BY <1>1, <2>6, <2>8, <3>2, <4>1
    <3>3. CASE /\ Column(T[2], i).kind = "one_to_many"
               /\ Key(T[2]) # 0
               /\ name'[T][i] = ColumnName[T[2]][i][KeyName(T)]
      <4>1. Schema[T[2]].parses
        BY <1>0, <2>1, <2>4, FrameFacts DEF Parsed, TypeInv
      <4>2. Key(T[2]) \in inited[T]
        BY <2>3, <3>3, <4>1, KeyFirst DEF ManyRelation
      <4>3. KeyName(T)' = KeyName(T)
        BY <2>6, <4>2 DEF KeyName
      <4> QED
        BY <2>6, <2>8, <3>3, <4>2, <4>3 DEF NamesKey
    <3>4. CASE /\ st[c] = "returned"
               /\ Column(T[2], i).kind # "one_to_many"
               /\ Key(Column(T[2], i).target) # 0
               /\ rel'[T][i] = ret[c]
               /\ name'[T][i] = ColumnName[T[2]][i][KeyName(ret[c])]
      <4>0. ret[c][2] \in Ranked
        BY <1>0, <2>1, <2>3, <3>4, ReturnsTarget, TargetFacts DEF Beneath
      <4>1. PICK U \in Tables : U = ret[c] /\ Finished(U)
        BY <1>0, <2>1, <3>4, <4>0 DEF Settled, TypeInv, Placed
      <4>2. KeyName(U)' = KeyName(U)
        BY <1>0, <4>1, KeyNameKept
      <4>3. /\ name'[T][i] = ColumnName[T[2]][i][KeyName(U)']
            /\ rel'[T][i] = U
        BY <3>4, <4>1, <4>2
      <4> QED
        BY <2>8, <3>4, <4>3 DEF NamesKey, KeyName
    <3> QED
      BY <1>0, <2>1, <2>2, <2>8, <3>1, <3>2, <3>3, <3>4, NameEffect
  <2> QED
    BY <2>7, <2>8
<1> QED
  BY <1>2, <1>3

LEMMA AInvInit ==
  Init => AInv
<1> SUFFICES ASSUME Init PROVE AInv
  OBVIOUS
<1>1. IInv
  BY IInvInit
<1>2. \A c \in Calls : stack[c] = <<>> /\ Len(stack[c]) = 0 /\ st[c] = "idle" /\ x[c] = {}
  BY DEF Init
<1>3. ASSUME NEW T \in Tables
      PROVE  /\ ~Finished(T) /\ Links(T) = {} /\ inited[T] = {}
             /\ \A i \in 1..MaxCols : rel[T][i] = Nil
  <2>1. T[1] \in Calls
    BY DEF Tables
  <2>2. \A U : U \notin Links(T)
    BY <1>1, LinksTyped DEF Init, IInv
  <2> QED
    BY <1>2, <2>1, <2>2 DEF Init, Finished
<1>4. Descending /\ Parsed
  BY <1>2 DEF Descending, Parsed
<1>5. Settled /\ Known
  BY <1>2, <1>3 DEF Settled, Known
<1>6. ThroughFilled
  BY <1>3 DEF ThroughFilled
<1>7. NamesKeys
  <2> SUFFICES ASSUME NEW T \in Tables, NEW i \in Cols(T[2]), Linked(T, i) PROVE FALSE
    BY DEF NamesKeys
  <2>1. i \in 1..MaxCols
    BY SchemaFacts DEF Tables
  <2> QED
    BY <1>3, <2>1 DEF Linked
<1> QED
  BY <1>1, <1>4, <1>5, <1>6, <1>7 DEF AInv

LEMMA AInvStep ==
  AInv /\ [Next]_vars => AInv'
<1> SUFFICES ASSUME AInv, [Next]_vars PROVE AInv'
  OBVIOUS
<1>1. /\ IInv /\ Descending /\ Parsed /\ Settled /\ Known /\ ThroughFilled /\ TypeInv
  BY DEF AInv, IInv
<1> QED
  BY <1>1, IInvStep, DescendingStep, ParsedStep, SettledStep, KnownStep,
     ThroughFilledStep, NamesKeysStep DEF AInv

LEMMA AInvAlways == Spec => []AInv
  BY AInvInit, AInvStep, PTL DEF Spec

(* For every schema, every column that refers to a type, in the published  *)
(* table of a type that leads into no cycle of relations, bears the name   *)
(* that the related table's primary key column ends up with: the key of    *)
(* the related table was named before, whatever the order of declaration   *)
(* and whoever built that table.                                           *)
THEOREM ColumnsNamedFromKeys == Spec => []NamedFromKey
<1>1. ASSUME AInv PROVE NamedFromKey
  <2> SUFFICES ASSUME NEW t \in Ranked, tables[t] # Nil, NEW i \in Cols(t),
                      Column(t, i).kind # "plain"
               PROVE  LET T == tables[t]
                          U == IF Column(t, i).kind = "one_to_many" THEN T ELSE rel[T][i]
                      IN  name[T][i] = ColumnName[t][i][KeyName(U)]
    BY DEF NamedFromKey
  <2>0. t \in Types
    BY RankAssumption
  <2>1. PICK T \in Tables : T = tables[t] /\ T[2] = t /\ Finished(T)
    BY <1>1, <2>0 DEF AInv, IInv, Published, TypeInv, TypeOK
  <2>2. inited[T] = Cols(t)
    BY <1>1, <2>1 DEF AInv, IInv, Full
  <2>3. NamesKey(T, i)
    BY <1>1, <2>1, <2>2 DEF AInv, NamesKeys, Linked
  <2> QED
    BY <2>1, <2>3 DEF NamesKey
<1> QED
  BY <1>1, AInvAlways, PTL

(* For every schema, the published tables of the types that lead into no   *)
(* cycle of relations are a closed registry: such a type becomes known     *)
(* only after all the types that it refers to, and each type once, under   *)
(* any interleaving of calls and even when some of them fail.              *)
THEOREM RegistryIsClosed == Spec => RefinesClosedRegistry
<1>1. Init => Closed!Init
  BY RankAssumption DEF Init, Closed!Init
<1>2. ASSUME AInv, [Next]_vars
      PROVE  [Closed!Next]_{t \in Ranked : tables[t] # Nil}
  <2> DEFINE known == {t \in Ranked : tables[t] # Nil}
  <2>0. /\ TypeInv /\ Filled /\ Settled /\ Known /\ ThroughFilled
        /\ tables \in [Types -> Tables \cup {Nil}] /\ Nil \notin Tables
    BY <1>2, SchemaAssumption DEF AInv, IInv, TypeInv, TypeOK, Tables
  <2>1. CASE tables' = tables
    BY <2>1
  <2>2. ASSUME NEW c \in Calls, Publish(c), Frame(c) \in Tables,
               tables' = [tables EXCEPT ![Frame(c)[2]] = Frame(c)]
        PROVE  [Closed!Next]_known
    <3>1. PICK T \in Tables : T = Frame(c)
      BY <2>2
    <3>0. CASE T[2] \notin Ranked
      BY <2>0, <2>2, <3>1, <3>0, RankAssumption DEF Tables
    <3> SUFFICES ASSUME T[2] \in Ranked PROVE [Closed!Next]_known
      BY <3>0
    <3>2. T[2] \in Types /\ known' = known \cup {T[2]}
      BY <2>0, <2>2, <3>1, RankAssumption DEF Tables
    <3>3. inited[T] = Cols(T[2])
      BY <2>0, <2>2, <3>1 DEF Publish, Filled
    <3>4. ASSUME NEW i \in Cols(T[2]), Column(T[2], i).kind # "plain"
          PROVE  tables[Column(T[2], i).target] # Nil
      <4>1. /\ rel[T][i] # Nil /\ rel[T][i][2] = Column(T[2], i).target
            /\ i \in 1..MaxCols
        BY <2>0, <3>2, <3>3, <3>4, SchemaFacts DEF Filled
      <4>2. rel[T][i] \in Tables /\ Finished(rel[T][i])
        BY <2>0, <4>1, LinksTyped DEF Settled, Links, TypeInv, TypeOK
      <4> QED
        BY <2>0, <4>1, <4>2 DEF Known, Tables
    <3>5. ASSUME NEW i \in Cols(T[2]), Column(T[2], i).kind = "many_to_many",
                 Column(T[2], i).through # Nil
          PROVE  tables[Column(T[2], i).through] # Nil
      <4>1. /\ thr[T][i] # Nil /\ thr[T][i][2] = Column(T[2], i).through
            /\ i \in 1..MaxCols
        BY <2>0, <3>2, <3>3, <3>5, SchemaFacts DEF ThroughFilled
      <4>2. thr[T][i] \in Tables /\ Finished(thr[T][i])
        BY <2>0, <4>1, LinksTyped DEF Settled, Links, TypeInv, TypeOK
      <4> QED
        BY <2>0, <4>1, <4>2 DEF Known, Tables
    <3>6. Targets[T[2]] \subseteq known
      <4>1. \A u \in Targets[T[2]] : tables[u] # Nil
        BY <3>2, <3>4, <3>5 DEF Targets
      <4>2. \A u \in Targets[T[2]] : u \in Ranked
        BY TargetFacts DEF Beneath
      <4> QED
        BY <4>1, <4>2
    <3>7. CASE T[2] \in known
      BY <3>2, <3>7
    <3>8. CASE T[2] \notin known
      BY <3>2, <3>6, <3>8 DEF Closed!Next, Closed!Learn
    <3> QED
      BY <3>7, <3>8
  <2> QED
    BY <1>2, <2>0, <2>1, <2>2, KnownKept
<1> QED
  BY <1>1, <1>2, AInvAlways, PTL DEF Spec, RefinesClosedRegistry, Closed!Spec

=============================================================================
