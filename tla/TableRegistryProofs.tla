------------------------ MODULE TableRegistryProofs ------------------------
(***************************************************************************)
(* Proofs about TableRegistry, for every schema and every number of        *)
(* concurrent calls.                                                       *)
(***************************************************************************)
EXTENDS KeyChains, SequenceTheorems, FiniteSetTheorems, WellFoundedInduction, TLAPS

-----------------------------------------------------------------------------
(* What pushing an element on a sequence and taking it off do.             *)
LEMMA PushFacts ==
  ASSUME NEW S, NEW s \in Seq(S), NEW e \in S
  PROVE  /\ <<e>> \o s \in Seq(S)
         /\ <<e>> \o s # <<>>
         /\ Len(<<e>> \o s) = Len(s) + 1
         /\ (<<e>> \o s)[1] = e
         /\ Head(<<e>> \o s) = e
         /\ \A k \in 1..Len(s) : (<<e>> \o s)[k + 1] = s[k]
<1> DEFINE r == <<e>> \o s
<1>1. <<e>> \in Seq(S) /\ Len(<<e>>) = 1 /\ <<e>>[1] = e
  OBVIOUS
<1>2. /\ r \in Seq(S)
      /\ Len(r) = 1 + Len(s)
      /\ \A i \in 1..(1 + Len(s)) : r[i] = IF i <= 1 THEN <<e>>[i] ELSE s[i - 1]
  BY <1>1, ConcatProperties
<1>3. Len(s) \in Nat
  BY LenProperties
<1>4. r # <<>> /\ r[1] = e
  BY <1>1, <1>2, <1>3, EmptySeq
<1>5. Head(r) = e
  BY <1>2, <1>4
<1>6. ASSUME NEW k \in 1..Len(s) PROVE r[k + 1] = s[k]
  BY <1>2, <1>3
<1> QED
  BY <1>2, <1>3, <1>4, <1>5, <1>6

LEMMA PopFacts ==
  ASSUME NEW S, NEW s \in Seq(S), s # <<>>
  PROVE  /\ Len(s) \in Nat \ {0}
         /\ Head(s) = s[1]
         /\ Head(s) \in S
         /\ Tail(s) \in Seq(S)
         /\ Len(Tail(s)) = Len(s) - 1
         /\ \A k \in 1..Len(Tail(s)) : Tail(s)[k] = s[k + 1]
  BY HeadTailProperties, EmptySeq, LenProperties

-----------------------------------------------------------------------------
(* Where a call has to be for its actions to be defined: inside a tableOf  *)
(* there is a frame, a lookup has an argument, a return has a table.       *)
Placed ==
  \A c \in Calls :
    /\ st[c] \in {"init", "returned"} => stack[c] # <<>>
    /\ st[c] = "lookup" => arg[c] \in Types
    /\ st[c] = "returned" => ret[c] \in Tables

TypeInv == TypeOK /\ Placed

LEMMA SchemaFacts ==
  ASSUME NEW t \in Types
  PROVE  /\ Cols(t) \subseteq 1..MaxCols
         /\ Key(t) \in 0..MaxCols
         /\ Key(t) # 0 => Key(t) \in Cols(t)
         /\ \A i \in Cols(t) :
              /\ Column(t, i) \in ColumnDecl
              /\ Column(t, i).kind # "plain" => Column(t, i).target \in Types
<1>1. /\ Schema[t].key \in 0..MaxCols
      /\ Schema[t].cols \in Seq(ColumnDecl)
      /\ Len(Schema[t].cols) <= MaxCols
      /\ MaxCols \in Nat
  BY SchemaAssumption DEF StructDecl
<1>2. Len(Schema[t].cols) \in Nat
  BY <1>1, LenProperties
<1>3. \A i \in Cols(t) : Column(t, i) \in ColumnDecl
  BY <1>1, ElementOfSeq DEF Cols, Column
<1> QED
  BY <1>1, <1>2, <1>3, SchemaAssumption DEF Cols, Key, Column

(* The frame of a call inside a tableOf.                                   *)
LEMMA FrameFacts ==
  ASSUME TypeOK, NEW c \in Calls, stack[c] # <<>>
  PROVE  /\ Frame(c) \in Tables
         /\ Frame(c)[1] = c
         /\ Frame(c)[2] = stack[c][1]
         /\ Frame(c)[2] \in x[c]
         /\ Frame(c)[2] \in Types
         /\ 1 \in 1..Len(stack[c])
<1>1. stack[c] \in Seq(x[c]) /\ x[c] \subseteq Types
  BY DEF TypeOK
<1>2. Head(stack[c]) = stack[c][1] /\ Head(stack[c]) \in x[c] /\ Len(stack[c]) \in Nat \ {0}
  BY <1>1, PopFacts
<1> QED
  BY <1>1, <1>2 DEF Frame, Tables

LEMMA DueFacts ==
  ASSUME NEW T \in Tables, NEW i \in Due(T)
  PROVE  i \in Cols(T[2]) \ inited[T] /\ i \in 1..MaxCols
<1>1. T[2] \in Types
  BY DEF Tables
<1> QED
  BY <1>1, SchemaFacts DEF Due

LEMMA KeyNameType ==
  ASSUME TypeOK, NEW T \in Tables
  PROVE  KeyName(T) \in Names
<1>1. T[2] \in Types
  BY DEF Tables
<1>2. Key(T[2]) \in 0..MaxCols /\ MaxCols \in Nat
  BY <1>1, SchemaFacts, SchemaAssumption
<1>3. name[T] \in [1..MaxCols -> Names]
  BY DEF TypeOK
<1> QED
  BY <1>2, <1>3, NamesAssumption DEF KeyName

LEMMA NamesType ==
  ASSUME NEW t \in Types, NEW i \in 1..MaxCols, NEW n \in Names
  PROVE  ColumnName[t][i][n] \in Names /\ LeftName[t][i][n] \in Names
<1>1. ColumnName[t] \in [1..MaxCols -> [Names -> Names]]
  BY NamesAssumption
<1>2. LeftName[t] \in [1..MaxCols -> [Names -> Names]]
  BY NamesAssumption
<1>3. ColumnName[t][i] \in [Names -> Names] /\ LeftName[t][i] \in [Names -> Names]
  BY <1>1, <1>2
<1> QED
  BY <1>3

(* Naming a column of the innermost table, and ending its init.            *)
LEMMA SetNameType ==
  ASSUME TypeOK, NEW c \in Calls, stack[c] # <<>>, NEW i \in 1..MaxCols,
         NEW n \in Names, SetName(c, i, n)
  PROVE  name' \in [Tables -> [1..MaxCols -> Names]]
<1>1. Frame(c) \in Tables
  BY FrameFacts
<1>2. name \in [Tables -> [1..MaxCols -> Names]]
  BY DEF TypeOK
<1> QED
  BY <1>1, <1>2 DEF SetName

LEMMA InitialisedType ==
  ASSUME TypeOK, NEW c \in Calls, stack[c] # <<>>, NEW i \in 1..MaxCols, Initialised(c, i)
  PROVE  /\ inited' \in [Tables -> SUBSET (1..MaxCols)]
         /\ st' = [st EXCEPT ![c] = "init"]
<1>1. Frame(c) \in Tables
  BY FrameFacts
<1>2. inited \in [Tables -> SUBSET (1..MaxCols)]
  BY DEF TypeOK
<1> QED
  BY <1>1, <1>2 DEF Initialised, Goto

LEMMA NameColumnType ==
  ASSUME TypeOK, NEW c \in Calls, stack[c] # <<>>, NEW i \in 1..MaxCols,
         NEW n \in Names, NameColumn(c, i, n)
  PROVE  /\ name' \in [Tables -> [1..MaxCols -> Names]]
         /\ inited' \in [Tables -> SUBSET (1..MaxCols)]
         /\ \/ st' = [st EXCEPT ![c] = "failed"]
            \/ st' = [st EXCEPT ![c] = "init"]
<1>1. name' \in [Tables -> [1..MaxCols -> Names]]
  BY SetNameType DEF NameColumn
<1>2. CASE Fail(c) /\ UNCHANGED inited
  BY <1>1, <1>2 DEF Fail, Goto, TypeOK
<1>3. CASE Initialised(c, i)
  BY <1>1, <1>3, InitialisedType
<1> QED
  BY <1>2, <1>3 DEF NameColumn

(* The table of a relation comes back to the init of its column.           *)
LEMMA BindRelationType ==
  ASSUME TypeInv, NEW c \in Calls, NEW i \in 1..MaxCols, BindRelation(c, i)
  PROVE  /\ stack[c] # <<>>
         /\ ret[c] \in Tables
         /\ Frame(c)[2] \in Types
         /\ i \in Cols(Frame(c)[2])
         /\ rel' \in [Tables -> [1..MaxCols -> Tables \cup {Nil}]]
<1>1. stack[c] # <<>> /\ ret[c] \in Tables
  BY DEF BindRelation, TypeInv, Placed
<1>2. Frame(c) \in Tables /\ Frame(c)[2] \in Types
  BY <1>1, FrameFacts DEF TypeInv
<1>3. i \in Cols(Frame(c)[2])
  BY <1>2, DueFacts DEF BindRelation
<1>4. rel \in [Tables -> [1..MaxCols -> Tables \cup {Nil}]]
  BY DEF TypeInv, TypeOK
<1> QED
  BY <1>1, <1>2, <1>3, <1>4 DEF BindRelation

(* The frames of a call keep their shape when only its heap, its place,    *)
(* its argument and its result change.                                     *)
LEMMA PlacedStep ==
  ASSUME TypeInv, NEW c \in Calls, NEW s \in States,
         st' = [st EXCEPT ![c] = s],
         stack' = stack,
         \/ arg' = arg
         \/ \E t \in Types : arg' = [arg EXCEPT ![c] = t],
         ret' = ret,
         s \in {"init", "returned"} => stack[c] # <<>>,
         s = "lookup" => arg'[c] \in Types,
         s = "returned" => ret[c] \in Tables
  PROVE  /\ st' \in [Calls -> States]
         /\ arg' \in [Calls -> Types \cup {Nil}]
         /\ Placed'
<1>1. st \in [Calls -> States] /\ arg \in [Calls -> Types \cup {Nil}]
  BY DEF TypeInv, TypeOK
<1>2. st' \in [Calls -> States] /\ arg' \in [Calls -> Types \cup {Nil}]
  BY <1>1
<1>3. \A d \in Calls : d # c => st'[d] = st[d] /\ arg'[d] = arg[d]
  BY <1>1
<1>4. st'[c] = s
  BY <1>1
<1>5. Placed'
  BY <1>3, <1>4 DEF TypeInv, Placed
<1> QED
  BY <1>2, <1>5

(* A return that leaves the frames "below" of call c.                      *)
LEMMA ReturnType ==
  ASSUME TypeInv, NEW c \in Calls, NEW T \in Tables, NEW below,
         Return(c, T, below), stack' = [stack EXCEPT ![c] = below], arg' = arg
  PROVE  /\ st' \in [Calls -> States]
         /\ arg' \in [Calls -> Types \cup {Nil}]
         /\ ret' \in [Calls -> Tables \cup {Nil}]
         /\ Placed'
<1>1. /\ st \in [Calls -> States] /\ arg \in [Calls -> Types \cup {Nil}]
      /\ ret \in [Calls -> Tables \cup {Nil}] /\ stack \in [Calls -> Seq(Types)]
  BY DEF TypeInv, TypeOK
<1> DEFINE s == IF below = <<>> THEN "done" ELSE "returned"
<1>2. /\ st' = [st EXCEPT ![c] = s] /\ s \in States
      /\ ret' = [ret EXCEPT ![c] = T]
  BY DEF Return, Goto, States, Ended
<1>3. /\ st' \in [Calls -> States] /\ arg' \in [Calls -> Types \cup {Nil}]
      /\ ret' \in [Calls -> Tables \cup {Nil}]
  BY <1>1, <1>2
<1>4. ASSUME NEW d \in Calls, d # c
      PROVE  st'[d] = st[d] /\ arg'[d] = arg[d] /\ stack'[d] = stack[d] /\ ret'[d] = ret[d]
  BY <1>1, <1>2, <1>4
<1>5. st'[c] = s /\ ret'[c] = T /\ stack'[c] = below
  BY <1>1, <1>2
<1>6. Placed'
  BY <1>4, <1>5 DEF TypeInv, Placed
<1> QED
  BY <1>3, <1>6

(* Every step keeps the types: one case for each action.                   *)
LEMMA TypeStep ==
  TypeInv /\ [Next]_vars => TypeInv'
<1> SUFFICES ASSUME TypeInv, [Next]_vars PROVE TypeInv'
  OBVIOUS
<1> USE DEF heap
<1>t. TypeOK /\ Placed
  BY DEF TypeInv
<1>1. ASSUME NEW c \in Calls, NEW t \in Types, Call(c, t) PROVE TypeInv'
  <2>1. /\ st' = [st EXCEPT ![c] = "lookup"] /\ arg' = [arg EXCEPT ![c] = t]
        /\ UNCHANGED <<tables, x, inited, rel, thr, name, stack, ret>>
    BY <1>1 DEF Call, Goto
  <2>2. arg'[c] \in Types
    BY <1>t, <2>1 DEF TypeOK
  <2>3. st' \in [Calls -> States] /\ arg' \in [Calls -> Types \cup {Nil}] /\ Placed'
    BY <2>1, <2>2, PlacedStep DEF States
  <2> QED
    BY <1>t, <2>1, <2>3 DEF TypeInv, TypeOK
<1>2. ASSUME NEW c \in Calls, LookupCached(c) PROVE TypeInv'
  <2>1. tables[arg[c]] \in Tables
    BY <1>t, <1>2 DEF TypeOK, LookupCached, Placed
  <2>2. stack' = [stack EXCEPT ![c] = stack[c]]
    BY <1>t, <1>2 DEF LookupCached, TypeOK
  <2>3. /\ st' \in [Calls -> States] /\ arg' \in [Calls -> Types \cup {Nil}]
        /\ ret' \in [Calls -> Tables \cup {Nil}] /\ Placed'
    BY <1>2, <2>1, <2>2, ReturnType DEF LookupCached
  <2> QED
    BY <1>t, <1>2, <2>3 DEF LookupCached, TypeInv, TypeOK
<1>3. ASSUME NEW c \in Calls, LookupOwn(c) PROVE TypeInv'
  <2>1. <<c, arg[c]>> \in Tables
    BY <1>t, <1>3 DEF Placed, LookupOwn, Tables
  <2>2. stack' = [stack EXCEPT ![c] = stack[c]]
    BY <1>t, <1>3 DEF LookupOwn, TypeOK
  <2>3. /\ st' \in [Calls -> States] /\ arg' \in [Calls -> Types \cup {Nil}]
        /\ ret' \in [Calls -> Tables \cup {Nil}] /\ Placed'
    BY <1>3, <2>1, <2>2, ReturnType DEF LookupOwn
  <2> QED
    BY <1>t, <1>3, <2>3 DEF LookupOwn, TypeInv, TypeOK
<1>4. ASSUME NEW c \in Calls, LookupNew(c) PROVE TypeInv'
  <2> DEFINE s == IF Schema[arg[c]].parses THEN "init" ELSE "failed"
  <2>1. arg[c] \in Types
    BY <1>t, <1>4 DEF Placed, LookupNew
  <2>2. /\ x' = [x EXCEPT ![c] = @ \cup {arg[c]}]
        /\ stack' = [stack EXCEPT ![c] = <<arg[c]>> \o @]
        /\ name' = [name EXCEPT ![<<c, arg[c]>>] = TagName[arg[c]]]
        /\ st' = [st EXCEPT ![c] = s] /\ s \in {"init", "failed"}
        /\ UNCHANGED <<tables, inited, rel, thr, arg, ret>>
    BY <1>4 DEF LookupNew, Goto
  <2>3. x' \in [Calls -> SUBSET Types] /\ st' \in [Calls -> States]
    BY <1>t, <2>1, <2>2 DEF TypeOK, States, Ended
  <2>n. name' \in [Tables -> [1..MaxCols -> Names]]
    <3>1. TagName[arg[c]] \in [1..MaxCols -> Names]
      BY <2>1, NamesAssumption
    <3> QED
      BY <1>t, <2>2, <3>1 DEF TypeOK
  <2>4. ASSUME NEW d \in Calls PROVE stack'[d] \in Seq(x'[d]) /\ (d = c => stack'[d] # <<>>)
    <3>1. CASE d = c
      <4>1. stack[c] \in Seq(x[c]) /\ x'[c] = x[c] \cup {arg[c]} /\ stack'[c] = <<arg[c]>> \o stack[c]
        BY <1>t, <2>2 DEF TypeOK
      <4>2. stack[c] \in Seq(x'[c]) /\ arg[c] \in x'[c]
        BY <4>1
      <4> QED
        BY <3>1, <4>1, <4>2, PushFacts
    <3>2. CASE d # c
      BY <1>t, <2>2, <3>2 DEF TypeOK
    <3> QED
      BY <3>1, <3>2
  <2>5. Placed'
    BY <1>t, <2>2, <2>4 DEF Placed, TypeOK
  <2>6. stack' \in [Calls -> Seq(Types)]
    <3>1. <<arg[c]>> \o stack[c] \in Seq(Types)
      BY <1>t, <2>1, PushFacts DEF TypeOK
    <3> QED
      BY <1>t, <2>2, <3>1 DEF TypeOK
  <2> QED
    BY <1>t, <2>2, <2>3, <2>n, <2>4, <2>5, <2>6 DEF TypeInv, TypeOK
<1>5. ASSUME NEW c \in Calls, Publish(c) PROVE TypeInv'
  <2>1. stack[c] # <<>> /\ Frame(c) \in Tables
    BY <1>t, <1>5, FrameFacts DEF Placed, Publish
  <2>2. /\ tables' = [tables EXCEPT ![Frame(c)[2]] = Frame(c)]
        /\ stack' = [stack EXCEPT ![c] = Tail(stack[c])]
        /\ Return(c, Frame(c), Tail(stack[c]))
        /\ UNCHANGED <<x, inited, rel, thr, name, arg>>
    BY <1>t, <1>5 DEF Publish
  <2>3. /\ st' \in [Calls -> States] /\ arg' \in [Calls -> Types \cup {Nil}]
        /\ ret' \in [Calls -> Tables \cup {Nil}] /\ Placed'
    BY <2>1, <2>2, ReturnType
  <2>4. tables' \in [Types -> Tables \cup {Nil}]
    BY <1>t, <2>1, <2>2 DEF TypeOK
  <2>5. Tail(stack[c]) \in Seq(x[c])
    BY <1>t, <2>1, PopFacts DEF TypeOK
  <2>6. stack' \in [Calls -> Seq(Types)] /\ \A d \in Calls : stack'[d] \in Seq(x'[d])
    <3>1. Tail(stack[c]) \in Seq(Types)
      BY <1>t, <2>1, PopFacts DEF TypeOK
    <3> QED
      BY <1>t, <2>2, <2>5, <3>1 DEF TypeOK
  <2> QED
    BY <1>t, <2>2, <2>3, <2>4, <2>6 DEF TypeInv, TypeOK
<1>6. ASSUME NEW c \in Calls, NEW i \in 1..MaxCols, InitPlain(c, i) PROVE TypeInv'
  <2>1. stack[c] # <<>>
    BY <1>t, <1>6 DEF Placed, InitPlain
  <2>2. ColumnName[Frame(c)[2]][i][NoName] \in Names
    BY <1>t, <2>1, FrameFacts, NamesType, NamesAssumption
  <2>3. /\ name' \in [Tables -> [1..MaxCols -> Names]]
        /\ inited' \in [Tables -> SUBSET (1..MaxCols)]
        /\ \/ st' = [st EXCEPT ![c] = "failed"]
           \/ st' = [st EXCEPT ![c] = "init"]
    BY <1>t, <1>6, <2>1, <2>2, NameColumnType DEF InitPlain
  <2>4. st' \in [Calls -> States] /\ Placed'
    BY <1>6, <2>1, <2>3, PlacedStep DEF InitPlain, States, Ended
  <2> QED
    BY <1>t, <1>6, <2>3, <2>4 DEF InitPlain, TypeInv, TypeOK
<1>7. ASSUME NEW c \in Calls, NEW i \in 1..MaxCols, InitRelation(c, i) PROVE TypeInv'
  <2> DEFINE col == Column(Frame(c)[2], i)
  <2>1. stack[c] # <<>> /\ Frame(c) \in Tables /\ Frame(c)[2] \in Types
    BY <1>t, <1>7, FrameFacts DEF Placed, InitRelation
  <2>2. col.kind # "plain" /\ col.target \in Types
    BY <1>7, <2>1, DueFacts, SchemaFacts DEF InitRelation
  <2>3. \/ st' = [st EXCEPT ![c] = "failed"] /\ arg' = arg
        \/ st' = [st EXCEPT ![c] = "lookup"] /\ arg' = [arg EXCEPT ![c] = col.target]
    BY <1>7 DEF InitRelation, Fail, Goto
  <2>4. arg \in [Calls -> Types \cup {Nil}]
    BY <1>t DEF TypeOK
  <2>5. /\ st' \in [Calls -> States] /\ arg' \in [Calls -> Types \cup {Nil}] /\ Placed'
    <3>1. CASE st' = [st EXCEPT ![c] = "failed"] /\ arg' = arg
      BY <1>7, <3>1, PlacedStep DEF InitRelation, States, Ended
    <3>2. CASE st' = [st EXCEPT ![c] = "lookup"] /\ arg' = [arg EXCEPT ![c] = col.target]
      BY <1>7, <2>2, <2>4, <3>2, PlacedStep DEF InitRelation, States, Ended
    <3> QED
      BY <2>3, <3>1, <3>2
  <2> QED
    BY <1>t, <1>7, <2>5 DEF InitRelation, TypeInv, TypeOK
<1>8. ASSUME NEW c \in Calls, NEW i \in 1..MaxCols, BindKeyless(c, i) PROVE TypeInv'
  <2>1. rel' \in [Tables -> [1..MaxCols -> Tables \cup {Nil}]]
    BY <1>8, BindRelationType DEF BindKeyless
  <2>2. st' = [st EXCEPT ![c] = "failed"]
    BY <1>8 DEF BindKeyless, Fail, Goto
  <2>3. st' \in [Calls -> States] /\ Placed'
    BY <1>8, <2>2, PlacedStep DEF BindKeyless, BindRelation, States, Ended
  <2> QED
    BY <1>t, <1>8, <2>1, <2>3 DEF BindKeyless, BindRelation, TypeInv, TypeOK
<1>9. ASSUME NEW c \in Calls, NEW i \in 1..MaxCols, BindOne(c, i) PROVE TypeInv'
  <2> DEFINE n == ColumnName[Frame(c)[2]][i][KeyName(ret[c])]
  <2>1. BindRelation(c, i) /\ NameColumn(c, i, n) /\ arg' = arg
    BY <1>9 DEF BindOne
  <2>2. /\ stack[c] # <<>> /\ ret[c] \in Tables /\ Frame(c)[2] \in Types
        /\ rel' \in [Tables -> [1..MaxCols -> Tables \cup {Nil}]]
    BY <2>1, BindRelationType
  <2>3. n \in Names
    BY <1>t, <2>2, KeyNameType, NamesType
  <2>4. /\ name' \in [Tables -> [1..MaxCols -> Names]]
        /\ inited' \in [Tables -> SUBSET (1..MaxCols)]
        /\ \/ st' = [st EXCEPT ![c] = "failed"]
           \/ st' = [st EXCEPT ![c] = "init"]
    BY <1>t, <2>1, <2>2, <2>3, NameColumnType
  <2>5. st' \in [Calls -> States] /\ Placed'
    BY <2>1, <2>2, <2>4, PlacedStep DEF BindRelation, States, Ended
  <2> QED
    BY <1>t, <2>1, <2>2, <2>4, <2>5 DEF BindRelation, TypeInv, TypeOK
<1>10. ASSUME NEW c \in Calls, NEW i \in 1..MaxCols, BindOneToMany(c, i) PROVE TypeInv'
  <2> DEFINE n == ColumnName[Frame(c)[2]][i][KeyName(Frame(c))]
  <2>1. BindRelation(c, i) /\ SetName(c, i, n) /\ Initialised(c, i) /\ arg' = arg
    BY <1>10 DEF BindOneToMany
  <2>2. /\ stack[c] # <<>> /\ Frame(c)[2] \in Types
        /\ rel' \in [Tables -> [1..MaxCols -> Tables \cup {Nil}]]
    BY <2>1, BindRelationType
  <2>3. n \in Names
    BY <1>t, <2>2, FrameFacts, KeyNameType, NamesType
  <2>4. name' \in [Tables -> [1..MaxCols -> Names]]
    BY <1>t, <2>1, <2>2, <2>3, SetNameType
  <2>5. inited' \in [Tables -> SUBSET (1..MaxCols)] /\ st' = [st EXCEPT ![c] = "init"]
    BY <1>t, <2>1, <2>2, InitialisedType
  <2>6. st' \in [Calls -> States] /\ Placed'
    BY <2>1, <2>2, <2>5, PlacedStep DEF BindRelation, States, Ended
  <2> QED
    BY <1>t, <2>1, <2>2, <2>4, <2>5, <2>6 DEF BindRelation, TypeInv, TypeOK
<1>11. ASSUME NEW c \in Calls, NEW i \in 1..MaxCols, BindManyToMany(c, i) PROVE TypeInv'
  <2> DEFINE n   == ColumnName[Frame(c)[2]][i][KeyName(ret[c])]
             col == Column(Frame(c)[2], i)
  <2>1. BindRelation(c, i) /\ SetName(c, i, n)
    BY <1>11 DEF BindManyToMany
  <2>2. /\ stack[c] # <<>> /\ ret[c] \in Tables /\ Frame(c)[2] \in Types
        /\ i \in Cols(Frame(c)[2])
        /\ rel' \in [Tables -> [1..MaxCols -> Tables \cup {Nil}]]
    BY <2>1, BindRelationType
  <2>3. n \in Names
    BY <1>t, <2>2, KeyNameType, NamesType
  <2>4. name' \in [Tables -> [1..MaxCols -> Names]]
    BY <1>t, <2>1, <2>2, <2>3, SetNameType
  <2>5. col.through \in Types \cup {Nil}
    BY <2>2, SchemaFacts DEF ColumnDecl
  <2>6. \/ /\ col.through # Nil /\ arg' = [arg EXCEPT ![c] = col.through]
           /\ st' = [st EXCEPT ![c] = "lookup"] /\ inited' = inited
        \/ st' = [st EXCEPT ![c] = "failed"] /\ inited' = inited /\ arg' = arg
        \/ Initialised(c, i) /\ arg' = arg
    BY <1>11 DEF BindManyToMany, Fail, Goto
  <2>7. /\ st' \in [Calls -> States] /\ arg' \in [Calls -> Types \cup {Nil}] /\ Placed'
        /\ inited' \in [Tables -> SUBSET (1..MaxCols)]
    <3>0. /\ inited \in [Tables -> SUBSET (1..MaxCols)] /\ arg \in [Calls -> Types \cup {Nil}]
          /\ stack' = stack /\ ret' = ret
      BY <1>t, <2>1 DEF TypeOK, BindRelation
    <3>1. CASE /\ col.through # Nil /\ arg' = [arg EXCEPT ![c] = col.through]
               /\ st' = [st EXCEPT ![c] = "lookup"] /\ inited' = inited
      <4>1. col.through \in Types /\ arg'[c] \in Types
        BY <2>5, <3>0, <3>1
      <4> QED
        BY <3>0, <3>1, <4>1, PlacedStep DEF States, Ended
    <3>2. CASE st' = [st EXCEPT ![c] = "failed"] /\ inited' = inited /\ arg' = arg
      BY <3>0, <3>2, PlacedStep DEF States, Ended
    <3>3. CASE Initialised(c, i) /\ arg' = arg
      <4>1. inited' \in [Tables -> SUBSET (1..MaxCols)] /\ st' = [st EXCEPT ![c] = "init"]
        BY <1>t, <2>2, <3>3, InitialisedType
      <4> QED
        BY <2>2, <3>0, <3>3, <4>1, PlacedStep DEF States, Ended
    <3> QED
      BY <2>6, <3>1, <3>2, <3>3
  <2> QED
    BY <1>t, <2>1, <2>2, <2>4, <2>7 DEF BindRelation, TypeInv, TypeOK
<1>12. ASSUME NEW c \in Calls, NEW i \in 1..MaxCols, BindThrough(c, i) PROVE TypeInv'
  <2>1. stack[c] # <<>> /\ ret[c] \in Tables
    BY <1>t, <1>12 DEF Placed, BindThrough
  <2>2. Frame(c) \in Tables
    BY <1>t, <2>1, FrameFacts
  <2>3. /\ thr' = thr \/ thr' = [thr EXCEPT ![Frame(c)][i] = ret[c]]
        /\ \/ st' = [st EXCEPT ![c] = "panicked"] /\ inited' = inited
           \/ st' = [st EXCEPT ![c] = "failed"] /\ inited' = inited
           \/ Initialised(c, i)
        /\ UNCHANGED <<tables, x, rel, name, stack, arg, ret>>
    BY <1>12 DEF BindThrough, Fail, Goto
  <2>4. thr' \in [Tables -> [1..MaxCols -> Tables \cup {Nil}]]
    <3>1. thr \in [Tables -> [1..MaxCols -> Tables \cup {Nil}]]
      BY <1>t DEF TypeOK
    <3>2. CASE thr' = [thr EXCEPT ![Frame(c)][i] = ret[c]]
      BY <2>1, <2>2, <3>1, <3>2
    <3> QED
      BY <2>3, <3>1, <3>2
  <2>5. /\ inited' \in [Tables -> SUBSET (1..MaxCols)]
        /\ \/ st' = [st EXCEPT ![c] = "panicked"]
           \/ st' = [st EXCEPT ![c] = "failed"]
           \/ st' = [st EXCEPT ![c] = "init"]
    BY <1>t, <2>1, <2>3, InitialisedType DEF TypeOK
  <2>6. st' \in [Calls -> States] /\ Placed'
    BY <2>1, <2>3, <2>5, PlacedStep DEF States, Ended
  <2> QED
    BY <1>t, <2>3, <2>4, <2>5, <2>6 DEF TypeInv, TypeOK
<1>13. CASE UNCHANGED vars
  BY <1>t, <1>13 DEF vars, TypeInv, TypeOK, Placed
<1> QED
  BY <1>1, <1>2, <1>3, <1>4, <1>5, <1>6, <1>7, <1>8, <1>9, <1>10, <1>11, <1>12, <1>13
     DEF Next, Step, InitColumn

LEMMA TypeInit ==
  Init => TypeInv
<1> SUFFICES ASSUME Init PROVE TypeInv
  OBVIOUS
<1>1. stack \in [Calls -> Seq(Types)] /\ \A c \in Calls : stack[c] \in Seq(x[c])
  BY EmptySeq DEF Init
<1> QED
  BY <1>1, NamesAssumption DEF Init, TypeInv, TypeOK, Placed, States, Ended

(* Every variable keeps its type; in particular the types on a call's      *)
(* stack are types that the call has recorded in its map x.                *)
THEOREM TypeCorrect == Spec => []TypeOK
<1>1. TypeInv => TypeOK
  BY DEF TypeInv
<1> QED
  BY <1>1, TypeInit, TypeStep, PTL DEF Spec

-----------------------------------------------------------------------------
(* The parts of the inductive invariant.                                   *)
(* A published table is of the right type, and its own tableOf has ended.  *)
Published ==
  \A t \in Types : tables[t] # Nil => tables[t][2] = t /\ Finished(tables[t])

(* A table may be handed to call c when it is finished or c's own.         *)
Shareable(U, c) == U[2] \in x[U[1]] /\ (Finished(U) \/ U[1] = c)

Handed ==
  /\ \A T \in Tables : \A U \in Links(T) : Shareable(U, T[1])
  /\ \A c \in Calls : st[c] = "returned" => Shareable(ret[c], c)

(* The RelationTable of an initialised relation is set, and is of the type *)
(* that the column refers to.                                              *)
Filled ==
  \A T \in Tables :
    /\ inited[T] \subseteq Cols(T[2])
    /\ \A i \in inited[T] : Column(T[2], i).kind # "plain" => rel[T][i] # Nil
    /\ \A i \in 1..MaxCols : rel[T][i] # Nil => rel[T][i][2] = Column(T[2], i).target

(* tableOf ends only when no column is left.                              *)
Full == \A T \in Tables : Finished(T) => inited[T] = Cols(T[2])

(* A relation is bound in the course of its own column's init, the tables  *)
(* of a type not yet started are blank, and no init has begun when the     *)
(* next column is picked.                                                  *)
Bound ==
  /\ \A T \in Tables : \A i \in 1..MaxCols :
       rel[T][i] # Nil => T[2] \in x[T[1]] /\ i \in inited[T] \cup Due(T)
  /\ \A c \in Calls : st[c] = "init" => \A i \in Due(Frame(c)) : rel[Frame(c)][i] = Nil

(* The init of table T's next column waits for the table of type u: for    *)
(* that of the related type first, then for the through table.             *)
Awaits(T, u) ==
  \A i \in Due(T) :
    /\ Column(T[2], i).kind # "plain"
    /\ rel[T][i] = Nil => u = Column(T[2], i).target
    /\ rel[T][i] # Nil => /\ Column(T[2], i).kind = "many_to_many"
                         /\ u = Column(T[2], i).through

(* Each frame waits for the one above it, and the innermost for the table  *)
(* that is being looked up or has been returned.                           *)
Waits(c) ==
  /\ \A k \in 2..Len(stack[c]) : Awaits(<<c, stack[c][k]>>, stack[c][k - 1])
  /\ st[c] = "lookup" /\ stack[c] # <<>> => Awaits(Frame(c), arg[c])
  /\ st[c] = "returned" => Awaits(Frame(c), ret[c][2])

Waiting == \A c \in Calls : Waits(c)

(* A call that has not begun or has succeeded is inside no tableOf.        *)
Outside ==
  \A c \in Calls :
    /\ st[c] \in {"idle", "done"} => stack[c] = <<>>
    /\ st[c] = "done" => ret[c] \in Tables /\ Finished(ret[c])

(* The inductive invariant.                                               *)
IInv ==
  /\ TypeInv
  /\ NoReentry
  /\ Published
  /\ Handed
  /\ Filled
  /\ Full
  /\ Bound
  /\ Waiting
  /\ Outside

-----------------------------------------------------------------------------
(* A step of call c changes neither the frames of the other calls nor any  *)
(* column outside c's innermost table.  A new table is named by its tags.  *)
Others(c) ==
  \A d \in Calls : d # c =>
    /\ x'[d] = x[d] /\ stack'[d] = stack[d]
    /\ st'[d] = st[d] /\ arg'[d] = arg[d] /\ ret'[d] = ret[d]

Untouched(T) == inited'[T] = inited[T] /\ rel'[T] = rel[T] /\ thr'[T] = thr[T]
Same(T)      == Untouched(T) /\ name'[T] = name[T]

Stays(c) ==
  /\ UNCHANGED <<tables, x, stack>>
  /\ \A T \in Tables : Same(T) \/ (T = Frame(c) /\ stack[c] # <<>>)

LEMMA ElsewhereUntouched ==
  ASSUME TypeInv, NEW c \in Calls, stack[c] # <<>>, NEW i \in 1..MaxCols, NEW T \in Tables, T # Frame(c)
  PROVE  /\ \A n : SetName(c, i, n) => name'[T] = name[T]
         /\ Initialised(c, i) => inited'[T] = inited[T]
         /\ BindRelation(c, i) => rel'[T] = rel[T]
<1>1. Frame(c) \in Tables
  BY FrameFacts DEF TypeInv
<1>2. /\ inited \in [Tables -> SUBSET (1..MaxCols)]
      /\ rel \in [Tables -> [1..MaxCols -> Tables \cup {Nil}]]
      /\ name \in [Tables -> [1..MaxCols -> Names]]
  BY DEF TypeInv, TypeOK
<1> QED
  BY <1>1, <1>2 DEF SetName, Initialised, BindRelation

LEMMA InitColumnStays ==
  ASSUME TypeInv, NEW c \in Calls, NEW i \in 1..MaxCols, InitColumn(c, i)
  PROVE  /\ stack[c] # <<>>
         /\ Stays(c)
         /\ ret' = ret
         /\ \E s : st' = [st EXCEPT ![c] = s]
         /\ arg' = arg \/ \E u : arg' = [arg EXCEPT ![c] = u]
<1> USE DEF heap
<1>1. stack[c] # <<>>
  BY DEF TypeInv, Placed, InitColumn, InitPlain, InitRelation, BindKeyless, BindOne,
         BindOneToMany, BindManyToMany, BindThrough, BindRelation
<1>2. ASSUME NEW n, NameColumn(c, i, n)
      PROVE  /\ \E s : st' = [st EXCEPT ![c] = s]
             /\ \A T \in Tables : T # Frame(c) => inited'[T] = inited[T] /\ name'[T] = name[T]
  BY <1>1, <1>2, ElsewhereUntouched DEF NameColumn, Fail, Initialised, Goto
<1>3. CASE InitPlain(c, i)
  BY <1>1, <1>2, <1>3 DEF InitPlain, Stays, Same, Untouched
<1>4. CASE InitRelation(c, i)
  BY <1>1, <1>4 DEF InitRelation, Stays, Same, Untouched, Fail, Goto
<1>5. CASE BindKeyless(c, i)
  <2>1. BindRelation(c, i)
    BY <1>5 DEF BindKeyless
  <2> QED
    BY <1>1, <1>5, <2>1, ElsewhereUntouched DEF BindKeyless, BindRelation, Stays, Same, Untouched, Fail, Goto
<1>6. CASE BindOne(c, i)
  <2>1. BindRelation(c, i) /\ \E n : NameColumn(c, i, n)
    BY <1>6 DEF BindOne
  <2>2. /\ \A T \in Tables : T # Frame(c) => rel'[T] = rel[T]
        /\ \A T \in Tables : T # Frame(c) => inited'[T] = inited[T] /\ name'[T] = name[T]
        /\ \E s : st' = [st EXCEPT ![c] = s]
    BY <1>1, <1>2, <2>1, ElsewhereUntouched
  <2> QED
    BY <1>1, <1>6, <2>2 DEF BindOne, BindRelation, Stays, Same, Untouched
<1>7. CASE BindOneToMany(c, i)
  <2>1. BindRelation(c, i) /\ Initialised(c, i) /\ \E n : SetName(c, i, n)
    BY <1>7 DEF BindOneToMany
  <2>2. \A T \in Tables : T # Frame(c) =>
          rel'[T] = rel[T] /\ inited'[T] = inited[T] /\ name'[T] = name[T]
    BY <1>1, <2>1, ElsewhereUntouched
  <2> QED
    BY <1>1, <1>7, <2>1, <2>2 DEF BindOneToMany, BindRelation, Initialised, Goto, Stays, Same, Untouched
<1>8. CASE BindManyToMany(c, i)
  <2>1. BindRelation(c, i) /\ \E n : SetName(c, i, n)
    BY <1>8 DEF BindManyToMany
  <2>2. \/ Initialised(c, i) /\ arg' = arg
        \/ /\ inited' = inited
           /\ \E s : st' = [st EXCEPT ![c] = s]
           /\ arg' = arg \/ \E u : arg' = [arg EXCEPT ![c] = u]
    BY <1>8 DEF BindManyToMany, Fail, Goto
  <2>3. \A T \in Tables : T # Frame(c) =>
          rel'[T] = rel[T] /\ inited'[T] = inited[T] /\ name'[T] = name[T]
    BY <1>1, <2>1, <2>2, ElsewhereUntouched
  <2> QED
    BY <1>1, <2>1, <2>2, <2>3 DEF BindRelation, Initialised, Goto, Stays, Same, Untouched
<1>9. CASE BindThrough(c, i)
  <2>1. /\ UNCHANGED <<tables, x, rel, name, stack, arg, ret>>
        /\ thr' = thr \/ thr' = [thr EXCEPT ![Frame(c)][i] = ret[c]]
        /\ \/ inited' = inited /\ \E s : st' = [st EXCEPT ![c] = s]
           \/ Initialised(c, i)
    BY <1>9 DEF BindThrough, Fail, Goto
  <2>2. thr \in [Tables -> [1..MaxCols -> Tables \cup {Nil}]]
    BY DEF TypeInv, TypeOK
  <2>3. \A T \in Tables : T # Frame(c) => thr'[T] = thr[T] /\ inited'[T] = inited[T]
    BY <1>1, <2>1, <2>2, ElsewhereUntouched
  <2> QED
    BY <1>1, <2>1, <2>3 DEF Initialised, Goto, Stays, Same, Untouched
<1> QED
  BY <1>3, <1>4, <1>5, <1>6, <1>7, <1>8, <1>9 DEF InitColumn

LEMMA StepShape ==
  ASSUME TypeInv, NEW c \in Calls, Step(c) \/ \E t \in Types : Call(c, t)
  PROVE  /\ Others(c)
         /\ Stays(c) \/ LookupNew(c) \/ Publish(c)
<1> USE DEF heap
<1>0. /\ x \in [Calls -> SUBSET Types] /\ stack \in [Calls -> Seq(Types)]
      /\ st \in [Calls -> States] /\ arg \in [Calls -> Types \cup {Nil}]
      /\ ret \in [Calls -> Tables \cup {Nil}]
  BY DEF TypeInv, TypeOK
<1>1. CASE \E t \in Types : Call(c, t)
  BY <1>0, <1>1 DEF Call, Goto, Others, Stays, Same, Untouched
<1>2. CASE LookupCached(c)
  BY <1>0, <1>2 DEF LookupCached, Return, Goto, Others, Stays, Same, Untouched
<1>3. CASE LookupOwn(c)
  BY <1>0, <1>3 DEF LookupOwn, Return, Goto, Others, Stays, Same, Untouched
<1>4. CASE LookupNew(c)
  BY <1>0, <1>4 DEF LookupNew, Goto, Others
<1>5. CASE Publish(c)
  BY <1>0, <1>5 DEF Publish, Return, Goto, Others
<1>6. CASE \E i \in 1..MaxCols : InitColumn(c, i)
  <2>1. PICK i \in 1..MaxCols : InitColumn(c, i)
    BY <1>6
  <2>2. /\ Stays(c) /\ ret' = ret
        /\ \E s : st' = [st EXCEPT ![c] = s]
        /\ arg' = arg \/ \E u : arg' = [arg EXCEPT ![c] = u]
    BY <2>1, InitColumnStays
  <2>3. Others(c)
    BY <1>0, <2>2 DEF Stays, Same, Others
  <2> QED
    BY <2>2, <2>3
<1> QED
  BY <1>1, <1>2, <1>3, <1>4, <1>5, <1>6 DEF Step

(* The two steps that change a stack.                                      *)
LEMMA PushStep ==
  ASSUME TypeInv, NEW c \in Calls, LookupNew(c)
  PROVE  /\ arg[c] \in Types /\ arg[c] \notin x[c]
         /\ x'[c] = x[c] \cup {arg[c]}
         /\ stack'[c] # <<>>
         /\ Len(stack'[c]) = Len(stack[c]) + 1
         /\ Len(stack[c]) \in Nat
         /\ stack'[c][1] = arg[c]
         /\ \A k \in 1..Len(stack[c]) : stack'[c][k + 1] = stack[c][k]
         /\ \A T \in Tables : Untouched(T)
         /\ \A T \in Tables : T # <<c, arg[c]>> => Same(T)
         /\ tables' = tables
<1>1. /\ arg[c] \in Types /\ stack[c] \in Seq(x[c]) /\ x \in [Calls -> SUBSET Types]
      /\ stack \in [Calls -> Seq(Types)] /\ name \in [Tables -> [1..MaxCols -> Names]]
  BY DEF TypeInv, TypeOK, Placed, LookupNew
<1>2. x'[c] = x[c] \cup {arg[c]} /\ stack'[c] = <<arg[c]>> \o stack[c]
  BY <1>1 DEF LookupNew
<1>3. stack[c] \in Seq(Types) /\ Len(stack[c]) \in Nat
  BY <1>1, LenProperties
<1> QED
  BY <1>1, <1>2, <1>3, PushFacts DEF LookupNew, heap, Same, Untouched

LEMMA PopStep ==
  ASSUME TypeInv, NEW c \in Calls, Publish(c)
  PROVE  /\ stack[c] # <<>>
         /\ x' = x
         /\ Len(stack[c]) \in Nat \ {0}
         /\ Len(stack'[c]) = Len(stack[c]) - 1
         /\ \A k \in 1..Len(stack'[c]) : stack'[c][k] = stack[c][k + 1]
         /\ \A T \in Tables : Untouched(T) /\ Same(T)
         /\ tables' = [tables EXCEPT ![Frame(c)[2]] = Frame(c)]
<1>1. stack[c] # <<>> /\ stack[c] \in Seq(x[c]) /\ stack \in [Calls -> Seq(Types)]
  BY DEF TypeInv, TypeOK, Placed, Publish
<1>2. stack'[c] = Tail(stack[c])
  BY <1>1 DEF Publish
<1> QED
  BY <1>1, <1>2, PopFacts DEF Publish, heap, Same, Untouched

LEMMA OnStackInX ==
  ASSUME TypeInv, NEW T \in Tables, OnStack(T)
  PROVE  T[2] \in x[T[1]]
<1>1. T[1] \in Calls
  BY DEF Tables
<1>2. stack[T[1]] \in Seq(x[T[1]])
  BY <1>1 DEF TypeInv, TypeOK
<1> QED
  BY <1>2, ElementOfSeq DEF OnStack

(* No call forgets a type that it has started.                             *)
LEMMA RecordedKept ==
  ASSUME TypeInv, [Next]_vars, NEW T \in Tables
  PROVE  x[T[1]] \subseteq x'[T[1]]
<1>1. T[1] \in Calls
  BY DEF Tables
<1>2. CASE UNCHANGED vars
  BY <1>2 DEF vars
<1>3. ASSUME NEW d \in Calls, Step(d) \/ \E t \in Types : Call(d, t)
      PROVE  x[T[1]] \subseteq x'[T[1]]
  BY <1>1, <1>3, StepShape, PushStep, PopStep DEF Others, Stays, Same
<1> QED
  BY <1>2, <1>3 DEF Next

(* A finished table stays finished, and nobody changes its columns.        *)
LEMMA FinishedKept ==
  ASSUME TypeInv, [Next]_vars, NEW T \in Tables, Finished(T)
  PROVE  Finished(T)' /\ Same(T)
<1>0. T[1] \in Calls /\ T[2] \in Types /\ T = <<T[1], T[2]>>
  BY DEF Tables
<1>1. CASE UNCHANGED vars
  BY <1>1 DEF vars, Finished, OnStack, Same, Untouched
<1>2. ASSUME NEW c \in Calls, Step(c) \/ \E t \in Types : Call(c, t)
      PROVE  Finished(T)' /\ Same(T)
  <2>1. Others(c)
    BY <1>2, StepShape
  <2>2. CASE Stays(c)
    <3>1. ASSUME T = Frame(c), stack[c] # <<>> PROVE FALSE
      <4>1. Frame(c)[1] = c /\ Frame(c)[2] = stack[c][1] /\ 1 \in 1..Len(stack[c])
        BY <3>1, FrameFacts DEF TypeInv
      <4> QED
        BY <3>1, <4>1 DEF Finished, OnStack
    <3> QED
      BY <2>2, <3>1 DEF Stays, Same, Finished, OnStack
  <2>3. CASE T[1] # c /\ ~Stays(c)
    <3>1. x'[T[1]] = x[T[1]] /\ stack'[T[1]] = stack[T[1]]
      BY <1>0, <2>1, <2>3 DEF Others
    <3> QED
      BY <1>2, <2>3, <3>1, StepShape, PushStep, PopStep DEF Finished, OnStack
  <2>4. CASE T[1] = c /\ LookupNew(c)
    <3>1. T[2] \in x[c] /\ T[2] # arg[c]
      BY <2>4, PushStep DEF Finished
    <3>2. ASSUME NEW k \in 1..Len(stack'[c]), stack'[c][k] = T[2] PROVE FALSE
      <4>1. k # 1 /\ k - 1 \in 1..Len(stack[c]) /\ (k - 1) + 1 = k
        <5>1. /\ stack'[c][1] = arg[c] /\ Len(stack[c]) \in Nat
              /\ Len(stack'[c]) = Len(stack[c]) + 1
          BY <2>4, PushStep
        <5> QED
          BY <3>1, <3>2, <5>1
      <4>2. stack[c][k - 1] = T[2]
        <5>1. stack'[c][(k - 1) + 1] = stack[c][k - 1]
          BY <2>4, <4>1, PushStep
        <5> QED
          BY <3>2, <4>1, <5>1
      <4> QED
        BY <2>4, <4>1, <4>2 DEF Finished, OnStack
    <3> QED
      BY <2>4, <3>1, <3>2, PushStep DEF Finished, OnStack
  <2>5. CASE T[1] = c /\ Publish(c)
    <3>1. ASSUME NEW k \in 1..Len(stack'[c]), stack'[c][k] = T[2] PROVE FALSE
      <4>1. k + 1 \in 1..Len(stack[c]) /\ stack[c][k + 1] = T[2]
        BY <2>5, <3>1, PopStep
      <4> QED
        BY <2>5, <4>1 DEF Finished, OnStack
    <3> QED
      BY <2>5, <3>1, PopStep DEF Finished, OnStack
  <2> QED
    BY <1>2, <2>2, <2>3, <2>4, <2>5, StepShape
<1> QED
  BY <1>1, <1>2 DEF Next

LEMMA NoReentryStep ==
  ASSUME TypeInv, NoReentry, [Next]_vars
  PROVE  NoReentry'
<1>1. CASE UNCHANGED vars
  BY <1>1 DEF vars, NoReentry
<1>2. ASSUME NEW c \in Calls, Step(c) \/ \E t \in Types : Call(c, t) PROVE NoReentry'
  <2>1. Others(c)
    BY <1>2, StepShape
  <2> SUFFICES ASSUME NEW d \in Calls, NEW j \in 1..Len(stack'[d]), NEW k \in 1..Len(stack'[d]),
                      stack'[d][j] = stack'[d][k]
               PROVE  j = k
    BY DEF NoReentry
  <2>2. CASE d # c \/ Stays(c)
    BY <2>1, <2>2 DEF Others, Stays, Same, NoReentry
  <2>3. CASE d = c /\ LookupNew(c)
    <3>1. ASSUME NEW l \in 2..Len(stack'[c])
          PROVE  l - 1 \in 1..Len(stack[c]) /\ stack'[c][l] = stack[c][l - 1] /\ stack[c][l - 1] \in x[c]
      <4>1. l - 1 \in 1..Len(stack[c]) /\ (l - 1) + 1 = l
        BY <2>3, PushStep
      <4>2. stack[c] \in Seq(x[c])
        BY DEF TypeInv, TypeOK
      <4> QED
        BY <2>3, <4>1, <4>2, PushStep, ElementOfSeq
    <3>2. Len(stack'[c]) \in Nat /\ stack'[c][1] \notin x[c]
      BY <2>3, PushStep
    <3>3. CASE j = 1 \/ k = 1
      BY <2>3, <3>1, <3>2, <3>3
    <3>4. CASE j # 1 /\ k # 1
      <4>1. j \in 2..Len(stack'[c]) /\ k \in 2..Len(stack'[c])
        BY <2>3, <3>2, <3>4
      <4>2. /\ j - 1 \in 1..Len(stack[c]) /\ k - 1 \in 1..Len(stack[c])
            /\ stack[c][j - 1] = stack[c][k - 1]
        BY <2>3, <3>1, <4>1
      <4>3. j - 1 = k - 1
        BY <4>2 DEF NoReentry
      <4> QED
        BY <4>1, <4>3, <3>2
    <3> QED
      BY <3>3, <3>4
  <2>4. CASE d = c /\ Publish(c)
    <3>1. j + 1 \in 1..Len(stack[c]) /\ k + 1 \in 1..Len(stack[c])
      BY <2>4, PopStep
    <3>2. j + 1 = k + 1
      BY <2>4, <3>1, PopStep DEF NoReentry
    <3> QED
      BY <3>1, <3>2
  <2> QED
    BY <1>2, <2>2, <2>3, <2>4, StepShape
<1> QED
  BY <1>1, <1>2 DEF Next

LEMMA PublishFinishes ==
  ASSUME TypeInv, NoReentry, NEW c \in Calls, Publish(c), NEW T \in Tables, T = Frame(c)
  PROVE  T[1] = c /\ Finished(T)'
<1>1. /\ stack[c] # <<>> /\ x' = x
      /\ T[1] = c /\ T[2] = stack[c][1]
      /\ T[2] \in x[c] /\ 1 \in 1..Len(stack[c])
  BY PopStep, FrameFacts DEF TypeInv
<1>2. ASSUME NEW k \in 1..Len(stack'[c]), stack'[c][k] = T[2] PROVE FALSE
  <2>1. k + 1 \in 1..Len(stack[c]) /\ stack[c][k + 1] = stack[c][1]
    BY <1>1, <1>2, PopStep
  <2>2. k + 1 = 1
    BY <1>1, <2>1 DEF NoReentry
  <2> QED
    BY <2>2
<1> QED
  BY <1>1, <1>2 DEF Finished, OnStack

LEMMA PublishedStep ==
  ASSUME TypeInv, NoReentry, Published, [Next]_vars
  PROVE  Published'
<1>0. tables \in [Types -> Tables \cup {Nil}]
  BY DEF TypeInv, TypeOK
<1>1. ASSUME NEW t \in Types, tables'[t] # Nil, tables'[t] = tables[t]
      PROVE  tables'[t][2] = t /\ Finished(tables[t])'
  <2>1. tables[t] \in Tables /\ tables[t][2] = t /\ Finished(tables[t])
    BY <1>0, <1>1 DEF Published
  <2>2. \A T \in Tables : Finished(T) => Finished(T)'
    BY FinishedKept
  <2>3. tables'[t] \in Tables /\ tables'[t] = tables[t]
    BY <1>1, <2>1
  <2> QED
    BY <2>1, <2>2, <2>3 DEF Finished, OnStack
<1>2. CASE tables' = tables
  BY <1>1, <1>2 DEF Published
<1>3. ASSUME NEW c \in Calls, Publish(c) PROVE Published'
  <2>1. PICK T \in Tables : T = Frame(c)
    BY <1>3, PopStep, FrameFacts DEF TypeInv
  <2>2. Finished(T)' /\ T[2] \in Types /\ tables' = [tables EXCEPT ![T[2]] = T]
    BY <1>3, <2>1, PublishFinishes, PopStep DEF Tables
  <2>3. ASSUME NEW t \in Types, tables'[t] # Nil
        PROVE  tables'[t][2] = t /\ Finished(tables[t])'
    <3>1. CASE t # T[2]
      BY <1>0, <1>1, <2>2, <2>3, <3>1
    <3>2. CASE t = T[2]
      <4>1. tables'[t] = T
        BY <1>0, <2>2, <3>2
      <4> QED
        BY <2>2, <3>2, <4>1 DEF Finished, OnStack
    <3> QED
      BY <3>1, <3>2
  <2> QED
    BY <2>3 DEF Published
<1>4. CASE \A c \in Calls : ~Publish(c)
  <2>1. tables' = tables
    BY <1>4, StepShape, PushStep DEF Next, vars, Stays, Same
  <2> QED
    BY <1>2, <2>1
<1> QED
  BY <1>3, <1>4

(* Only the Publish of its own frame finishes a table.                     *)
LEMMA OnlyPublishFinishes ==
  ASSUME TypeInv, [Next]_vars, NEW T \in Tables, ~Finished(T), Finished(T)'
  PROVE  Publish(T[1]) /\ T = Frame(T[1])
<1>0. T[1] \in Calls /\ T[2] \in Types
  BY DEF Tables
<1>1. CASE UNCHANGED vars
  BY <1>1 DEF vars, Finished, OnStack
<1>2. ASSUME NEW c \in Calls, Step(c) \/ \E t \in Types : Call(c, t)
      PROVE  Publish(T[1]) /\ T = Frame(T[1])
  <2>1. Others(c)
    BY <1>2, StepShape
  <2>2. CASE T[1] # c \/ Stays(c)
    <3>1. x'[T[1]] = x[T[1]] /\ stack'[T[1]] = stack[T[1]]
      BY <1>0, <2>1, <2>2 DEF Others, Stays, Same
    <3> QED
      BY <1>2, <3>1 DEF Finished, OnStack
  <2>3. CASE T[1] = c /\ LookupNew(c)
    <3>1. T[2] # arg[c] /\ T[2] \in x[c]
      <4>1. 1 \in 1..Len(stack'[c]) /\ stack'[c][1] = arg[c]
        BY <2>3, PushStep
      <4> QED
        BY <2>3, <4>1, PushStep DEF Finished, OnStack
    <3>2. PICK k \in 1..Len(stack[c]) : stack[c][k] = T[2]
      BY <1>2, <2>3, <3>1 DEF Finished, OnStack
    <3>3. k + 1 \in 1..Len(stack'[c]) /\ stack'[c][k + 1] = T[2]
      BY <2>3, <3>2, PushStep
    <3> QED
      BY <2>3, <3>3 DEF Finished, OnStack
  <2>4. CASE T[1] = c /\ Publish(c)
    <3>1. T[2] \in x[c]
      BY <2>4, PopStep DEF Finished
    <3>2. PICK k \in 1..Len(stack[c]) : stack[c][k] = T[2]
      BY <1>2, <2>4, <3>1 DEF Finished, OnStack
    <3>3. k = 1
      <4>1. ASSUME k # 1 PROVE FALSE
        <5>1. k - 1 \in 1..Len(stack'[c]) /\ stack'[c][k - 1] = stack[c][(k - 1) + 1] /\ (k - 1) + 1 = k
          BY <2>4, <4>1, PopStep
        <5> QED
          BY <2>4, <3>2, <5>1 DEF Finished, OnStack
      <4> QED
        BY <4>1
    <3>4. T = Frame(c)
      <4>1. Frame(c) = <<c, stack[c][1]>>
        BY <2>4, PopStep, FrameFacts DEF TypeInv, Frame
      <4> QED
        BY <2>4, <3>2, <3>3, <4>1 DEF Tables
    <3> QED
      BY <2>4, <3>4
  <2> QED
    BY <1>2, <2>2, <2>3, <2>4, StepShape
<1> QED
  BY <1>1, <1>2 DEF Next

LEMMA FullStep ==
  ASSUME TypeInv, NoReentry, Filled, Full, [Next]_vars
  PROVE  Full'
<1> SUFFICES ASSUME NEW T \in Tables, Finished(T)' PROVE inited'[T] = Cols(T[2])
  BY DEF Full
<1>0. T[1] \in Calls /\ T[2] \in Types
  BY DEF Tables
<1>1. CASE Finished(T)
  BY <1>1, FinishedKept DEF Full, Same, Untouched
<1>2. CASE ~Finished(T)
  <2>1. Publish(T[1]) /\ T = Frame(T[1])
    BY <1>2, OnlyPublishFinishes
  <2>2. inited'[T] = inited[T] /\ Cols(T[2]) \subseteq inited[T]
    BY <1>0, <2>1, PopStep DEF Same, Untouched, Publish
  <2> QED
    BY <2>2 DEF Filled
<1> QED
  BY <1>1, <1>2

-----------------------------------------------------------------------------
(* Only one column at a time is due.                                       *)
LEMMA DueUnique ==
  ASSUME NEW T \in Tables, NEW i \in Due(T), NEW j \in Due(T)
  PROVE  i = j
<1>1. T[2] \in Types
  BY DEF Tables
<1>2. i \in Nat /\ j \in Nat
  BY <1>1, DueFacts, SchemaAssumption
<1> QED
  BY <1>2 DEF Due

(* What the steps of an init do to the column that is due, and where they  *)
(* lead: the init fails, or ends, or waits for another table.              *)
LEMMA InitColumnEffect ==
  ASSUME TypeInv, NEW c \in Calls, NEW i \in 1..MaxCols, InitColumn(c, i),
         NEW F \in Tables, F = Frame(c)
  PROVE  /\ i \in Due(F)
         /\ \A j \in 1..MaxCols : \/ rel'[F][j] = rel[F][j]
                                  \/ /\ j = i /\ rel[F][j] = Nil
                                     /\ st[c] = "returned" /\ rel'[F][j] = ret[c]
         /\ \A j \in 1..MaxCols : \/ thr'[F][j] = thr[F][j]
                                  \/ st[c] = "returned" /\ thr'[F][j] = ret[c]
         /\ \/ /\ inited'[F] = inited[F] \cup {i} /\ st'[c] = "init"
               /\ Column(F[2], i).kind # "plain" => rel'[F][i] # Nil
            \/ inited'[F] = inited[F] /\ st'[c] \in {"failed", "panicked"}
            \/ /\ inited'[F] = inited[F] /\ st'[c] = "lookup"
               /\ Column(F[2], i).kind # "plain"
               /\ rel'[F][i] = Nil => arg'[c] = Column(F[2], i).target
               /\ \/ st[c] = "init" /\ rel'[F][i] = rel[F][i]
                  \/ /\ Column(F[2], i).kind = "many_to_many"
                     /\ arg'[c] = Column(F[2], i).through
<1> USE DEF heap
<1>0. /\ inited \in [Tables -> SUBSET (1..MaxCols)]
      /\ rel \in [Tables -> [1..MaxCols -> Tables \cup {Nil}]]
      /\ thr \in [Tables -> [1..MaxCols -> Tables \cup {Nil}]]
      /\ st \in [Calls -> States]
      /\ arg \in [Calls -> Types \cup {Nil}]
      /\ Nil \notin Tables
  BY SchemaAssumption DEF TypeInv, TypeOK, Tables
<1>1. ASSUME Initialised(c, i)
      PROVE  inited'[F] = inited[F] \cup {i} /\ st'[c] = "init"
  BY <1>0, <1>1 DEF Initialised, Goto
<1>2. ASSUME Fail(c) PROVE st'[c] = "failed"
  BY <1>0, <1>2 DEF Fail, Goto
<1>3. ASSUME NEW n, NameColumn(c, i, n)
      PROVE  \/ inited'[F] = inited[F] \cup {i} /\ st'[c] = "init"
             \/ inited'[F] = inited[F] /\ st'[c] = "failed"
  BY <1>1, <1>2, <1>3 DEF NameColumn
<1>4. ASSUME BindRelation(c, i)
      PROVE  /\ i \in Due(F) /\ st[c] = "returned" /\ thr' = thr
             /\ rel[F][i] = Nil /\ rel'[F][i] = ret[c] /\ rel'[F][i] # Nil
             /\ \A j \in 1..MaxCols : j # i => rel'[F][j] = rel[F][j]
  <2>1. ret[c] \in Tables
    BY <1>4, BindRelationType
  <2> QED
    BY <1>0, <1>4, <2>1 DEF BindRelation
<1>5. CASE InitPlain(c, i)
  BY <1>3, <1>5 DEF InitPlain
<1>6. CASE InitRelation(c, i)
  BY <1>0, <1>2, <1>6 DEF InitRelation, Goto
<1>7. CASE BindKeyless(c, i)
  BY <1>2, <1>4, <1>7 DEF BindKeyless
<1>8. CASE BindOne(c, i)
  BY <1>3, <1>4, <1>8 DEF BindOne
<1>9. CASE BindOneToMany(c, i)
  BY <1>1, <1>4, <1>9 DEF BindOneToMany
<1>10. CASE BindManyToMany(c, i)
  <2>1. /\ BindRelation(c, i) /\ Column(F[2], i).kind = "many_to_many"
        /\ \/ /\ Goto(c, "lookup") /\ inited' = inited
              /\ arg' = [arg EXCEPT ![c] = Column(F[2], i).through]
           \/ Fail(c) /\ inited' = inited
           \/ Initialised(c, i)
    BY <1>10 DEF BindManyToMany
  <2>2. \/ /\ st'[c] = "lookup" /\ inited'[F] = inited[F]
           /\ arg'[c] = Column(F[2], i).through
        \/ st'[c] = "failed" /\ inited'[F] = inited[F]
        \/ inited'[F] = inited[F] \cup {i} /\ st'[c] = "init"
    BY <1>0, <1>1, <1>2, <2>1 DEF Goto
  <2> QED
    BY <1>4, <2>1, <2>2
<1>11. CASE BindThrough(c, i)
  <2>1. /\ st[c] = "returned" /\ i \in Due(F) /\ rel[F][i] # Nil /\ rel' = rel
        /\ thr' = thr \/ thr' = [thr EXCEPT ![F][i] = ret[c]]
        /\ \/ Goto(c, "panicked") /\ inited' = inited
           \/ Fail(c) /\ inited' = inited
           \/ Initialised(c, i)
    BY <1>11 DEF BindThrough
  <2>2. \A j \in 1..MaxCols : thr'[F][j] = thr[F][j] \/ thr'[F][j] = ret[c]
    <3>1. CASE thr' = [thr EXCEPT ![F][i] = ret[c]]
      BY <1>0, <3>1
    <3> QED
      BY <2>1, <3>1
  <2>3. \/ st'[c] = "panicked" /\ inited'[F] = inited[F]
        \/ st'[c] = "failed" /\ inited'[F] = inited[F]
        \/ inited'[F] = inited[F] \cup {i} /\ st'[c] = "init"
    BY <1>0, <1>1, <1>2, <2>1 DEF Goto
  <2> QED
    BY <2>1, <2>2, <2>3
<1> QED
  BY <1>5, <1>6, <1>7, <1>8, <1>9, <1>10, <1>11 DEF InitColumn

(* A step of a call changes columns only as an init does.                  *)
LEMMA ColumnsChange ==
  ASSUME TypeInv, [Next]_vars, NEW T \in Tables
  PROVE  \/ Untouched(T)
         \/ /\ T[1] \in Calls /\ T = Frame(T[1]) /\ stack[T[1]] # <<>>
            /\ stack' = stack /\ x' = x
            /\ \E i \in 1..MaxCols : InitColumn(T[1], i)
<1>1. CASE UNCHANGED vars
  BY <1>1 DEF vars, Same, Untouched
<1>2. ASSUME NEW c \in Calls, NEW t \in Types, Call(c, t) PROVE Untouched(T)
  BY <1>2 DEF Call, heap, Same, Untouched
<1>3. ASSUME NEW c \in Calls, Step(c), ~Untouched(T)
      PROVE  /\ T[1] = c /\ T = Frame(c) /\ stack[c] # <<>> /\ stack' = stack /\ x' = x
             /\ \E i \in 1..MaxCols : InitColumn(c, i)
  <2>1. PICK i \in 1..MaxCols : InitColumn(c, i)
    BY <1>3 DEF Step, LookupCached, LookupOwn, LookupNew, Publish, heap, Same, Untouched
  <2>2. Stays(c) /\ stack[c] # <<>>
    BY <2>1, InitColumnStays
  <2>3. T = Frame(c) /\ stack' = stack /\ x' = x
    BY <1>3, <2>2 DEF Stays, Same
  <2> QED
    BY <2>1, <2>2, <2>3, FrameFacts DEF TypeInv
<1> QED
  BY <1>1, <1>2, <1>3 DEF Next

LEMMA FilledStep ==
  ASSUME TypeInv, Filled, Waiting, [Next]_vars
  PROVE  Filled'
<1> SUFFICES ASSUME NEW T \in Tables
             PROVE  /\ inited'[T] \subseteq Cols(T[2])
                    /\ \A i \in inited'[T] : Column(T[2], i).kind # "plain" => rel'[T][i] # Nil
                    /\ \A i \in 1..MaxCols :
                         rel'[T][i] # Nil => rel'[T][i][2] = Column(T[2], i).target
  BY DEF Filled
<1>0. /\ inited[T] \subseteq Cols(T[2])
      /\ \A i \in inited[T] : Column(T[2], i).kind # "plain" => rel[T][i] # Nil
      /\ \A i \in 1..MaxCols : rel[T][i] # Nil => rel[T][i][2] = Column(T[2], i).target
  BY DEF Filled
<1>1. CASE Untouched(T)
  BY <1>0, <1>1 DEF Same, Untouched
<1>2. CASE ~Untouched(T)
  <2> DEFINE c == T[1]
  <2>1. c \in Calls /\ T = Frame(c)
    BY <1>2, ColumnsChange
  <2>2. PICK i \in 1..MaxCols : InitColumn(c, i)
    BY <1>2, ColumnsChange
  <2>3. i \in Due(T) /\ i \in Cols(T[2])
    BY <2>1, <2>2, InitColumnEffect, DueFacts
  <2>4. \A j \in 1..MaxCols : \/ rel'[T][j] = rel[T][j]
                              \/ /\ j = i /\ rel[T][j] = Nil
                                 /\ st[c] = "returned" /\ rel'[T][j] = ret[c]
    BY <2>1, <2>2, InitColumnEffect
  <2>5. \/ inited'[T] = inited[T]
        \/ /\ inited'[T] = inited[T] \cup {i}
           /\ Column(T[2], i).kind # "plain" => rel'[T][i] # Nil
    BY <2>1, <2>2, InitColumnEffect
  <2>6. st[c] = "returned" /\ rel[T][i] = Nil => ret[c][2] = Column(T[2], i).target
    BY <2>1, <2>3 DEF Waiting, Waits, Awaits
  <2>7. inited[T] \subseteq 1..MaxCols /\ i \notin inited[T]
    BY <2>3, DueFacts DEF TypeInv, TypeOK
  <2>8. \A j \in inited[T] : rel'[T][j] = rel[T][j]
    BY <2>4, <2>7
  <2>9. \A j \in inited'[T] : Column(T[2], j).kind # "plain" => rel'[T][j] # Nil
    BY <1>0, <2>5, <2>8
  <2>10. \A j \in 1..MaxCols : rel'[T][j] # Nil => rel'[T][j][2] = Column(T[2], j).target
    BY <1>0, <2>4, <2>6
  <2> QED
    BY <1>0, <2>3, <2>5, <2>9, <2>10
<1> QED
  BY <1>1, <1>2

LEMMA BoundStep ==
  ASSUME TypeInv, Bound, [Next]_vars
  PROVE  Bound'
<1>1. ASSUME NEW T \in Tables, NEW j \in 1..MaxCols, rel'[T][j] # Nil
      PROVE  T[2] \in x'[T[1]] /\ j \in (inited[T] \cup Due(T))'
  <2>1. CASE Untouched(T)
    <3>1. T[2] \in x[T[1]] /\ j \in inited[T] \cup Due(T)
      BY <1>1, <2>1 DEF Bound, Same, Untouched
    <3>2. x[T[1]] \subseteq x'[T[1]]
      BY RecordedKept
    <3> QED
      BY <2>1, <3>1, <3>2 DEF Same, Untouched, Due
  <2>2. CASE ~Untouched(T)
    <3>1. /\ T[1] \in Calls /\ T = Frame(T[1]) /\ stack[T[1]] # <<>> /\ x' = x
          /\ \E i \in 1..MaxCols : InitColumn(T[1], i)
      BY <2>2, ColumnsChange
    <3>2. T[2] \in x'[T[1]]
      BY <3>1, FrameFacts DEF TypeInv
    <3>3. PICK i \in 1..MaxCols : InitColumn(T[1], i)
      BY <3>1
    <3>4. /\ i \in Due(T)
          /\ rel'[T][j] = rel[T][j] \/ j = i
          /\ inited'[T] = inited[T] \cup {i} \/ inited'[T] = inited[T]
      BY <3>1, <3>3, InitColumnEffect
    <3>5. j \in inited[T] \cup {i}
      BY <1>1, <3>4, DueUnique DEF Bound
    <3> QED
      BY <3>2, <3>4, <3>5 DEF Due
  <2> QED
    BY <2>1, <2>2
<1>2. ASSUME NEW d \in Calls, st'[d] = "init", NEW j \in Due(Frame(d))'
      PROVE  rel'[Frame(d)'][j] = Nil
  <2>0. /\ stack \in [Calls -> Seq(Types)] /\ st \in [Calls -> States]
        /\ TypeInv' /\ stack'[d] # <<>>
    BY <1>2, TypeStep DEF TypeInv, TypeOK, Placed
  <2>1. PICK F \in Tables : F = Frame(d)' /\ F = <<d, stack'[d][1]>>
    <3>1. /\ Head(stack'[d]) = stack'[d][1] /\ stack'[d][1] \in Types
      BY <2>0, PopFacts DEF TypeInv, TypeOK
    <3> QED
      BY <3>1 DEF Frame, Tables
  <2>2. j \in Due(F)' /\ j \in 1..MaxCols /\ j \notin inited'[F]
    BY <1>2, <2>1, SchemaFacts DEF Due, Tables
  <2>3. ASSUME st[d] = "init", stack'[d] = stack[d], Untouched(F) PROVE rel'[F][j] = Nil
    <3>1. F = Frame(d)
      BY <2>1, <2>3 DEF Frame
    <3>2. j \in Due(F)
      BY <2>2, <2>3 DEF Due, Same, Untouched
    <3> QED
      BY <2>3, <3>1, <3>2 DEF Bound, Same, Untouched
  <2>4. CASE UNCHANGED vars
    BY <1>2, <2>1, <2>3, <2>4 DEF vars, Same, Untouched
  <2>5. ASSUME NEW c \in Calls, Step(c) \/ \E t \in Types : Call(c, t)
        PROVE  rel'[F][j] = Nil
    <3>1. CASE d # c
      <4>1. F # Frame(c)
        BY <2>1, <3>1 DEF Frame
      <4> QED
        BY <1>2, <2>3, <2>5, <3>1, <4>1, StepShape, PushStep, PopStep DEF Others, Stays, Same
    <3>2. CASE d = c /\ LookupNew(c)
      <4>1. F[2] \notin x[F[1]] /\ Untouched(F)
        BY <2>1, <3>2, PushStep
      <4> QED
        BY <2>2, <4>1 DEF Bound, Same, Untouched
    <3>3. CASE d = c /\ \E i \in 1..MaxCols : InitColumn(c, i)
      <4>1. PICK i \in 1..MaxCols : InitColumn(c, i)
        BY <3>3
      <4>2. F = Frame(c)
        BY <2>1, <3>3, <4>1, InitColumnStays DEF Stays, Same, Frame
      <4>3. /\ i \in Due(F) /\ inited'[F] = inited[F] \cup {i}
            /\ rel'[F][j] = rel[F][j] \/ j = i
        BY <1>2, <2>2, <3>3, <4>1, <4>2, InitColumnEffect
      <4> QED
        BY <2>2, <4>3, DueUnique DEF Bound
    <3> QED
      BY <1>2, <2>0, <2>5, <3>1, <3>2, <3>3
         DEF Step, Call, LookupCached, LookupOwn, Publish, Return, Goto
  <2> QED
    BY <2>1, <2>4, <2>5 DEF Next
<1> QED
  BY <1>1, <1>2 DEF Bound

LEMMA AwaitsKept ==
  ASSUME NEW T \in Tables, NEW u, Untouched(T), Awaits(T, u)
  PROVE  Awaits(T, u)'
  BY DEF Same, Untouched, Awaits, Due

LEMMA WaitingStep ==
  ASSUME TypeInv, NoReentry, Published, Bound, Waiting, Outside, [Next]_vars
  PROVE  Waiting'
<1>0. /\ stack \in [Calls -> Seq(Types)] /\ st \in [Calls -> States]
      /\ arg \in [Calls -> Types \cup {Nil}] /\ ret \in [Calls -> Tables \cup {Nil}]
      /\ tables \in [Types -> Tables \cup {Nil}]
  BY DEF TypeInv, TypeOK
<1>1. CASE UNCHANGED vars
  <2>1. ASSUME NEW c \in Calls PROVE Waits(c)'
    <3>1. Waits(c)
      BY DEF Waiting
    <3>2. ASSUME NEW k \in 2..Len(stack'[c])
          PROVE  Awaits(<<c, stack[c][k]>>, stack[c][k - 1])'
      <4>1. Awaits(<<c, stack[c][k]>>, stack[c][k - 1])
        BY <1>1, <3>1, <3>2 DEF vars, Waits
      <4> QED
        BY <1>1, <4>1 DEF vars, Awaits, Due
    <3>3. st'[c] = "lookup" /\ stack'[c] # <<>> => Awaits(Frame(c), arg[c])'
      BY <1>1, <3>1 DEF vars, Waits, Awaits, Due, Frame
    <3>4. st'[c] = "returned" => Awaits(Frame(c), ret[c][2])'
      BY <1>1, <3>1 DEF vars, Waits, Awaits, Due, Frame
    <3> QED
      BY <3>2, <3>3, <3>4 DEF Waits
  <2> QED
    BY <2>1 DEF Waiting
<1>2. ASSUME NEW c \in Calls, Step(c) \/ \E t \in Types : Call(c, t), NEW d \in Calls
      PROVE  Waits(d)'
  <2>0. Waits(d)
    BY DEF Waiting
  <2>1. Others(c)
    BY <1>2, StepShape
  <2>2. CASE d # c
    <3>1. /\ stack'[d] = stack[d] /\ st'[d] = st[d] /\ arg'[d] = arg[d] /\ ret'[d] = ret[d]
      BY <2>1, <2>2 DEF Others
    <3>2. ASSUME NEW u \in Types PROVE <<d, u>> \in Tables /\ Untouched(<<d, u>>)
      <4>1. <<d, u>> \in Tables
        BY DEF Tables
      <4>2. <<d, u>> # Frame(c)
        BY <2>2 DEF Frame
      <4> QED
        BY <1>2, <4>1, <4>2, StepShape, PushStep, PopStep DEF Stays, Same
    <3>3. \A k \in 1..Len(stack[d]) : stack[d][k] \in Types
      BY <1>0, ElementOfSeq
    <3>5. \A k \in 2..Len(stack[d]) : stack[d][k] \in Types
      BY <3>3
    <3>6. ASSUME stack[d] # <<>>
          PROVE  Head(stack[d]) \in Types /\ Frame(d) = <<d, Head(stack[d])>>
      BY <3>6, FrameFacts DEF TypeInv, Frame
    <3>7. ASSUME NEW k \in 2..Len(stack'[d])
          PROVE  Awaits(<<d, stack[d][k]>>, stack[d][k - 1])'
      <4>1. Awaits(<<d, stack[d][k]>>, stack[d][k - 1]) /\ stack[d][k] \in Types
        BY <2>0, <3>1, <3>5, <3>7 DEF Waits
      <4>2. Untouched(<<d, stack[d][k]>>)
        BY <3>2, <4>1
      <4> QED
        BY <3>1, <4>1, <4>2 DEF Awaits, Due, Same, Untouched
    <3>8. ASSUME st'[d] = "lookup", stack'[d] # <<>> PROVE Awaits(Frame(d), arg[d])'
      <4>1. Awaits(Frame(d), arg[d]) /\ Untouched(Frame(d))
        BY <2>0, <3>1, <3>2, <3>6, <3>8 DEF Waits
      <4> QED
        BY <3>1, <4>1 DEF Awaits, Due, Same, Untouched, Frame
    <3>9. ASSUME st'[d] = "returned" PROVE Awaits(Frame(d), ret[d][2])'
      <4>1. stack[d] # <<>>
        BY <3>1, <3>9 DEF TypeInv, Placed
      <4>2. Awaits(Frame(d), ret[d][2]) /\ Untouched(Frame(d))
        BY <2>0, <3>1, <3>2, <3>6, <3>9, <4>1 DEF Waits
      <4> QED
        BY <3>1, <4>2 DEF Awaits, Due, Same, Untouched, Frame
    <3> QED
      BY <3>7, <3>8, <3>9 DEF Waits
  <2>3. CASE d = c /\ \E t \in Types : Call(c, t)
    <3>1. st[c] = "idle" /\ stack[c] = <<>> /\ stack' = stack /\ st'[c] = "lookup"
      BY <1>0, <2>3 DEF Call, Goto, Outside
    <3>2. Len(stack'[c]) = 0
      BY <3>1
    <3> QED
      BY <2>3, <3>1, <3>2 DEF Waits
  <2>4. CASE d = c /\ (LookupCached(c) \/ LookupOwn(c))
    <3>1. /\ \A T \in Tables : Untouched(T)
          /\ stack' = stack
          /\ st[c] = "lookup" /\ arg[c] \in Types /\ st'[c] \in {"done", "returned"}
          /\ st'[c] = "returned" => stack[c] # <<>>
          /\ ret'[c] = tables[arg[c]] \/ ret'[c] = <<c, arg[c]>>
          /\ ret'[c] # Nil
      BY <1>0, <2>4, SchemaAssumption
         DEF LookupCached, LookupOwn, Return, Goto, heap, Same, Untouched, TypeInv, Placed
    <3>2. ret'[c][2] = arg[c]
      BY <1>0, <3>1 DEF Published
    <3>3. ASSUME NEW k \in 2..Len(stack'[c])
          PROVE  Awaits(<<c, stack[c][k]>>, stack[c][k - 1])'
      <4>1. Awaits(<<c, stack[c][k]>>, stack[c][k - 1])
        BY <2>0, <2>4, <3>1, <3>3 DEF Waits
      <4>2. stack[c][k] \in Types
        BY <1>0, <3>1, <3>3, ElementOfSeq
      <4>3. Untouched(<<c, stack[c][k]>>) /\ <<c, stack[c][k]>> \in Tables
        BY <3>1, <4>2 DEF Tables
      <4> QED
        BY <3>1, <4>1, <4>3 DEF Awaits, Due, Same, Untouched
    <3>4. ASSUME st'[c] = "returned" PROVE Awaits(Frame(c), ret[c][2])'
      <4>1. stack[c] # <<>> /\ Awaits(Frame(c), arg[c]) /\ Frame(c) \in Tables
        BY <2>0, <2>4, <3>1, <3>4, FrameFacts DEF Waits, TypeInv
      <4> QED
        BY <3>1, <3>2, <4>1 DEF Awaits, Due, Same, Untouched, Frame
    <3> QED
      BY <2>4, <3>1, <3>3, <3>4 DEF Waits
  <2>5. CASE d = c /\ LookupNew(c)
    <3>1. /\ \A T \in Tables : Untouched(T)
          /\ st[c] = "lookup" /\ arg[c] \in Types /\ st'[c] \in {"init", "failed"}
          /\ Len(stack'[c]) = Len(stack[c]) + 1 /\ Len(stack[c]) \in Nat
          /\ stack'[c][1] = arg[c]
          /\ \A k \in 1..Len(stack[c]) : stack'[c][k + 1] = stack[c][k]
      BY <1>0, <2>5, PushStep DEF LookupNew, Goto
    <3>2. ASSUME NEW k \in 2..Len(stack'[c])
          PROVE  Awaits(<<c, stack[c][k]>>, stack[c][k - 1])'
      <4>1. k - 1 \in 1..Len(stack[c]) /\ stack'[c][k] = stack[c][k - 1]
        BY <3>1, <3>2
      <4>2. <<c, stack[c][k - 1]>> \in Tables /\ Untouched(<<c, stack[c][k - 1]>>)
        BY <1>0, <3>1, <4>1, ElementOfSeq DEF Tables
      <4>3. Awaits(<<c, stack[c][k - 1]>>, stack'[c][k - 1])
        <5>1. CASE k = 2
          <6>1. stack[c] # <<>>
            BY <4>1
          <6>2. Awaits(Frame(c), arg[c]) /\ Frame(c) = <<c, stack[c][1]>>
            BY <2>0, <2>5, <3>1, <6>1, FrameFacts DEF Waits, TypeInv, Frame
          <6> QED
            BY <3>1, <5>1, <6>2
        <5>2. CASE k # 2
          <6>1. k - 1 \in 2..Len(stack[c]) /\ k - 2 \in 1..Len(stack[c]) /\ (k - 2) + 1 = k - 1 /\ (k - 1) - 1 = k - 2
            BY <3>1, <4>1, <5>2
          <6>2. stack'[c][k - 1] = stack[c][k - 2]
            BY <3>1, <6>1
          <6> QED
            BY <2>0, <2>5, <6>1, <6>2 DEF Waits
        <5> QED
          BY <5>1, <5>2
      <4> QED
        BY <4>1, <4>2, <4>3 DEF Awaits, Due, Same, Untouched
    <3> QED
      BY <2>5, <3>1, <3>2 DEF Waits
  <2>6. CASE d = c /\ Publish(c)
    <3>1. /\ \A T \in Tables : Untouched(T)
          /\ stack[c] # <<>>
          /\ Len(stack[c]) \in Nat \ {0}
          /\ Len(stack'[c]) = Len(stack[c]) - 1
          /\ \A k \in 1..Len(stack'[c]) : stack'[c][k] = stack[c][k + 1]
          /\ Frame(c)[2] = stack[c][1]
      BY <2>6, PopStep, FrameFacts DEF TypeInv
    <3>2. /\ st'[c] = "done" \/ (st'[c] = "returned" /\ stack'[c] # <<>>)
          /\ ret'[c] = Frame(c)
      BY <1>0, <2>6 DEF Publish, Return, Goto
    <3>3. ASSUME NEW k \in 1..Len(stack'[c])
          PROVE  /\ <<c, stack'[c][k]>> \in Tables /\ Untouched(<<c, stack'[c][k]>>)
                 /\ Awaits(<<c, stack'[c][k]>>, stack[c][k])
      <4>1. k + 1 \in 2..Len(stack[c]) /\ (k + 1) - 1 = k /\ stack'[c][k] = stack[c][k + 1]
        BY <3>1, <3>3
      <4>2. stack[c][k + 1] \in Types
        BY <1>0, <4>1, ElementOfSeq
      <4> QED
        BY <2>0, <2>6, <3>1, <4>1, <4>2 DEF Waits, Tables
    <3>4. ASSUME NEW k \in 2..Len(stack'[c])
          PROVE  Awaits(<<c, stack[c][k]>>, stack[c][k - 1])'
      <4>1. k \in 1..Len(stack'[c]) /\ k - 1 \in 1..Len(stack'[c]) /\ (k - 1) + 1 = k
        BY <3>1, <3>4
      <4>2. stack'[c][k - 1] = stack[c][k]
        BY <3>1, <4>1
      <4> QED
        BY <3>3, <4>1, <4>2 DEF Awaits, Due, Same, Untouched
    <3>5. ASSUME st'[c] = "returned" PROVE Awaits(Frame(c), ret[c][2])'
      <4>1. 1 \in 1..Len(stack'[c]) /\ Head(stack'[c]) = stack'[c][1]
        <5>1. stack'[c] \in Seq(Types) /\ stack'[c] # <<>>
          BY <1>2, <3>2, <3>5, TypeStep DEF TypeInv, TypeOK, Next
        <5> QED
          BY <5>1, PopFacts
      <4> DEFINE T == <<c, stack'[c][1]>>
      <4>2. Untouched(T) /\ Awaits(T, stack[c][1])
        BY <3>3, <4>1
      <4>3. ret'[c][2] = stack[c][1] /\ <<c, Head(stack'[c])>> = T
        BY <3>1, <3>2, <4>1
      <4> QED
        BY <4>2, <4>3 DEF Awaits, Due, Same, Untouched, Frame
    <3> QED
      BY <2>6, <3>2, <3>4, <3>5 DEF Waits
  <2>7. CASE d = c /\ \E i \in 1..MaxCols : InitColumn(c, i)
    <3>1. PICK i \in 1..MaxCols : InitColumn(c, i)
      BY <2>7
    <3>2. stack[c] # <<>> /\ stack' = stack /\ ret' = ret
      BY <3>1, InitColumnStays DEF Stays, Same
    <3>3. PICK F \in Tables : F = Frame(c)
      BY <3>2, FrameFacts DEF TypeInv
    <3>4. /\ i \in Due(F)
          /\ \/ st'[c] \in {"init", "failed", "panicked"}
             \/ /\ inited'[F] = inited[F] /\ st'[c] = "lookup"
                /\ Column(F[2], i).kind # "plain"
                /\ rel'[F][i] = Nil => arg'[c] = Column(F[2], i).target
                /\ rel'[F][i] # Nil => /\ Column(F[2], i).kind = "many_to_many"
                                      /\ arg'[c] = Column(F[2], i).through
      <4>1. i \in Due(F) /\ (st[c] = "init" => rel[F][i] = Nil)
        BY <3>1, <3>3, InitColumnEffect DEF Bound
      <4> QED
        BY <3>1, <3>3, <4>1, InitColumnEffect
    <3>5. ASSUME NEW k \in 2..Len(stack'[c])
          PROVE  Awaits(<<c, stack[c][k]>>, stack[c][k - 1])'
      <4>1. Awaits(<<c, stack[c][k]>>, stack[c][k - 1])
        BY <2>0, <2>7, <3>2, <3>5 DEF Waits
      <4>2. k \in 1..Len(stack[c]) /\ k # 1 /\ 1 \in 1..Len(stack[c])
        BY <3>2, <3>5, FrameFacts DEF TypeInv
      <4>3. stack[c][k] \in Types /\ stack[c][k] # stack[c][1]
        BY <1>0, <4>2, ElementOfSeq DEF NoReentry
      <4>4. <<c, stack[c][k]>> \in Tables /\ <<c, stack[c][k]>> # Frame(c)
        BY <3>2, <4>3, FrameFacts DEF TypeInv, Tables
      <4>5. Untouched(<<c, stack[c][k]>>)
        BY <3>1, <4>4, InitColumnStays DEF Stays, Same
      <4> QED
        BY <3>2, <4>1, <4>5 DEF Awaits, Due, Same, Untouched
    <3>6. ASSUME st'[c] = "lookup" PROVE Awaits(Frame(c), arg[c])'
      <4>1. /\ inited'[F] = inited[F] /\ Column(F[2], i).kind # "plain"
            /\ rel'[F][i] = Nil => arg'[c] = Column(F[2], i).target
            /\ rel'[F][i] # Nil => /\ Column(F[2], i).kind = "many_to_many"
                                  /\ arg'[c] = Column(F[2], i).through
        BY <3>4, <3>6
      <4>2. \A j \in Due(F) : j = i
        BY <3>4, DueUnique
      <4>3. \A j \in Due(F) : /\ Column(F[2], j).kind # "plain"
                              /\ rel'[F][j] = Nil => arg'[c] = Column(F[2], j).target
                              /\ rel'[F][j] # Nil => /\ Column(F[2], j).kind = "many_to_many"
                                                    /\ arg'[c] = Column(F[2], j).through
        BY <4>1, <4>2
      <4>4. <<c, Head(stack'[c])>> = F
        BY <3>2, <3>3 DEF Frame
      <4> QED
        BY <4>1, <4>3, <4>4 DEF Awaits, Due, Frame
    <3> QED
      BY <2>7, <3>4, <3>5, <3>6 DEF Waits
  <2> QED
    BY <1>2, <2>2, <2>3, <2>4, <2>5, <2>6, <2>7 DEF Step
<1> QED
  BY <1>1, <1>2 DEF Next, Waiting

LEMMA LinksTyped ==
  ASSUME TypeInv, NEW T \in Tables
  PROVE  /\ Links(T) \subseteq Tables
         /\ \A U : U \in Links(T) <=>
                     U # Nil /\ \E i \in 1..MaxCols : U = rel[T][i] \/ U = thr[T][i]
<1>1. /\ rel[T] \in [1..MaxCols -> Tables \cup {Nil}]
      /\ thr[T] \in [1..MaxCols -> Tables \cup {Nil}]
  BY DEF TypeInv, TypeOK
<1>2. \A i \in 1..MaxCols : rel[T][i] \in Tables \cup {Nil} /\ thr[T][i] \in Tables \cup {Nil}
  BY <1>1
<1>3. \A U : U \in Links(T) <=>
               U # Nil /\ \E i \in 1..MaxCols : U = rel[T][i] \/ U = thr[T][i]
  BY DEF Links
<1> QED
  BY <1>2, <1>3

(* What may be handed to a call may be handed to it ever after.            *)
LEMMA ShareableKept ==
  ASSUME TypeInv, [Next]_vars, NEW U \in Tables, NEW c, Shareable(U, c)
  PROVE  Shareable(U, c)'
<1>1. U[1] \in Calls
  BY DEF Tables
<1>2. x[U[1]] \subseteq x'[U[1]]
  BY RecordedKept
<1>3. Finished(U) => Finished(U)'
  BY FinishedKept
<1> QED
  BY <1>2, <1>3 DEF Shareable

(* Where the step of a call leaves it, and with which table.               *)
LEMMA ReturnShareable ==
  ASSUME TypeInv, Published, [Next]_vars, NEW c \in Calls,
         Step(c) \/ \E t \in Types : Call(c, t), st'[c] = "returned"
  PROVE  Shareable(ret[c], c)'
<1>0. /\ st \in [Calls -> States] /\ ret \in [Calls -> Tables \cup {Nil}]
      /\ tables \in [Types -> Tables \cup {Nil}]
  BY DEF TypeInv, TypeOK
<1>1. CASE LookupCached(c)
  <2>1. ret'[c] = tables[arg[c]] /\ arg[c] \in Types /\ tables[arg[c]] # Nil
    BY <1>0, <1>1 DEF LookupCached, Return, TypeInv, Placed
  <2>2. PICK U \in Tables : U = tables[arg[c]] /\ Finished(U)
    BY <1>0, <2>1 DEF Published
  <2>3. Shareable(U, c)'
    BY <2>2, ShareableKept DEF Shareable, Finished
  <2> QED
    BY <2>1, <2>2, <2>3 DEF Shareable, Finished, OnStack
<1>2. CASE LookupOwn(c)
  BY <1>0, <1>2 DEF LookupOwn, Return, Shareable
<1>3. CASE Publish(c)
  <2>1. stack[c] # <<>> /\ x' = x
    BY <1>3, PopStep
  <2>2. Frame(c)[1] = c /\ Frame(c)[2] \in x[c]
    BY <2>1, FrameFacts DEF TypeInv
  <2> QED
    BY <1>0, <1>3, <2>1, <2>2 DEF Publish, Return, Shareable
<1>4. CASE \E t \in Types : Call(c, t)
  BY <1>0, <1>4 DEF Call, Goto
<1>5. CASE LookupNew(c)
  BY <1>0, <1>5 DEF LookupNew, Goto
<1>6. CASE \E i \in 1..MaxCols : InitColumn(c, i)
  <2>1. PICK i \in 1..MaxCols : InitColumn(c, i)
    BY <1>6
  <2>2. PICK F \in Tables : F = Frame(c)
    BY <2>1, InitColumnStays, FrameFacts DEF TypeInv
  <2> QED
    BY <2>1, <2>2, InitColumnEffect
<1> QED
  BY <1>1, <1>2, <1>3, <1>4, <1>5, <1>6 DEF Step

LEMMA HandedStep ==
  ASSUME TypeInv, Published, Handed, [Next]_vars
  PROVE  Handed'
<1>0. TypeInv' /\ ret \in [Calls -> Tables \cup {Nil}]
  BY TypeStep DEF TypeInv, TypeOK
<1>1. ASSUME NEW T \in Tables, NEW U \in Links(T)' PROVE Shareable(U, T[1])'
  <2>1. /\ U # Nil /\ U \in Tables
        /\ \E i \in 1..MaxCols : U = rel'[T][i] \/ U = thr'[T][i]
    BY <1>0, <1>1, SchemaAssumption DEF Links, TypeInv, TypeOK, Tables
  <2>2. Shareable(U, T[1])
    <3>1. CASE U \in Links(T)
      BY <3>1 DEF Handed
    <3>2. CASE U \notin Links(T)
      <4>1. ~Untouched(T)
        BY <2>1, <3>2, LinksTyped DEF Same, Untouched
      <4>2. /\ T[1] \in Calls /\ T = Frame(T[1])
            /\ \E i \in 1..MaxCols : InitColumn(T[1], i)
        BY <4>1, ColumnsChange
      <4>3. st[T[1]] = "returned" /\ U = ret[T[1]]
        BY <2>1, <3>2, <4>2, LinksTyped, InitColumnEffect
      <4> QED
        BY <4>2, <4>3 DEF Handed
    <3> QED
      BY <3>1, <3>2
  <2> QED
    BY <2>1, <2>2, ShareableKept
<1>2. ASSUME NEW d \in Calls, st'[d] = "returned" PROVE Shareable(ret[d], d)'
  <2>1. ASSUME st[d] = "returned", ret'[d] = ret[d] PROVE Shareable(ret[d], d)'
    <3>1. PICK U \in Tables : U = ret[d]
      BY <2>1 DEF TypeInv, Placed
    <3>2. Shareable(U, d)'
      BY <2>1, <3>1, ShareableKept DEF Handed
    <3> QED
      BY <2>1, <3>1, <3>2 DEF Shareable, Finished, OnStack
  <2>2. CASE UNCHANGED vars
    BY <1>2, <2>1, <2>2 DEF vars
  <2>3. ASSUME NEW c \in Calls, Step(c) \/ \E t \in Types : Call(c, t)
        PROVE  Shareable(ret[d], d)'
    <3>1. CASE d = c
      BY <1>2, <2>3, <3>1, ReturnShareable
    <3>2. CASE d # c
      BY <1>2, <2>1, <2>3, <3>2, StepShape DEF Others
    <3> QED
      BY <3>1, <3>2
  <2> QED
    BY <2>2, <2>3 DEF Next
<1> QED
  BY <1>1, <1>2 DEF Handed

LEMMA OutsideStep ==
  ASSUME TypeInv, NoReentry, Published, Outside, [Next]_vars
  PROVE  Outside'
<1>0. /\ st \in [Calls -> States] /\ ret \in [Calls -> Tables \cup {Nil}]
      /\ tables \in [Types -> Tables \cup {Nil}] /\ stack \in [Calls -> Seq(Types)]
  BY DEF TypeInv, TypeOK
<1>1. ASSUME NEW d \in Calls, NEW U \in Tables, Finished(U), ret'[d] = U
      PROVE  Finished(ret[d])'
  <2>1. Finished(U)'
    BY <1>1, FinishedKept
  <2> QED
    BY <1>1, <2>1 DEF Finished, OnStack
<1> DEFINE Goal(d) == /\ st'[d] \in {"idle", "done"} => stack'[d] = <<>>
                      /\ st'[d] = "done" => ret'[d] \in Tables /\ Finished(ret[d])'
<1>2. ASSUME NEW d \in Calls, st'[d] = st[d], ret'[d] = ret[d], stack'[d] = stack[d]
      PROVE  Goal(d)
  <2>1. st[d] = "done" => ret[d] \in Tables /\ Finished(ret[d])
    BY DEF Outside
  <2>2. st[d] \in {"idle", "done"} => stack[d] = <<>>
    BY DEF Outside
  <2> QED
    BY <1>1, <1>2, <2>1, <2>2
<1>3. CASE UNCHANGED vars
  <2>1. \A d \in Calls : st'[d] = st[d] /\ ret'[d] = ret[d] /\ stack'[d] = stack[d]
    BY <1>3 DEF vars
  <2> QED
    BY <1>2, <2>1 DEF Outside
<1>4. ASSUME NEW c \in Calls, Step(c) \/ \E t \in Types : Call(c, t), NEW d \in Calls
      PROVE  Goal(d)
  <2>1. CASE d # c
    <3>1. st'[d] = st[d] /\ ret'[d] = ret[d] /\ stack'[d] = stack[d]
      BY <1>4, <2>1, StepShape DEF Others
    <3> QED
      BY <1>2, <3>1
  <2>2. CASE d = c /\ LookupCached(c)
    <3>1. /\ ret'[c] = tables[arg[c]] /\ arg[c] \in Types /\ tables[arg[c]] # Nil
          /\ stack' = stack
          /\ st'[c] = IF stack[c] = <<>> THEN "done" ELSE "returned"
      BY <1>0, <2>2 DEF LookupCached, Return, Goto, TypeInv, Placed
    <3>2. PICK U \in Tables : U = tables[arg[c]] /\ Finished(U)
      BY <1>0, <3>1 DEF Published
    <3>3. ret'[c] \in Tables /\ Finished(ret[c])'
      BY <1>1, <3>1, <3>2
    <3> QED
      BY <2>2, <3>1, <3>3
  <2>3. CASE d = c /\ LookupOwn(c)
    <3>1. /\ ret'[c] = <<c, arg[c]>> /\ arg[c] \in Types /\ arg[c] \in x[c]
          /\ stack' = stack
          /\ st'[c] = IF stack[c] = <<>> THEN "done" ELSE "returned"
      BY <1>0, <2>3 DEF LookupOwn, Return, Goto, TypeInv, Placed
    <3>2. PICK U \in Tables : U = <<c, arg[c]>>
      BY <3>1 DEF Tables
    <3>3. ASSUME stack[c] = <<>> PROVE Finished(U)
      <4>1. Len(stack[c]) = 0
        BY <3>3
      <4> QED
        BY <3>1, <3>2, <4>1 DEF Finished, OnStack
    <3>4. st'[c] = "done" => ret'[c] \in Tables /\ Finished(ret[c])'
      BY <1>1, <3>1, <3>2, <3>3
    <3> QED
      BY <2>3, <3>1, <3>4
  <2>4. CASE d = c /\ LookupNew(c)
    <3>1. st'[c] \in {"init", "failed"}
      BY <1>0, <2>4 DEF LookupNew, Goto
    <3> QED
      BY <2>4, <3>1
  <2>5. CASE d = c /\ Publish(c)
    <3>1. PICK U \in Tables : U = Frame(c)
      BY <2>5, PopStep, FrameFacts DEF TypeInv
    <3>2. /\ ret'[c] = U /\ stack'[c] = Tail(stack[c])
          /\ st'[c] = IF Tail(stack[c]) = <<>> THEN "done" ELSE "returned"
      BY <1>0, <2>5, <3>1 DEF Publish, Return, Goto
    <3>3. Finished(U)'
      BY <2>5, <3>1, PublishFinishes
    <3>4. Finished(ret[c])'
      BY <3>2, <3>3 DEF Finished, OnStack
    <3> QED
      BY <2>5, <3>2, <3>4
  <2>6. CASE d = c /\ \E t \in Types : Call(c, t)
    <3>1. st'[c] = "lookup"
      BY <1>0, <2>6 DEF Call, Goto
    <3> QED
      BY <2>6, <3>1
  <2>7. CASE d = c /\ \E i \in 1..MaxCols : InitColumn(c, i)
    <3>1. PICK i \in 1..MaxCols : InitColumn(c, i)
      BY <2>7
    <3>2. PICK F \in Tables : F = Frame(c)
      BY <3>1, InitColumnStays, FrameFacts DEF TypeInv
    <3>3. st'[c] \in {"init", "lookup", "failed", "panicked"}
      BY <3>1, <3>2, InitColumnEffect
    <3> QED
      BY <2>7, <3>3
  <2> QED
    BY <1>4, <2>1, <2>2, <2>3, <2>4, <2>5, <2>6, <2>7 DEF Step
<1> QED
  BY <1>3, <1>4 DEF Next, Outside

-----------------------------------------------------------------------------
LEMMA IInvInit ==
  Init => IInv
<1> SUFFICES ASSUME Init PROVE IInv
  OBVIOUS
<1>1. TypeInv
  BY TypeInit
<1>2. \A c \in Calls : stack[c] = <<>> /\ Len(stack[c]) = 0 /\ st[c] = "idle" /\ x[c] = {}
  BY DEF Init
<1>3. \A T \in Tables : ~Finished(T) /\ Links(T) = {} /\ inited[T] = {}
  <2> SUFFICES ASSUME NEW T \in Tables
               PROVE  ~Finished(T) /\ Links(T) = {} /\ inited[T] = {}
    OBVIOUS
  <2>1. T[1] \in Calls
    BY DEF Tables
  <2>2. \A U : U \notin Links(T)
    BY <1>1, LinksTyped DEF Init
  <2> QED
    BY <1>2, <2>1, <2>2 DEF Init, Finished
<1>4. \A T \in Tables : \A i \in 1..MaxCols : rel[T][i] = Nil
  BY DEF Init
<1>5. NoReentry /\ Outside
  BY <1>2 DEF NoReentry, Outside
<1>6. Waiting
  <2>1. \A c \in Calls : \A k \in 2..Len(stack[c]) : FALSE
    BY <1>2
  <2>2. \A c \in Calls : st[c] = "idle"
    BY <1>2
  <2> QED
    BY <2>1, <2>2 DEF Waiting, Waits
<1>7. Published
  BY DEF Init, Published
<1>8. Handed
  BY <1>2, <1>3 DEF Handed
<1>9. Filled /\ Full /\ Bound
  BY <1>2, <1>3, <1>4 DEF Filled, Full, Bound
<1> QED
  BY <1>1, <1>5, <1>6, <1>7, <1>8, <1>9 DEF IInv

LEMMA IInvStep ==
  IInv /\ [Next]_vars => IInv'
<1> SUFFICES ASSUME IInv, [Next]_vars PROVE IInv'
  OBVIOUS
<1>1. /\ TypeInv /\ NoReentry /\ Published /\ Handed
      /\ Filled /\ Full /\ Bound /\ Waiting /\ Outside
  BY DEF IInv
<1> QED
  BY <1>1, TypeStep, NoReentryStep, PublishedStep, HandedStep, FilledStep, FullStep,
     BoundStep, WaitingStep, OutsideStep DEF IInv

LEMMA IInvAlways == Spec => []IInv
  BY IInvInit, IInvStep, PTL DEF Spec

LEMMA FinishedComplete ==
  ASSUME IInv, NEW T \in Tables, Finished(T)
  PROVE  Complete(T)
<1>1. T[2] \in Types
  BY DEF Tables
<1>2. Cols(T[2]) \subseteq 1..MaxCols
  BY <1>1, SchemaFacts
<1>3. inited[T] = Cols(T[2])
  BY DEF IInv, Full
<1> QED
  BY <1>2, <1>3 DEF IInv, Filled, Complete

(* One call never builds a type that it is already building, whatever      *)
(* cycles the schema has: x records what tableOf has started.              *)
THEOREM NeverReentered == Spec => []NoReentry
<1>1. IInv => NoReentry
  BY DEF IInv
<1> QED
  BY <1>1, IInvAlways, PTL

(* The map tables only ever holds tables of the right type whose columns   *)
(* are all initialised and linked to tables of the right type: no caller   *)
(* of TableOf is handed a half-built one, however many calls run at once.  *)
THEOREM PublishedAreComplete == Spec => []PublishedComplete
<1>1. ASSUME IInv PROVE PublishedComplete
  <2> SUFFICES ASSUME NEW t \in Types, tables[t] # Nil
               PROVE  tables[t][2] = t /\ Complete(tables[t])
    BY DEF PublishedComplete
  <2>1. tables[t] \in Tables
    BY <1>1 DEF IInv, TypeInv, TypeOK
  <2>2. tables[t][2] = t /\ Finished(tables[t])
    BY <1>1 DEF IInv, Published
  <2> QED
    BY <1>1, <2>1, <2>2, FinishedComplete
<1> QED
  BY <1>1, IInvAlways, PTL

(* A table points only at finished tables and at those that the same call  *)
(* is building.                                                            *)
THEOREM LinksAreOwned == Spec => []LinksOwned
<1>1. IInv => LinksOwned
  BY DEF IInv, Handed, Shareable, LinksOwned
<1> QED
  BY <1>1, IInvAlways, PTL

(* When TableOf succeeds, the table it returns and all that this call has  *)
(* built are complete and point at finished tables: no failure on the way  *)
(* was lost.                                                               *)
THEOREM SuccessIsClosed == Spec => []DoneClosed
<1>1. ASSUME IInv PROVE DoneClosed
  <2> SUFFICES ASSUME NEW c \in Calls, st[c] = "done"
               PROVE  /\ ret[c] \in Tables /\ Complete(ret[c])
                      /\ \A t \in x[c] : /\ Complete(<<c, t>>)
                                        /\ \A U \in Links(<<c, t>>) : Finished(U)
    BY DEF DoneClosed
  <2>1. stack[c] = <<>> /\ ret[c] \in Tables /\ Finished(ret[c])
    BY <1>1 DEF IInv, Outside
  <2>2. x[c] \subseteq Types
    BY <1>1 DEF IInv, TypeInv, TypeOK
  <2>3. ASSUME NEW U \in Tables, U[1] = c, U[2] \in x[c] PROVE Finished(U)
    <3>1. Len(stack[c]) = 0
      BY <2>1
    <3> QED
      BY <2>3, <3>1 DEF Finished, OnStack
  <2>4. ASSUME NEW t \in x[c]
        PROVE  Complete(<<c, t>>) /\ \A U \in Links(<<c, t>>) : Finished(U)
    <3>1. <<c, t>> \in Tables
      BY <2>2 DEF Tables
    <3>2. Complete(<<c, t>>)
      BY <1>1, <2>3, <3>1, FinishedComplete
    <3>3. ASSUME NEW U \in Links(<<c, t>>) PROVE Finished(U)
      <4>1. U \in Tables
        BY <1>1, <3>1, LinksTyped DEF IInv
      <4>2. U[2] \in x[U[1]] /\ (Finished(U) \/ U[1] = c)
        BY <1>1, <3>1 DEF IInv, Handed, Shareable
      <4> QED
        BY <2>3, <4>1, <4>2
    <3> QED
      BY <3>2, <3>3
  <2> QED
    BY <1>1, <2>1, <2>4, FinishedComplete
<1> QED
  BY <1>1, IInvAlways, PTL

(* Nobody writes to the columns of a published table: reading it without   *)
(* the lock, as every caller of TableOf does, is no data race.             *)
THEOREM PublishedAreFrozen == Spec => FinishedFrozen
<1> DEFINE Frozen == \A t \in Types : tables[t] # Nil =>
                       LET T == tables[t]
                       IN  /\ inited'[T] = inited[T]
                           /\ rel'[T] = rel[T]
                           /\ thr'[T] = thr[T]
                           /\ name'[T] = name[T]
<1>1. ASSUME IInv, [Next]_vars PROVE [Frozen]_vars
  <2>1. ASSUME NEW t \in Types, tables[t] # Nil
        PROVE  Same(tables[t])
    <3>1. PICK T \in Tables : T = tables[t] /\ Finished(T)
      BY <1>1, <2>1 DEF IInv, Published, TypeInv, TypeOK
    <3>2. Same(T)
      BY <1>1, <3>1, FinishedKept DEF IInv
    <3> QED
      BY <3>1, <3>2
  <2> QED
    BY <2>1 DEF Same, Untouched
<1> QED
  BY <1>1, IInvAlways, PTL DEF Spec, FinishedFrozen

-----------------------------------------------------------------------------
(* Induction over the naturals, for a set: the library states it for a     *)
(* predicate, which needs a prover for operators as parameters.            *)
LEMMA NatLess ==
  IsWellFoundedOn({p \in Nat \X Nat : p[1] < p[2]}, Nat)
  BY NatLessThanWellFounded DEF OpToRel

LEMMA Induction ==
  ASSUME NEW S, 0 \in S, \A n \in Nat : n \in S => n + 1 \in S
  PROVE  Nat \subseteq S
<1> DEFINE R == {p \in Nat \X Nat : p[1] < p[2]}
           Left == Nat \ S
<1>1. SUFFICES ASSUME Left # {} PROVE FALSE
  OBVIOUS
<1>2. IsWellFoundedOn(R, Nat)
  BY NatLess
<1>3. Left \subseteq Nat
  OBVIOUS
<1> HIDE DEF R, Left
<1>4. PICK n \in Left : \A m \in Left : <<m, n>> \notin R
  BY <1>1, <1>2, <1>3, WFMin
<1>5. n \in Nat /\ n \notin S /\ n # 0
  BY DEF Left
<1>6. n - 1 \in Nat /\ n - 1 < n /\ (n - 1) + 1 = n
  BY <1>5
<1>7. n - 1 \in S
  BY <1>4, <1>5, <1>6 DEF Left, R
<1> QED
  BY <1>5, <1>6, <1>7

(* A function can be iterated from any point of its domain.                *)
Iterated(S, next, s, N, f) ==
  f \in [0..N -> S] /\ f[0] = s /\ \A n \in 1..N : f[n] = next[f[n - 1]]

LEMMA Iterates ==
  ASSUME NEW S, NEW next \in [S -> S], NEW s \in S, NEW N \in Nat
  PROVE  \E f : Iterated(S, next, s, N, f)
<1> DEFINE Upto(M) == \E f \in [0..M -> S] : f[0] = s /\ \A n \in 1..M : f[n] = next[f[n - 1]]
           Reached == {M \in Nat : Upto(M)}
<1>1. 0 \in Reached
  <2>1. PICK f : f = [n \in 0..0 |-> s]
    OBVIOUS
  <2>2. f \in [0..0 -> S] /\ f[0] = s /\ \A n \in 1..0 : f[n] = next[f[n - 1]]
    BY <2>1
  <2> QED
    BY <2>2
<1>2. ASSUME NEW M \in Nat, M \in Reached PROVE M + 1 \in Reached
  <2>1. PICK f \in [0..M -> S] : f[0] = s /\ \A n \in 1..M : f[n] = next[f[n - 1]]
    BY <1>2
  <2> DEFINE g == [n \in 0..(M + 1) |-> IF n <= M THEN f[n] ELSE next[f[M]]]
  <2>2. M + 1 \in Nat
    OBVIOUS
  <2>3. g \in [0..(M + 1) -> S] /\ g[0] = s
    BY <2>1
  <2>4. ASSUME NEW n \in 1..(M + 1) PROVE g[n] = next[g[n - 1]]
    BY <2>1
  <2> HIDE DEF g
  <2> QED
    BY <2>2, <2>3, <2>4
<1>3. Nat \subseteq Reached
  <2> HIDE DEF Reached
  <2> QED
    BY <1>1, <1>2, Induction
<1> QED
  BY <1>3 DEF Iterated

(* A recursive function over the numbers up to that of the types is what   *)
(* its definition says: the iteration it stands for.                       *)
LEMMA Arrival ==
  ASSUME IsFiniteSet(Types), NEW S, NEW next \in [S -> S], NEW s \in S
  PROVE  LET N == Cardinality(Types)
         IN  \E f : Iterated(S, next, s, N, f) /\ Arrive(next, s) = f[N]
<1> DEFINE N == Cardinality(Types)
           Chained(f) == [n \in 0..N |-> IF n = 0 THEN s ELSE next[f[n - 1]]]
           chain == CHOOSE f : f = Chained(f)
<1>1. N \in Nat
  BY FS_CardinalityType
<1>2. Arrive(next, s) = chain[N]
  BY DEF Arrive
<1>3. PICK f : Iterated(S, next, s, N, f)
  <2> HIDE DEF N
  <2> QED
    BY <1>1, Iterates
<1>4. f = Chained(f)
  <2>1. ASSUME NEW n \in 0..N, n # 0 PROVE f[n] = next[f[n - 1]]
    <3>1. n \in 1..N
      BY <1>1, <2>1
    <3> QED
      BY <1>3, <3>1 DEF Iterated
  <2> HIDE DEF N
  <2> QED
    BY <1>3, <2>1 DEF Iterated
<1>5. chain = Chained(chain)
  <2> HIDE DEF Chained
  <2> QED
    BY <1>4
<1> HIDE DEF chain
<1>6. chain[0] = s /\ \A n \in 1..N : chain[n] = next[chain[n - 1]]
  <2>1. ASSUME NEW n \in 0..N PROVE chain[n] = IF n = 0 THEN s ELSE next[chain[n - 1]]
    <3>1. Chained(chain)[n] = IF n = 0 THEN s ELSE next[chain[n - 1]]
      OBVIOUS
    <3> QED
      BY <1>5, <3>1
  <2>2. 0 \in 0..N /\ \A n \in 1..N : n \in 0..N /\ n # 0
    BY <1>1
  <2> HIDE DEF N
  <2> QED
    BY <2>1, <2>2
<1>7. chain \in [0..N -> S]
  <2> DEFINE In == {n \in Nat : n <= N => chain[n] \in S}
  <2>1. 0 \in In
    BY <1>6
  <2>2. ASSUME NEW n \in Nat, n \in In PROVE n + 1 \in In
    <3>1. ASSUME n + 1 <= N PROVE chain[n + 1] \in S
      <4>1. n + 1 \in 1..N /\ (n + 1) - 1 = n /\ chain[n] \in S
        BY <1>1, <2>2, <3>1
      <4>2. chain[n + 1] = next[chain[n]]
        BY <1>6, <4>1
      <4> HIDE DEF N
      <4> QED
        BY <4>1, <4>2
    <3> HIDE DEF N
    <3> QED
      BY <3>1
  <2>3. Nat \subseteq In
    <3> HIDE DEF In
    <3> QED
      BY <2>1, <2>2, Induction
  <2>4. ASSUME NEW n \in 0..N PROVE chain[n] \in S
    BY <1>1, <2>3
  <2>5. chain = [n \in 0..N |-> chain[n]]
    <3>1. \E h : chain = [n \in 0..N |-> IF n = 0 THEN s ELSE next[h[n - 1]]]
      BY <1>5
    <3> HIDE DEF N
    <3> QED
      BY <3>1
  <2> HIDE DEF N
  <2> QED
    BY <2>4, <2>5
<1>8. Iterated(S, next, s, N, chain)
  BY <1>6, <1>7 DEF Iterated
<1> HIDE DEF N
<1> QED
  BY <1>2, <1>8 DEF N

-----------------------------------------------------------------------------
(* An initialised column that refers to a row refers to a type with a key. *)
KeyedTargets ==
  \A T \in Tables : \A i \in inited[T] :
    Column(T[2], i).kind \in OneRelation => Key(Column(T[2], i).target) # 0

LEMMA KeyedTargetsStep ==
  ASSUME IInv, KeyedTargets, [Next]_vars
  PROVE  KeyedTargets'
<1> SUFFICES ASSUME NEW T \in Tables, NEW j \in inited'[T],
                    Column(T[2], j).kind \in OneRelation
             PROVE  Key(Column(T[2], j).target) # 0
  BY DEF KeyedTargets
<1>0. /\ TypeInv /\ Waiting /\ st \in [Calls -> States]
      /\ Column(T[2], j).kind \notin {"plain", "one_to_many", "many_to_many"}
  BY DEF IInv, TypeInv, TypeOK, OneRelation
<1>1. CASE j \in inited[T]
  BY <1>1 DEF KeyedTargets
<1>2. CASE j \notin inited[T]
  <2> DEFINE c == T[1]
  <2>1. /\ c \in Calls /\ T = Frame(c) /\ \E i \in 1..MaxCols : InitColumn(c, i)
    BY <1>0, <1>2, ColumnsChange DEF Untouched
  <2>2. PICK i \in 1..MaxCols : InitColumn(c, i)
    BY <2>1
  <2>3. i = j /\ i \in Due(T) /\ st'[c] = "init"
    BY <1>0, <1>2, <2>1, <2>2, InitColumnEffect
  <2>4. ASSUME BindThrough(c, i) PROVE FALSE
    <3>1. st[c] = "returned" /\ rel[T][i] # Nil
      BY <2>1, <2>4 DEF BindThrough
    <3> QED
      BY <1>0, <2>1, <2>3, <3>1 DEF Waiting, Waits, Awaits
  <2>5. ~InitRelation(c, i)
    BY <1>0, <2>1, <2>3 DEF InitRelation, Fail, Goto
  <2>6. ~BindKeyless(c, i)
    BY <1>0, <2>1, <2>3 DEF BindKeyless, Fail, Goto
  <2>7. BindOne(c, i)
    BY <1>0, <2>1, <2>2, <2>3, <2>4, <2>5, <2>6
       DEF InitColumn, InitPlain, BindOneToMany, BindManyToMany
  <2> QED
    BY <1>0, <2>1, <2>3, <2>7 DEF BindOne, NeedsKey
<1> QED
  BY <1>1, <1>2

KInv == IInv /\ KeyedTargets

LEMMA KInvAlways == Spec => []KInv
<1>1. Init => KInv
  BY IInvInit DEF Init, KInv, KeyedTargets
<1>2. KInv /\ [Next]_vars => KInv'
  BY IInvStep, KeyedTargetsStep DEF KInv
<1> QED
  BY <1>1, <1>2, PTL DEF Spec

(* The invariant of a walk from key to key beside the declared one: it is  *)
(* where the tags say, or stuck in a table that its call has not finished. *)
Stuck(at) ==
  Refers(at) /\ ~Passable(at) /\ ~Finished(at[1]) /\ st[at[1][1]] # "done"

Abreast(at, d) ==
  /\ at \in Spots /\ at[2] # 0 /\ at[2] \in Cols(at[1][2])
  /\ at[1][2] \in x[at[1][1]]
  /\ <<at[1][2], at[2]>> = d \/ Stuck(at)

LEMMA SpotFacts ==
  ASSUME NEW at \in Spots, at[2] \in Cols(at[1][2])
  PROVE  /\ at = <<at[1], at[2]>> /\ at[1] \in Tables /\ at[1][1] \in Calls
         /\ at[1][2] \in Types /\ at[2] \in 1..MaxCols
<1>1. at = <<at[1], at[2]>> /\ at[1] \in Tables
  BY DEF Spots
<1> QED
  BY <1>1, SchemaFacts DEF Tables

LEMMA FollowType ==
  ASSUME TypeInv
  PROVE  /\ [spot \in Spots |-> Follow(spot)] \in [Spots -> Spots]
         /\ [spot \in DeclaredSpots |-> DeclaredFollow(spot)] \in [DeclaredSpots -> DeclaredSpots]
<1>1. ASSUME NEW at \in Spots PROVE Follow(at) \in Spots
  <2>1. at[1] \in Tables /\ at[2] \in 0..MaxCols
    BY DEF Spots
  <2>2. CASE Refers(at) /\ Passable(at)
    <3>1. at[2] \in 1..MaxCols
      BY <2>2, SpotFacts DEF Refers
    <3>2. PICK U \in Tables : U = rel[at[1]][at[2]]
      <4>0. rel \in [Tables -> [1..MaxCols -> Tables \cup {Nil}]]
        BY DEF TypeInv, TypeOK
      <4>1. rel[at[1]][at[2]] \in Tables \cup {Nil}
        BY <2>1, <3>1, <4>0
      <4>2. rel[at[1]][at[2]] # Nil
        BY <2>2 DEF Passable
      <4> QED
        BY <4>1, <4>2
    <3>3. Key(U[2]) \in 0..MaxCols
      BY SchemaFacts DEF Tables
    <3> QED
      BY <2>2, <3>2, <3>3 DEF Follow, Spots
  <2>3. CASE ~(Refers(at) /\ Passable(at))
    BY <2>3 DEF Follow
  <2> QED
    BY <2>2, <2>3
<1>2. ASSUME NEW d \in DeclaredSpots PROVE DeclaredFollow(d) \in DeclaredSpots
  <2>1. d[1] \in Types /\ d[2] \in 0..MaxCols
    BY DEF DeclaredSpots
  <2>2. CASE ~DeclaredRefers(d)
    BY <2>2 DEF DeclaredFollow
  <2>3. CASE DeclaredRefers(d)
    <3>1. PICK u \in Types : u = Column(d[1], d[2]).target
      BY <2>1, <2>3, SchemaFacts DEF DeclaredRefers, OneRelation
    <3>2. Key(u) \in 0..MaxCols
      BY SchemaFacts
    <3> QED
      BY <2>3, <3>1, <3>2 DEF DeclaredFollow, DeclaredSpots
  <2> QED
    BY <2>2, <2>3
<1> QED
  BY <1>1, <1>2

(* Following both by one column keeps them abreast.                        *)
LEMMA AbreastStep ==
  ASSUME KInv, NEW at, NEW d, Abreast(at, d)
  PROVE  Abreast(Follow(at), DeclaredFollow(d))
<1>0. /\ TypeInv /\ Handed /\ Filled /\ Full /\ Outside /\ KeyedTargets
      /\ rel \in [Tables -> [1..MaxCols -> Tables \cup {Nil}]]
  BY DEF KInv, IInv, TypeInv, TypeOK
<1>1. /\ at \in Spots /\ at[2] \in Cols(at[1][2]) /\ at[1][2] \in x[at[1][1]]
      /\ at = <<at[1], at[2]>> /\ at[1] \in Tables /\ at[1][1] \in Calls
      /\ at[1][2] \in Types /\ at[2] \in 1..MaxCols
  BY SpotFacts DEF Abreast
<1>2. CASE Stuck(at)
  <2>1. Follow(at) = at
    BY <1>2 DEF Stuck, Follow
  <2> QED
    BY <1>2, <2>1 DEF Abreast
<1>3. CASE <<at[1][2], at[2]>> = d /\ ~Refers(at)
  <2>1. Follow(at) = at /\ ~DeclaredRefers(d)
    BY <1>3 DEF Follow, Refers, DeclaredRefers
  <2> QED
    BY <1>3, <2>1 DEF Abreast, DeclaredFollow
<1>4. CASE <<at[1][2], at[2]>> = d /\ Refers(at) /\ ~Passable(at)
  <2>1. Follow(at) = at
    BY <1>4 DEF Follow
  <2>2. ~Finished(at[1])
    <3> SUFFICES ASSUME Finished(at[1]) PROVE FALSE
      OBVIOUS
    <3>1. at[2] \in inited[at[1]]
      BY <1>0, <1>1 DEF Full
    <3>2. Column(at[1][2], at[2]).kind # "plain" /\ Column(at[1][2], at[2]).kind \in OneRelation
      BY <1>4 DEF Refers, OneRelation
    <3>3. /\ rel[at[1]][at[2]] # Nil
          /\ rel[at[1]][at[2]][2] = Column(at[1][2], at[2]).target
      BY <1>0, <1>1, <3>1, <3>2 DEF Filled
    <3>4. Key(Column(at[1][2], at[2]).target) # 0
      BY <1>0, <1>1, <3>1, <3>2 DEF KeyedTargets
    <3> QED
      BY <1>4, <3>3, <3>4 DEF Passable
  <2>3. st[at[1][1]] # "done"
    <3>1. PICK k \in 1..Len(stack[at[1][1]]) : stack[at[1][1]][k] = at[1][2]
      BY <1>1, <2>2 DEF Finished, OnStack
    <3>2. stack[at[1][1]] # <<>>
      BY <3>1
    <3> QED
      BY <1>0, <1>1, <3>2 DEF Outside
  <2> QED
    BY <1>1, <1>4, <2>1, <2>2, <2>3 DEF Abreast, Stuck
<1>5. CASE <<at[1][2], at[2]>> = d /\ Refers(at) /\ Passable(at)
  <2>1. PICK U \in Tables : U = rel[at[1]][at[2]] /\ U # Nil
    BY <1>0, <1>1, <1>5 DEF Passable
  <2>2. Follow(at) = <<U, Key(U[2])>> /\ Key(U[2]) # 0
    BY <1>5, <2>1 DEF Follow, Passable
  <2>3. U[2] = Column(at[1][2], at[2]).target
    BY <1>0, <1>1, <2>1 DEF Filled
  <2>4. DeclaredFollow(d) = <<U[2], Key(U[2])>>
    BY <1>5, <2>3 DEF DeclaredFollow, DeclaredRefers, Refers
  <2>5. Key(U[2]) \in Cols(U[2]) /\ Key(U[2]) \in 0..MaxCols
    BY <2>2, SchemaFacts DEF Tables
  <2>6. U[2] \in x[U[1]]
    <3>1. U \in Links(at[1])
      BY <1>1, <2>1 DEF Links
    <3> QED
      BY <1>0, <1>1, <3>1 DEF Handed, Shareable
  <2> QED
    BY <2>2, <2>4, <2>5, <2>6 DEF Abreast, Spots
<1> QED
  BY <1>2, <1>3, <1>4, <1>5 DEF Abreast

(* For every schema, whatever its keys refer to: the readers of a          *)
(* published table arrive where the struct tags lead, at a plain key if    *)
(* any is there, over tables that all have keys; only the tables of a call *)
(* that still runs, or has failed, can stop them halfway.                  *)
THEOREM ReadersFollowTheTags ==
  ASSUME IsFiniteSet(Types)
  PROVE  Spec => []KeyChainsAsDeclared
<1>1. ASSUME KInv PROVE KeyChainsAsDeclared
  <2> SUFFICES ASSUME NEW at \in Starts
               PROVE  LET end == KeyChainEnd(at)
                          U   == end[1]
                      IN  \/ end[2] # 0 /\ <<U[2], end[2]>> = DeclaredEnd(<<at[1][2], at[2]>>)
                          \/ Refers(end) /\ ~Passable(end) /\ ~Finished(U) /\ st[U[1]] # "done"
    BY DEF KeyChainsAsDeclared
  <2> DEFINE N    == Cardinality(Types)
             d    == <<at[1][2], at[2]>>
             walk == [spot \in Spots |-> Follow(spot)]
             path == [spot \in DeclaredSpots |-> DeclaredFollow(spot)]
  <2>1. /\ at \in Spots /\ at[2] \in Cols(at[1][2]) /\ at[1][2] \in x[at[1][1]]
        /\ at[1][2] \in Types /\ at[2] \in 1..MaxCols /\ N \in Nat
    <3>1. at \in Spots /\ at[2] \in Cols(at[1][2]) /\ tables[at[1][2]] = at[1]
      BY DEF Starts, Refers
    <3>2. at[1] \in Tables /\ at[1][2] \in Types /\ at[2] \in 1..MaxCols /\ at[1] # Nil
      BY <3>1, SpotFacts, SchemaAssumption DEF Tables
    <3>3. Finished(at[1])
      BY <1>1, <3>1, <3>2 DEF KInv, IInv, Published
    <3> QED
      BY <3>1, <3>2, <3>3, FS_CardinalityType DEF Finished
  <2>2. d \in DeclaredSpots /\ Abreast(at, d)
    BY <2>1 DEF DeclaredSpots, Abreast
  <2>3. walk \in [Spots -> Spots] /\ path \in [DeclaredSpots -> DeclaredSpots]
    BY <1>1, FollowType DEF KInv, IInv
  <2>4. PICK f : Iterated(Spots, walk, at, N, f) /\ KeyChainEnd(at) = f[N]
    <3> HIDE DEF walk
    <3>1. \E f : Iterated(Spots, walk, at, N, f) /\ Arrive(walk, at) = f[N]
      BY <2>1, <2>3, Arrival
    <3> QED
      BY <3>1 DEF walk, KeyChainEnd
  <2>5. PICK g : Iterated(DeclaredSpots, path, d, N, g) /\ DeclaredEnd(d) = g[N]
    <3> HIDE DEF path, d
    <3>1. \E g : Iterated(DeclaredSpots, path, d, N, g) /\ Arrive(path, d) = g[N]
      BY <2>2, <2>3, Arrival
    <3> QED
      BY <3>1 DEF path, DeclaredEnd
  <2> DEFINE Along == {n \in Nat : n <= N => Abreast(f[n], g[n])}
  <2>6. 0 \in Along
    BY <2>2, <2>4, <2>5 DEF Iterated
  <2>7. ASSUME NEW n \in Nat, n \in Along PROVE n + 1 \in Along
    <3>1. ASSUME n + 1 <= N PROVE Abreast(f[n + 1], g[n + 1])
      <4>1. n + 1 \in 1..N /\ n \in 0..N /\ (n + 1) - 1 = n /\ Abreast(f[n], g[n])
        BY <2>1, <2>7, <3>1
      <4>2. f[n + 1] = walk[f[n]] /\ g[n + 1] = path[g[n]] /\ f[n] \in Spots /\ g[n] \in DeclaredSpots
        <5> HIDE DEF N, walk, path, d
        <5> QED
          BY <2>4, <2>5, <4>1 DEF Iterated
      <4>3. f[n + 1] = Follow(f[n]) /\ g[n + 1] = DeclaredFollow(g[n])
        BY <4>2
      <4> QED
        BY <1>1, <4>1, <4>3, AbreastStep
    <3> HIDE DEF N
    <3> QED
      BY <3>1
  <2>8. Abreast(f[N], g[N])
    <3>1. Nat \subseteq Along
      <4> HIDE DEF Along
      <4> QED
        BY <2>6, <2>7, Induction
    <3> HIDE DEF N
    <3> QED
      BY <2>1, <3>1
  <2> HIDE DEF N
  <2> QED
    BY <2>4, <2>5, <2>8 DEF Abreast, Stuck
<1> QED
  BY <1>1, KInvAlways, PTL
=============================================================================
