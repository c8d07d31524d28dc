-------------------------- MODULE ManyToManyProofs --------------------------
(***************************************************************************)
(* Proofs about ManyToMany, for every number of sessions, objects and      *)
(* arguments, with and without transactions and a unique key.              *)
(***************************************************************************)
EXTENDS ManyToMany, FiniteSetTheorems, SequenceTheorems, TLAPS

-----------------------------------------------------------------------------
(* The inductive invariant.                                                *)

(* The statements and the endings of each operation.                       *)
Fits(q, s) ==
  \/ s = "empty" /\ q.op \in {"Set", "Empty"}
  \/ s = "insert" /\ q.op \in {"Set", "Add"}
  \/ s = "remove" /\ q.op = "Remove"
  \/ s = "count" /\ q.op = "Has"
  \/ s = "ok" /\ q.op # "Has"
  \/ s \in {"true", "false"} /\ q.op = "Has"
  \/ s = "error"

Begun(m) ==
  pc[m] # "idle" =>
    /\ Fits(request[m], pc[m])
    /\ pc[m] # "error" => Valid(request[m])

(* In transactions only the session whose transaction is open is between   *)
(* its statements; nobody else has written since it began, and it has      *)
(* written only the rows of its object.                                    *)
Serial ==
  /\ ~InTx => tx = None
  /\ InTx => \A m \in Sessions : pc[m] \in Statements => tx = m
  /\ tx # None =>
       /\ pc[tx] # "idle"
       /\ saved = before[tx]
       /\ alone[tx]
       /\ \A p \in Pairs : p[1] # request[tx].left => join[p] = saved[p]

(* The unique key, now and after a rollback.                               *)
Unique ==
  UniqueKey => \A p \in Pairs : join[p] <= 1 /\ saved[p] <= 1

(* How far a session is, when nobody else has written since it began.      *)
Cleared(q, old) == Result([q EXCEPT !.op = "Empty"], old)

Progress(m) ==
  LET q == request[m]
      old == before[m]
  IN  /\ pc[m] \in {"empty", "remove", "count"} => join = old
      /\ pc[m] = "insert" => join = IF q.op = "Set" THEN Cleared(q, old) ELSE old
      /\ pc[m] = "ok" => join = Result(q, old)
      /\ pc[m] \in {"true", "false"} =>
           join = old /\ (pc[m] = "true" <=> Has(q))
      /\ pc[m] = "error" =>
           \/ join = old
           \/ join = Result(q, old) /\ ~Reliable /\ Valid(q)
           \/ join = Cleared(q, old) /\ q.op = "Set" /\ Valid(q)

(* When only Sets ran on an object and none failed: from the first DELETE  *)
(* on, nothing is there that no finished Set listed, and unless one is     *)
(* about to insert, the pairs of one that finished are all there.          *)
OnlySets(l) == \A m \in On(l) : request[m].op = "Set" /\ pc[m] # "error"
SomeEmptied(l) == \E m \in On(l) : pc[m] \in {"insert", "ok"}
Mixed(l) ==
  /\ \A r \in Related(l) : \E m \in On(l) : pc[m] = "ok" /\ r \in Listed(request[m])
  /\ \E m \in On(l) :
       \/ pc[m] = "insert"
       \/ pc[m] = "ok" /\ Listed(request[m]) \subseteq Related(l)

IInv ==
  /\ TypeOK
  /\ Serial
  /\ Unique
  /\ \A m \in Sessions : Begun(m) /\ (alone[m] => Progress(m))
  /\ \A l \in Lefts : OnlySets(l) /\ SomeEmptied(l) => Mixed(l)

-----------------------------------------------------------------------------
(* The arguments of a request, and what its statements do to the rows.     *)
LEMMA RequestFacts ==
  ASSUME NEW q \in Requests
  PROVE  /\ q.op \in Ops /\ q.left \in Lefts
         /\ q.data \in Seq(Rights \cup {Bad}) /\ Len(q.data) \in Nat
         /\ q.op = "Has" => Len(q.data) = 1
         /\ q = [op |-> q.op, left |-> q.left, data |-> q.data]
<1>1. /\ q \in [op : Ops, left : Lefts, data : ArgLists]
      /\ q.op = "Has" => Len(q.data) = 1
  BY DEF Requests
<1>2. q.data \in Seq(Rights \cup {Bad})
  BY <1>1, ArgListsAssumption
<1> QED
  BY <1>1, <1>2, LenProperties

LEMMA OccursFacts ==
  ASSUME NEW q \in Requests, NEW r
  PROVE  /\ Occurs(q, r) \in Nat
         /\ Occurs(q, r) > 0 <=> r \in Listed(q)
<1> DEFINE K == {k \in 1..Len(q.data) : q.data[k] = r}
<1>1. IsFiniteSet(1..Len(q.data))
  <2>1. 1 \in Int /\ Len(q.data) \in Int
    BY RequestFacts
  <2> QED
    BY <2>1, FS_Interval
<1>2. IsFiniteSet(K)
  BY <1>1, FS_Subset
<1>3. Cardinality(K) \in Nat /\ (Cardinality(K) = 0 <=> K = {})
  BY <1>2, FS_CardinalityType, FS_EmptySet
<1>4. K # {} <=> r \in Listed(q)
  BY DEF Listed
<1> QED
  BY <1>3, <1>4 DEF Occurs

LEMMA ValidListed ==
  ASSUME NEW q \in Requests, Valid(q)
  PROVE  Listed(q) \subseteq Rights
  BY DEF Valid, Listed

LEMMA RowsTypes ==
  ASSUME join \in [Pairs -> Nat], NEW q \in Requests
  PROVE  /\ Emptied(q) \in [Pairs -> Nat]
         /\ Removed(q) \in [Pairs -> Nat]
         /\ Inserted(q) \in [Pairs -> Nat]
<1>1. \A p \in Pairs : Occurs(q, p[2]) \in Nat /\ join[p] \in Nat
  BY OccursFacts
<1>2. \A p \in Pairs : join[p] + Occurs(q, p[2]) \in Nat
  BY <1>1
<1> QED
  BY <1>1, <1>2 DEF Emptied, Removed, Inserted

LEMMA OtherRows ==
  ASSUME NEW q, NEW p \in Pairs, p[1] # q.left
  PROVE  Emptied(q)[p] = join[p] /\ Removed(q)[p] = join[p] /\ Inserted(q)[p] = join[p]
  BY DEF Emptied, Removed, Inserted

LEMMA ClearedRows ==
  ASSUME NEW q \in Requests, NEW old
  PROVE  Cleared(q, old) = [p \in Pairs |-> IF p[1] = q.left THEN 0 ELSE old[p]]
<1> DEFINE e == [q EXCEPT !.op = "Empty"]
<1>1. e.op = "Empty" /\ e.left = q.left /\ e.data = q.data
  BY RequestFacts
<1>2. Result(e, old) = [p \in Pairs |-> IF p[1] = q.left THEN 0 ELSE old[p]]
  BY <1>1 DEF Result
<1> QED
  BY <1>2 DEF Cleared

(* Each statement carries out its part of what was asked for.              *)
LEMMA StatementResults ==
  ASSUME NEW q \in Requests, NEW old \in [Pairs -> Nat]
  PROVE  /\ join = old /\ q.op \in {"Set", "Empty"} => Emptied(q) = Cleared(q, old)
         /\ join = old /\ q.op = "Empty" => Emptied(q) = Result(q, old)
         /\ join = old /\ q.op = "Remove" => Removed(q) = Result(q, old)
         /\ join = old /\ q.op = "Add" => Inserted(q) = Result(q, old)
         /\ join = Cleared(q, old) /\ q.op = "Set" => Inserted(q) = Result(q, old)
<1>1. Cleared(q, old) = [p \in Pairs |-> IF p[1] = q.left THEN 0 ELSE old[p]]
  BY ClearedRows
<1>2. ASSUME join = old
      PROVE  Emptied(q) = Cleared(q, old)
  BY <1>1, <1>2 DEF Emptied
<1>3. ASSUME join = old, q.op = "Empty"
      PROVE  Emptied(q) = Result(q, old)
  BY <1>3 DEF Emptied, Result
<1>4. ASSUME join = old, q.op = "Remove"
      PROVE  Removed(q) = Result(q, old)
  BY <1>4 DEF Removed, Result
<1>5. ASSUME join = old, q.op = "Add"
      PROVE  Inserted(q) = Result(q, old)
  BY <1>5 DEF Inserted, Result
<1>6. ASSUME join = Cleared(q, old), q.op = "Set"
      PROVE  Inserted(q) = Result(q, old)
  <2>1. \A p \in Pairs : Occurs(q, p[2]) \in Nat
    BY OccursFacts
  <2>2. \A p \in Pairs : join[p] = IF p[1] = q.left THEN 0 ELSE old[p]
    BY <1>1, <1>6
  <2>3. \A p \in Pairs : p[1] = q.left => join[p] + Occurs(q, p[2]) = Occurs(q, p[2])
    BY <2>1, <2>2
  <2>4. Result(q, old) = [p \in Pairs |-> IF p[1] = q.left THEN Occurs(q, p[2]) ELSE old[p]]
    BY <1>6 DEF Result
  <2>5. Inserted(q) = [p \in Pairs |-> IF p[1] = q.left THEN Occurs(q, p[2]) ELSE old[p]]
    BY <2>2, <2>3 DEF Inserted
  <2> QED
    BY <2>4, <2>5
<1> QED
  BY <1>2, <1>3, <1>4, <1>5, <1>6

-----------------------------------------------------------------------------
(* A statement of session m that leaves "rows" and goes on to "next".      *)
LEMMA StatementStep ==
  ASSUME IInv, NEW m \in Sessions, pc[m] \in Statements, MayRun(m),
         NEW rows \in [Pairs -> Nat],
         \A p \in Pairs : p[1] # request[m].left => rows[p] = join[p],
         UniqueKey => \A p \in Pairs : rows[p] <= 1,
         NEW next \in Statements \cup Ended,
         join' = rows,
         alone' = [n \in Sessions |-> alone[n] /\ (n = m \/ join' = join)],
         pc' = [pc EXCEPT ![m] = next],
         tx' = tx, saved' = saved, request' = request, before' = before,
         Begun(m)',
         alone[m] => Progress(m)',
         LET l == request[m].left IN OnlySets(l)' /\ SomeEmptied(l)' => Mixed(l)'
  PROVE  IInv'
<1>1. TypeOK /\ Serial /\ Unique
  BY DEF IInv
<1>2. TypeOK'
  <2>1. alone' \in [Sessions -> BOOLEAN]
    OBVIOUS
  <2>2. pc' \in [Sessions -> {"idle"} \cup Statements \cup Ended]
    BY <1>1 DEF TypeOK
  <2>3. \A n \in Sessions : pc'[n] # "idle" => request'[n] # None
    BY <1>1 DEF TypeOK, Statements
  <2> QED
    BY <1>1, <2>1, <2>2, <2>3 DEF TypeOK
<1>3. Serial'
  <2>1. ~InTx => tx' = None
    BY <1>1 DEF Serial
  <2>2. ASSUME InTx, NEW n \in Sessions, pc'[n] \in Statements
        PROVE  tx' = n
    BY <1>1, <2>2 DEF Serial, TypeOK
  <2>3. ASSUME tx' # None
        PROVE  /\ pc'[tx'] # "idle"
               /\ saved' = before'[tx']
               /\ alone'[tx']
               /\ \A p \in Pairs : p[1] # request'[tx'].left => join'[p] = saved'[p]
    <3>1. tx = m
      BY <1>1, <2>3 DEF Serial, MayRun
    <3>2. /\ saved = before[m] /\ alone[m]
          /\ \A p \in Pairs : p[1] # request[m].left => join[p] = saved[p]
      BY <1>1, <2>3, <3>1 DEF Serial
    <3>3. pc'[m] = next /\ next # "idle" /\ alone'[m]
      BY <1>1, <3>2 DEF TypeOK, Statements, Ended
    <3> QED
      BY <3>1, <3>2, <3>3
  <2> QED
    BY <2>1, <2>2, <2>3 DEF Serial
<1>4. Unique'
  BY <1>1 DEF Unique
<1>5. ASSUME NEW n \in Sessions
      PROVE  Begun(n)' /\ (alone'[n] => Progress(n)')
  <2>1. CASE n = m
    BY <2>1
  <2>2. CASE n # m
    <3>1. pc'[n] = pc[n] /\ request'[n] = request[n] /\ before'[n] = before[n]
      BY <1>1, <2>2 DEF TypeOK
    <3>2. Begun(n) /\ (alone[n] => Progress(n))
      BY DEF IInv
    <3>3. Begun(n)'
      BY <3>1, <3>2 DEF Begun, Valid, Fits
    <3>4. ASSUME alone'[n] PROVE Progress(n)'
      <4>1. alone[n] /\ join' = join
        BY <2>2, <3>4
      <4>2. Progress(n)
        BY <3>2, <4>1
      <4> QED
        BY <3>1, <4>1, <4>2 DEF Progress, Has
    <3> QED
      BY <3>3, <3>4
  <2> QED
    BY <2>1, <2>2
<1>6. ASSUME NEW l \in Lefts, OnlySets(l)', SomeEmptied(l)'
      PROVE  Mixed(l)'
  <2>1. CASE l = request[m].left
    BY <1>6, <2>1
  <2>2. CASE l # request[m].left
    <3>1. \A n \in Sessions : n # m => pc'[n] = pc[n]
      BY <1>1 DEF TypeOK
    <3>2. On(l)' = On(l) /\ m \notin On(l)
      BY <2>2, <3>1 DEF On
    <3>3. Related(l)' = Related(l)
      <4>1. \A r \in Rights : join'[<<l, r>>] = join[<<l, r>>]
        BY <2>2 DEF Pairs
      <4> QED
        BY <4>1 DEF Related
    <3>4. \A n \in On(l) : n \in Sessions /\ n # m
      BY <3>2 DEF On
    <3>5. OnlySets(l) /\ SomeEmptied(l)
      BY <1>6, <3>1, <3>2, <3>4 DEF OnlySets, SomeEmptied
    <3>6. Mixed(l)
      BY <3>5 DEF IInv
    <3> QED
      BY <3>1, <3>2, <3>3, <3>4, <3>6 DEF Mixed, Listed
  <2> QED
    BY <2>1, <2>2
<1> QED
  BY <1>2, <1>3, <1>4, <1>5, <1>6 DEF IInv

-----------------------------------------------------------------------------
(* One lemma for each action.  First what is known before a statement.     *)
LEMMA BeforeStatement ==
  ASSUME IInv, NEW m \in Sessions, pc[m] \in Statements
  PROVE  /\ join \in [Pairs -> Nat] /\ before[m] \in [Pairs -> Nat]
         /\ pc \in [Sessions -> {"idle"} \cup Statements \cup Ended]
         /\ request[m] \in Requests /\ request[m].left \in Lefts
         /\ Fits(request[m], pc[m]) /\ Valid(request[m])
         /\ alone[m] => Progress(m)
         /\ UniqueKey => \A p \in Pairs : join[p] <= 1
<1>1. TypeOK /\ Begun(m) /\ Unique /\ (alone[m] => Progress(m))
  BY DEF IInv
<1>2. pc[m] # "idle" /\ pc[m] # "error"
  BY DEF Statements
<1>3. request[m] \in Requests
  BY <1>1, <1>2 DEF TypeOK
<1>4. Fits(request[m], pc[m]) /\ Valid(request[m])
  BY <1>1, <1>2 DEF Begun
<1> QED
  BY <1>1, <1>3, <1>4, RequestFacts DEF TypeOK, Unique

(* A session whose operation is no Set, or has failed, leaves no object of *)
(* which only Sets are known.                                              *)
LEMMA NotOnlySets ==
  ASSUME NEW m \in Sessions, NEW l, request'[m].left = l, pc'[m] # "idle",
         request'[m].op # "Set" \/ pc'[m] = "error"
  PROVE  ~OnlySets(l)'
<1>1. m \in On(l)'
  BY DEF On
<1> QED
  BY <1>1 DEF OnlySets

LEMMA EmptyStep ==
  ASSUME IInv, NEW m \in Sessions, Empty(m)
  PROVE  IInv'
<1> DEFINE q == request[m]
           next == IF q.op = "Set" THEN "insert" ELSE "ok"
<1>1. /\ pc[m] = "empty" /\ MayRun(m)
      /\ join' = Emptied(q)
      /\ alone' = [n \in Sessions |-> alone[n] /\ (n = m \/ join' = join)]
      /\ pc' = [pc EXCEPT ![m] = next]
      /\ tx' = tx /\ saved' = saved /\ request' = request /\ before' = before
  BY DEF Empty, Statement, Write, Goto
<1>2. /\ join \in [Pairs -> Nat] /\ before[m] \in [Pairs -> Nat]
      /\ pc \in [Sessions -> {"idle"} \cup Statements \cup Ended]
      /\ q \in Requests /\ q.left \in Lefts
      /\ Fits(q, "empty") /\ Valid(q)
      /\ alone[m] => Progress(m)
      /\ UniqueKey => \A p \in Pairs : join[p] <= 1
      /\ pc[m] \in Statements
  BY <1>1, BeforeStatement DEF Statements
<1>3. pc'[m] = next /\ next \in Statements \cup Ended
  BY <1>1, <1>2 DEF Statements, Ended
<1>4. q.op \in {"Set", "Empty"}
  BY <1>2 DEF Fits
<1>5. Begun(m)'
  BY <1>1, <1>2, <1>3, <1>4 DEF Begun, Fits
<1>6. ASSUME alone[m] PROVE Progress(m)'
  <2>1. join = before[m]
    BY <1>1, <1>2, <1>6 DEF Progress
  <2>2. /\ q.op = "Set" => join' = Cleared(q, before[m])
        /\ q.op = "Empty" => join' = Result(q, before[m])
    BY <1>1, <1>2, <2>1, StatementResults
  <2> QED
    BY <1>1, <1>3, <1>4, <2>2 DEF Progress
<1>7. /\ Emptied(q) \in [Pairs -> Nat]
      /\ \A p \in Pairs : p[1] # q.left => Emptied(q)[p] = join[p]
      /\ UniqueKey => \A p \in Pairs : Emptied(q)[p] <= 1
  <2>1. \A p \in Pairs : Emptied(q)[p] = IF p[1] = q.left THEN 0 ELSE join[p]
    BY DEF Emptied
  <2> QED
    BY <1>2, <2>1, RowsTypes
<1>8. ASSUME OnlySets(q.left)' PROVE Mixed(q.left)'
  <2>1. q.op = "Set"
    <3>1. pc'[m] # "idle" /\ request'[m] = q
      BY <1>1, <1>3
    <3> QED
      BY <1>1, <1>8, <3>1, NotOnlySets
  <2>2. pc'[m] = "insert" /\ m \in On(q.left)'
    BY <1>1, <1>3, <2>1 DEF On
  <2>3. \A r \in Rights : join'[<<q.left, r>>] = 0
    BY <1>1, <1>2 DEF Emptied, Pairs
  <2>4. Related(q.left)' = {}
    BY <1>1, <2>3 DEF Related
  <2> QED
    BY <1>1, <2>2, <2>4 DEF Mixed
<1> HIDE DEF q, next
<1> QED
  BY <1>1, <1>2, <1>3, <1>5, <1>6, <1>7, <1>8, StatementStep DEF q

LEMMA InsertStep ==
  ASSUME IInv, NEW m \in Sessions, Insert(m)
  PROVE  IInv'
<1> DEFINE q == request[m]
<1>1. /\ pc[m] = "insert" /\ MayRun(m) /\ ~Refused(q, "insert")
      /\ join' = Inserted(q)
      /\ alone' = [n \in Sessions |-> alone[n] /\ (n = m \/ join' = join)]
      /\ pc' = [pc EXCEPT ![m] = "ok"]
      /\ tx' = tx /\ saved' = saved /\ request' = request /\ before' = before
  BY DEF Insert, Statement, Write, Goto
<1>2. /\ join \in [Pairs -> Nat] /\ before[m] \in [Pairs -> Nat]
      /\ pc \in [Sessions -> {"idle"} \cup Statements \cup Ended]
      /\ q \in Requests /\ q.left \in Lefts
      /\ Fits(q, "insert") /\ Valid(q)
      /\ alone[m] => Progress(m)
      /\ pc[m] \in Statements
  BY <1>1, BeforeStatement DEF Statements
<1>3. pc'[m] = "ok"
  BY <1>1, <1>2
<1>4. q.op \in {"Set", "Add"}
  BY <1>2 DEF Fits
<1>5. Begun(m)'
  BY <1>1, <1>2, <1>3, <1>4 DEF Begun, Fits
<1>6. ASSUME alone[m] PROVE Progress(m)'
  <2>1. join = IF q.op = "Set" THEN Cleared(q, before[m]) ELSE before[m]
    BY <1>1, <1>2, <1>6 DEF Progress
  <2>2. join' = Result(q, before[m])
    BY <1>1, <1>2, <1>4, <2>1, StatementResults
  <2> QED
    BY <1>1, <1>3, <2>2 DEF Progress
<1>7. /\ Inserted(q) \in [Pairs -> Nat]
      /\ \A p \in Pairs : p[1] # q.left => Inserted(q)[p] = join[p]
  BY <1>2, RowsTypes, OtherRows
<1>8. UniqueKey => \A p \in Pairs : Inserted(q)[p] <= 1
  <2>1. UniqueKey => \A p \in Pairs : ~(Inserted(q)[p] > 1)
    BY <1>1 DEF Refused
  <2>2. \A p \in Pairs : Inserted(q)[p] \in Nat
    BY <1>7
  <2> HIDE DEF q
  <2> QED
    BY <2>1, <2>2
<1>9. ASSUME OnlySets(q.left)' PROVE Mixed(q.left)'
  <2>1. q.op = "Set"
    <3>1. pc'[m] # "idle" /\ request'[m] = q
      BY <1>1, <1>3
    <3> QED
      BY <1>1, <1>9, <3>1, NotOnlySets
  <2>2. /\ \A n \in Sessions : n # m => pc'[n] = pc[n]
        /\ On(q.left)' = On(q.left) /\ m \in On(q.left)
    BY <1>1, <1>2, <1>3 DEF On
  <2>3. OnlySets(q.left) /\ SomeEmptied(q.left)
    <3>1. \A n \in On(q.left) : n \in Sessions
      BY DEF On
    <3> QED
      BY <1>1, <1>9, <2>1, <2>2, <3>1 DEF OnlySets, SomeEmptied
  <2>4. Mixed(q.left)
    BY <1>2, <2>3 DEF IInv
  <2>5. \A r \in Rights :
          join'[<<q.left, r>>] > 0 <=> r \in Related(q.left) \/ r \in Listed(q)
    <3>1. ASSUME NEW r \in Rights
          PROVE  join'[<<q.left, r>>] > 0 <=> r \in Related(q.left) \/ r \in Listed(q)
      <4>1. <<q.left, r>> \in Pairs
        BY <1>2 DEF Pairs
      <4>2. join'[<<q.left, r>>] = join[<<q.left, r>>] + Occurs(q, r)
        BY <1>1, <4>1 DEF Inserted
      <4>3. join[<<q.left, r>>] \in Nat /\ Occurs(q, r) \in Nat
        BY <1>2, <4>1, OccursFacts
      <4>4. join[<<q.left, r>>] + Occurs(q, r) > 0
              <=> join[<<q.left, r>>] > 0 \/ Occurs(q, r) > 0
        BY <4>3
      <4>5. Occurs(q, r) > 0 <=> r \in Listed(q)
        BY <1>2, OccursFacts
      <4> QED
        BY <4>2, <4>4, <4>5 DEF Related
    <3> QED
      BY <3>1
  <2>6. Related(q.left)' = Related(q.left) \cup Listed(q)
    BY <1>1, <1>2, <2>5, ValidListed DEF Related
  <2>7. \A r \in Related(q.left)' :
          \E n \in On(q.left) : pc'[n] = "ok" /\ r \in Listed(request[n])
    <3>1. ASSUME NEW r \in Related(q.left)
          PROVE  \E n \in On(q.left) : pc'[n] = "ok" /\ r \in Listed(request[n])
      <4>1. PICK n \in On(q.left) : pc[n] = "ok" /\ r \in Listed(request[n])
        BY <2>4, <3>1 DEF Mixed
      <4>2. n \in Sessions
        BY DEF On
      <4> QED
        BY <1>1, <2>2, <4>1, <4>2
    <3> QED
      BY <1>3, <2>2, <2>6, <3>1
  <2>8. \E n \in On(q.left) : pc'[n] = "ok" /\ Listed(request[n]) \subseteq Related(q.left)'
    BY <1>3, <2>2, <2>6
  <2> QED
    BY <1>1, <2>2, <2>7, <2>8 DEF Mixed
<1> HIDE DEF q
<1>10. "ok" \in Statements \cup Ended
  BY DEF Ended
<1> QED
  BY <1>1, <1>2, <1>5, <1>6, <1>7, <1>8, <1>9, <1>10, StatementStep DEF q

(* A statement after which only Sets are not the case.                     *)
LEMMA LastStatementStep ==
  ASSUME IInv, NEW m \in Sessions, pc[m] \in Statements, MayRun(m),
         NEW rows \in [Pairs -> Nat],
         \A p \in Pairs : p[1] # request[m].left => rows[p] = join[p],
         UniqueKey => \A p \in Pairs : rows[p] <= 1,
         NEW next \in Ended,
         join' = rows,
         alone' = [n \in Sessions |-> alone[n] /\ (n = m \/ join' = join)],
         pc' = [pc EXCEPT ![m] = next],
         tx' = tx, saved' = saved, request' = request, before' = before,
         Fits(request[m], next),
         alone[m] => Progress(m)',
         request[m].op # "Set" \/ next = "error"
  PROVE  IInv'
<1>1. /\ pc \in [Sessions -> {"idle"} \cup Statements \cup Ended]
      /\ Valid(request[m])
  BY BeforeStatement
<1>2. pc'[m] = next /\ next # "idle" /\ request'[m] = request[m]
  BY <1>1 DEF Ended
<1>3. Begun(m)'
  BY <1>1, <1>2 DEF Begun
<1>4. LET l == request[m].left IN OnlySets(l)' /\ SomeEmptied(l)' => Mixed(l)'
  BY <1>2, NotOnlySets
<1>5. next \in Statements \cup Ended
  OBVIOUS
<1> QED
  BY <1>3, <1>4, <1>5, StatementStep

LEMMA RemoveStep ==
  ASSUME IInv, NEW m \in Sessions, Remove(m)
  PROVE  IInv'
<1> DEFINE q == request[m]
<1>1. /\ pc[m] = "remove" /\ MayRun(m)
      /\ join' = Removed(q)
      /\ alone' = [n \in Sessions |-> alone[n] /\ (n = m \/ join' = join)]
      /\ pc' = [pc EXCEPT ![m] = "ok"]
      /\ tx' = tx /\ saved' = saved /\ request' = request /\ before' = before
  BY DEF Remove, Statement, Write, Goto
<1>2. /\ join \in [Pairs -> Nat] /\ before[m] \in [Pairs -> Nat]
      /\ pc \in [Sessions -> {"idle"} \cup Statements \cup Ended]
      /\ q \in Requests
      /\ Fits(q, "remove")
      /\ alone[m] => Progress(m)
      /\ UniqueKey => \A p \in Pairs : join[p] <= 1
      /\ pc[m] \in Statements
  BY <1>1, BeforeStatement DEF Statements
<1>3. pc'[m] = "ok" /\ "ok" \in Ended
  BY <1>1, <1>2 DEF Ended
<1>4. q.op = "Remove" /\ Fits(q, "ok")
  BY <1>2 DEF Fits
<1>5. ASSUME alone[m] PROVE Progress(m)'
  <2>1. join' = Result(q, before[m])
    BY <1>1, <1>2, <1>4, <1>5, StatementResults DEF Progress
  <2> QED
    BY <1>1, <1>3, <2>1 DEF Progress
<1>6. /\ Removed(q) \in [Pairs -> Nat]
      /\ \A p \in Pairs : p[1] # q.left => Removed(q)[p] = join[p]
  BY <1>2, RowsTypes, OtherRows
<1>7. UniqueKey => \A p \in Pairs : Removed(q)[p] <= 1
  <2>1. \A p \in Pairs : Removed(q)[p] = 0 \/ Removed(q)[p] = join[p]
    BY DEF Removed
  <2> HIDE DEF q
  <2> QED
    BY <1>2, <2>1
<1>8. q.op # "Set"
  BY <1>4
<1> HIDE DEF q
<1> QED
  BY <1>1, <1>2, <1>3, <1>4, <1>5, <1>6, <1>7, <1>8, LastStatementStep DEF q

LEMMA CountStep ==
  ASSUME IInv, NEW m \in Sessions, Count(m)
  PROVE  IInv'
<1> DEFINE q == request[m]
           next == IF Has(q) THEN "true" ELSE "false"
<1>1. /\ pc[m] = "count" /\ MayRun(m)
      /\ join' = join
      /\ alone' = [n \in Sessions |-> alone[n] /\ (n = m \/ join' = join)]
      /\ pc' = [pc EXCEPT ![m] = next]
      /\ tx' = tx /\ saved' = saved /\ request' = request /\ before' = before
  BY DEF Count, Statement, Write, Goto
<1>2. /\ join \in [Pairs -> Nat]
      /\ pc \in [Sessions -> {"idle"} \cup Statements \cup Ended]
      /\ Fits(q, "count")
      /\ alone[m] => Progress(m)
      /\ UniqueKey => \A p \in Pairs : join[p] <= 1
      /\ pc[m] \in Statements
  BY <1>1, BeforeStatement DEF Statements
<1>3. pc'[m] = next /\ next \in Ended /\ (next = "true" <=> Has(q)) /\ next \in {"true", "false"}
  BY <1>1, <1>2 DEF Ended
<1>4. q.op = "Has" /\ Fits(q, next)
  BY <1>2, <1>3 DEF Fits
<1>5. ASSUME alone[m] PROVE Progress(m)'
  <2>1. join = before[m]
    BY <1>1, <1>2, <1>5 DEF Progress
  <2>2. Has(q)' <=> Has(q)
    BY <1>1 DEF Has
  <2> HIDE DEF next
  <2> QED
    BY <1>1, <1>3, <2>1, <2>2 DEF Progress
<1>6. \A p \in Pairs : p[1] # q.left => join[p] = join[p]
  OBVIOUS
<1>7. q.op # "Set"
  BY <1>4
<1> HIDE DEF q, next
<1> QED
  BY <1>1, <1>2, <1>3, <1>4, <1>5, <1>6, <1>7, LastStatementStep DEF q

LEMMA RefusedStep ==
  ASSUME IInv, NEW m \in Sessions, StatementRefused(m)
  PROVE  IInv'
<1> DEFINE q == request[m]
<1>1. /\ pc[m] \in Statements /\ MayRun(m)
      /\ join' = join /\ alone' = alone
      /\ pc' = [pc EXCEPT ![m] = "error"]
      /\ tx' = tx /\ saved' = saved /\ request' = request /\ before' = before
  BY DEF StatementRefused, Goto
<1>2. /\ join \in [Pairs -> Nat]
      /\ pc \in [Sessions -> {"idle"} \cup Statements \cup Ended]
      /\ Fits(q, pc[m]) /\ Valid(q)
      /\ alone[m] => Progress(m)
      /\ UniqueKey => \A p \in Pairs : join[p] <= 1
  BY <1>1, BeforeStatement
<1>3. alone' = [n \in Sessions |-> alone[n] /\ (n = m \/ join' = join)]
  BY <1>1 DEF IInv, TypeOK
<1>4. pc'[m] = "error" /\ "error" \in Ended /\ Fits(q, "error")
  BY <1>1, <1>2 DEF Ended, Fits
<1>5. ASSUME alone[m] PROVE Progress(m)'
  <2>1. join = before[m] \/ (join = Cleared(q, before[m]) /\ q.op = "Set")
    BY <1>1, <1>2, <1>5 DEF Progress, Statements
  <2> QED
    BY <1>1, <1>2, <1>4, <2>1 DEF Progress
<1> HIDE DEF q
<1> QED
  BY <1>1, <1>2, <1>3, <1>4, <1>5, LastStatementStep DEF q

LEMMA LostStep ==
  ASSUME IInv, NEW m \in Sessions, StatementLost(m)
  PROVE  IInv'
<1> DEFINE q == request[m]
<1>1. /\ pc[m] \in Statements /\ MayRun(m) /\ ~Reliable /\ ~Refused(q, pc[m])
      /\ alone' = [n \in Sessions |-> alone[n] /\ (n = m \/ join' = join)]
      /\ pc' = [pc EXCEPT ![m] = "error"]
      /\ tx' = tx /\ saved' = saved /\ request' = request /\ before' = before
      /\ \/ join' = join
         \/ pc[m] = "empty"  /\ join' = Emptied(q)
         \/ pc[m] = "insert" /\ join' = Inserted(q)
         \/ pc[m] = "remove" /\ join' = Removed(q)
  BY DEF StatementLost, Write, Goto
<1>2. /\ join \in [Pairs -> Nat] /\ before[m] \in [Pairs -> Nat]
      /\ pc \in [Sessions -> {"idle"} \cup Statements \cup Ended]
      /\ q \in Requests /\ Fits(q, pc[m]) /\ Valid(q)
      /\ alone[m] => Progress(m)
      /\ UniqueKey => \A p \in Pairs : join[p] <= 1
  BY <1>1, BeforeStatement
<1>3. pc'[m] = "error" /\ "error" \in Ended /\ Fits(q, "error")
  BY <1>1, <1>2 DEF Ended, Fits
<1>4. ASSUME alone[m] PROVE Progress(m)'
  <2>1. CASE join' = join
    <3>1. join = before[m] \/ (join = Cleared(q, before[m]) /\ q.op = "Set")
      BY <1>1, <1>2, <1>4 DEF Progress, Statements
    <3> QED
      BY <1>1, <1>2, <1>3, <2>1, <3>1 DEF Progress
  <2>2. CASE pc[m] = "empty" /\ join' = Emptied(q)
    <3>1. join = before[m] /\ q.op \in {"Set", "Empty"}
      BY <1>2, <1>4, <2>2 DEF Progress, Fits
    <3>2. \/ q.op = "Set" /\ join' = Cleared(q, before[m])
          \/ q.op = "Empty" /\ join' = Result(q, before[m])
      BY <1>2, <2>2, <3>1, StatementResults
    <3> QED
      BY <1>1, <1>2, <1>3, <3>2 DEF Progress
  <2>3. CASE pc[m] = "insert" /\ join' = Inserted(q)
    <3>1. /\ join = IF q.op = "Set" THEN Cleared(q, before[m]) ELSE before[m]
          /\ q.op \in {"Set", "Add"}
      BY <1>2, <1>4, <2>3 DEF Progress, Fits
    <3>2. join' = Result(q, before[m])
      BY <1>2, <2>3, <3>1, StatementResults
    <3> QED
      BY <1>1, <1>2, <1>3, <3>2 DEF Progress
  <2>4. CASE pc[m] = "remove" /\ join' = Removed(q)
    <3>1. join = before[m] /\ q.op = "Remove"
      BY <1>2, <1>4, <2>4 DEF Progress, Fits
    <3>2. join' = Result(q, before[m])
      BY <1>2, <2>4, <3>1, StatementResults
    <3> QED
      BY <1>1, <1>2, <1>3, <3>2 DEF Progress
  <2> QED
    BY <1>1, <2>1, <2>2, <2>3, <2>4
<1>5. /\ join' \in [Pairs -> Nat]
      /\ \A p \in Pairs : p[1] # q.left => join'[p] = join[p]
  BY <1>1, <1>2, RowsTypes, OtherRows
<1>6. UniqueKey => \A p \in Pairs : join'[p] <= 1
  <2>1. CASE join' = join
    BY <1>2, <2>1
  <2>2. CASE pc[m] = "insert" /\ join' = Inserted(q)
    <3>1. UniqueKey => \A p \in Pairs : ~(Inserted(q)[p] > 1)
      BY <1>1, <2>2 DEF Refused
    <3>2. \A p \in Pairs : join'[p] \in Nat
      BY <1>5
    <3> HIDE DEF q
    <3> QED
      BY <2>2, <3>1, <3>2
  <2>3. CASE join' = Emptied(q) \/ join' = Removed(q)
    <3>1. \A p \in Pairs : join'[p] = 0 \/ join'[p] = join[p]
      BY <2>3 DEF Emptied, Removed
    <3> HIDE DEF q
    <3> QED
      BY <1>2, <3>1
  <2> QED
    BY <1>1, <2>1, <2>2, <2>3
<1> HIDE DEF q
<1> QED
  BY <1>1, <1>2, <1>3, <1>4, <1>5, <1>6, LastStatementStep DEF q

(* The end of a transaction: the rollback restores what the operation      *)
(* began with.                                                             *)
LEMMA EndTxStep ==
  ASSUME IInv, NEW m \in Sessions, EndTx(m)
  PROVE  IInv'
<1>1. TypeOK /\ Serial /\ Unique
  BY DEF IInv
<1>2. /\ tx = m /\ pc[m] \in Ended /\ tx' = None
      /\ join' = IF pc[m] = "error" THEN saved ELSE join
      /\ alone' = [n \in Sessions |-> alone[n] /\ (n = m \/ join' = join)]
      /\ saved' = saved /\ request' = request /\ pc' = pc /\ before' = before
  BY DEF EndTx, Write
<1>3. m # None
  BY ManyToManyConstants
<1>4. /\ saved = before[m]
      /\ \A p \in Pairs : p[1] # request[m].left => join'[p] = join[p]
  BY <1>1, <1>2, <1>3 DEF Serial
<1>5. TypeOK'
  <2>1. join' \in [Pairs -> Nat] /\ alone' \in [Sessions -> BOOLEAN]
    BY <1>1, <1>2 DEF TypeOK
  <2> QED
    BY <1>1, <1>2, <2>1 DEF TypeOK
<1>6. Serial'
  <2>1. \A n \in Sessions : InTx /\ pc[n] \in Statements => FALSE
    BY <1>1, <1>2 DEF Serial, Ended, Statements
  <2> QED
    BY <1>2, <2>1 DEF Serial
<1>7. Unique'
  BY <1>1, <1>2 DEF Unique
<1>8. ASSUME NEW n \in Sessions
      PROVE  Begun(n)' /\ (alone'[n] => Progress(n)')
  <2>1. Begun(n) /\ (alone[n] => Progress(n))
    BY DEF IInv
  <2>2. Begun(n)'
    BY <1>2, <2>1 DEF Begun
  <2>3. ASSUME alone'[n], join' = join PROVE Progress(n)'
    BY <1>2, <2>1, <2>3 DEF Progress, Has
  <2>4. ASSUME join' # join PROVE alone'[n] => Progress(n)'
    <3>1. alone'[n] => n = m
      BY <1>2, <2>4
    <3>2. pc[m] = "error" /\ join' = before[m]
      BY <1>2, <1>4, <2>4
    <3> QED
      BY <1>2, <3>1, <3>2 DEF Progress
  <2> QED
    BY <2>2, <2>3, <2>4
<1>9. ASSUME NEW l \in Lefts, OnlySets(l)', SomeEmptied(l)'
      PROVE  Mixed(l)'
  <2>1. On(l)' = On(l)
    BY <1>2 DEF On
  <2>2. OnlySets(l) /\ SomeEmptied(l)
    BY <1>2, <1>9, <2>1 DEF OnlySets, SomeEmptied
  <2>3. Mixed(l)
    BY <2>2 DEF IInv
  <2>4. Related(l)' = Related(l)
    <3>1. \A r \in Rights : join'[<<l, r>>] = join[<<l, r>>]
      <4>1. CASE l = request[m].left
        <5>1. m \in On(l)
          BY <1>2, <4>1 DEF On, Ended
        <5>2. pc[m] # "error"
          BY <2>2, <5>1 DEF OnlySets
        <5> QED
          BY <1>2, <5>2
      <4>2. CASE l # request[m].left
        BY <1>4, <4>2 DEF Pairs
      <4> QED
        BY <4>1, <4>2
    <3> QED
      BY <3>1 DEF Related
  <2> QED
    BY <1>2, <2>1, <2>3, <2>4 DEF Mixed, Listed
<1> QED
  BY <1>5, <1>6, <1>7, <1>8, <1>9 DEF IInv

LEMMA FirstFits ==
  ASSUME NEW q \in Requests
  PROVE  /\ FirstStatement(q) \in Statements
         /\ Fits(q, FirstStatement(q))
         /\ FirstStatement(q) = "insert" => q.op = "Add"
         /\ q.op = "Set" => FirstStatement(q) = "empty"
<1>1. q.op \in Ops
  BY RequestFacts
<1> QED
  BY <1>1 DEF Ops, FirstStatement, Statements, Fits

LEMMA BeginStep ==
  ASSUME IInv, NEW m \in Sessions, NEW q \in Requests, Begin(m, q)
  PROVE  IInv'
<1> DEFINE first == IF Valid(q) THEN FirstStatement(q) ELSE "error"
<1>1. TypeOK /\ Serial /\ Unique
  BY DEF IInv
<1>2. /\ pc[m] = "idle" /\ (InTx => tx = None)
      /\ tx' = IF InTx THEN m ELSE None
      /\ saved' = IF InTx THEN join ELSE saved
      /\ request' = [request EXCEPT ![m] = q]
      /\ before' = [before EXCEPT ![m] = join]
      /\ alone' = [alone EXCEPT ![m] = TRUE]
      /\ pc' = [pc EXCEPT ![m] = first]
      /\ join' = join
  BY DEF Begin, Goto
<1>3. /\ first \in Statements \cup Ended /\ first # "idle"
      /\ Fits(q, first)
      /\ first # "error" => Valid(q)
      /\ first \in Statements \cup {"error"}
      /\ first = "insert" => q.op = "Add"
      /\ q.op = "Set" /\ first # "error" => first = "empty"
  BY FirstFits DEF Fits, Statements, Ended
<1> HIDE DEF first
<1>4. /\ pc'[m] = first /\ request'[m] = q /\ before'[m] = join /\ alone'[m]
      /\ \A n \in Sessions : n # m =>
           /\ pc'[n] = pc[n] /\ request'[n] = request[n]
           /\ before'[n] = before[n] /\ alone'[n] = alone[n]
  BY <1>1, <1>2 DEF TypeOK
<1>5. TypeOK'
  <2>1. /\ saved' \in [Pairs -> Nat] /\ tx' \in Sessions \cup {None}
        /\ before' \in [Sessions -> [Pairs -> Nat]] /\ alone' \in [Sessions -> BOOLEAN]
    BY <1>1, <1>2 DEF TypeOK
  <2>2. /\ request' \in [Sessions -> Requests \cup {None}]
        /\ pc' \in [Sessions -> {"idle"} \cup Statements \cup Ended]
    BY <1>1, <1>2, <1>3 DEF TypeOK
  <2>3. \A n \in Sessions : pc'[n] # "idle" => request'[n] # None
    BY <1>1, <1>4, NoneAssumption DEF TypeOK
  <2> QED
    BY <1>1, <1>2, <2>1, <2>2, <2>3 DEF TypeOK
<1>6. Serial'
  <2>1. ASSUME InTx, NEW n \in Sessions, pc'[n] \in Statements PROVE n = m
    <3>1. n # None
      BY ManyToManyConstants
    <3> QED
      BY <1>1, <1>2, <1>4, <2>1, <3>1 DEF Serial
  <2> QED
    BY <1>1, <1>2, <1>3, <1>4, <2>1 DEF Serial
<1>7. Unique'
  BY <1>1, <1>2 DEF Unique
<1>8. ASSUME NEW n \in Sessions
      PROVE  Begun(n)' /\ (alone'[n] => Progress(n)')
  <2>1. CASE n = m
    <3>1. Begun(m)'
      BY <1>3, <1>4 DEF Begun
    <3>2. Progress(m)'
      BY <1>2, <1>3, <1>4 DEF Progress, Statements
    <3> QED
      BY <2>1, <3>1, <3>2
  <2>2. CASE n # m
    <3>1. Begun(n) /\ (alone[n] => Progress(n))
      BY DEF IInv
    <3>2. Begun(n)'
      BY <1>4, <2>2, <3>1 DEF Begun
    <3>3. alone'[n] => Progress(n)'
      BY <1>2, <1>4, <2>2, <3>1 DEF Progress, Has
    <3> QED
      BY <3>2, <3>3
  <2> QED
    BY <2>1, <2>2
<1>9. ASSUME NEW l \in Lefts, OnlySets(l)', SomeEmptied(l)'
      PROVE  Mixed(l)'
  <2>1. On(l)' = IF q.left = l THEN On(l) \cup {m} ELSE On(l)
    BY <1>2, <1>3, <1>4 DEF On
  <2>2. \A n \in On(l) : n \in Sessions /\ n # m
    BY <1>2 DEF On
  <2>3. OnlySets(l)
    BY <1>4, <1>9, <2>1, <2>2 DEF OnlySets
  <2>4. q.left = l => first = "empty"
    BY <1>3, <1>4, <1>9, <2>1 DEF OnlySets
  <2>5. SomeEmptied(l)
    BY <1>4, <1>9, <2>1, <2>2, <2>4 DEF SomeEmptied
  <2>6. Mixed(l)
    BY <2>3, <2>5 DEF IInv
  <2>7. Related(l)' = Related(l)
    BY <1>2 DEF Related
  <2> QED
    BY <1>4, <2>1, <2>2, <2>6, <2>7 DEF Mixed, Listed
<1> QED
  BY <1>5, <1>6, <1>7, <1>8, <1>9 DEF IInv

LEMMA InitInvariant == Init => IInv
<1> SUFFICES ASSUME Init PROVE IInv
  OBVIOUS
<1>1. /\ join \in [Pairs -> 0..(IF UniqueKey THEN 1 ELSE 2)]
      /\ tx = None /\ saved = join
      /\ \A m \in Sessions : pc[m] = "idle" /\ before[m] = join
  BY DEF Init
<1>2. join \in [Pairs -> Nat]
  BY <1>1
<1>3. TypeOK
  BY <1>1, <1>2 DEF Init, TypeOK
<1>4. Serial
  BY <1>1 DEF Serial, Statements
<1>5. Unique
  BY <1>1 DEF Unique
<1>6. ASSUME NEW m \in Sessions PROVE Begun(m) /\ (alone[m] => Progress(m))
  BY <1>1 DEF Begun, Progress
<1>7. ASSUME NEW l \in Lefts PROVE ~SomeEmptied(l)
  BY <1>1 DEF SomeEmptied, On
<1> QED
  BY <1>3, <1>4, <1>5, <1>6, <1>7 DEF IInv

LEMMA NextInvariant == IInv /\ [Next]_vars => IInv'
<1> SUFFICES ASSUME IInv, [Next]_vars PROVE IInv'
  OBVIOUS
<1>1. ASSUME NEW m \in Sessions, Step(m) PROVE IInv'
  BY <1>1, EmptyStep, InsertStep, RemoveStep, CountStep, RefusedStep, LostStep, EndTxStep
     DEF Step
<1>2. ASSUME NEW m \in Sessions, NEW q \in Requests, Begin(m, q) PROVE IInv'
  BY <1>2, BeginStep
<1>3. CASE UNCHANGED vars
  <2>1. TypeOK' /\ Serial' /\ Unique'
    BY <1>3 DEF vars, IInv, TypeOK, Serial, Unique
  <2>2. ASSUME NEW m \in Sessions PROVE Begun(m)' /\ (alone'[m] => Progress(m)')
    BY <1>3 DEF vars, IInv, Begun, Progress, Has
  <2>3. ASSUME NEW l \in Lefts, OnlySets(l)', SomeEmptied(l)' PROVE Mixed(l)'
    BY <1>3, <2>3 DEF vars, IInv, OnlySets, SomeEmptied, Mixed, On, Related
  <2> QED
    BY <2>1, <2>2, <2>3 DEF IInv
<1> QED
  BY <1>1, <1>2, <1>3 DEF Next

LEMMA Invariant == Spec => []IInv
  BY InitInvariant, NextInvariant, PTL DEF Spec

-----------------------------------------------------------------------------
(* Every variable keeps its type, and a session that has begun an          *)
(* operation has asked for one.                                            *)
THEOREM ManyToManyTypeCorrect == Spec => []TypeOK
<1>1. IInv => TypeOK
  BY DEF IInv
<1> QED
  BY <1>1, Invariant, PTL

(* An operation that returned nil, with no other writer since it began,    *)
(* has done exactly what it was asked: the statements of Set, Add, Remove  *)
(* and Empty compose to their results, duplicates and other objects' rows  *)
(* included.                                                               *)
THEOREM OperationsDoAsAsked == Spec => []Postcondition
<1>1. IInv => Postcondition
  BY DEF IInv, Progress, Postcondition
<1> QED
  BY <1>1, Invariant, PTL

(* An operation that returned an error has done nothing, all (its answer   *)
(* was lost), or only the emptying of a Set; with a bad argument, nothing. *)
THEOREM ErrorsLeaveLittle == Spec => []ErrorLeaves
<1>1. IInv => ErrorLeaves
  BY DEF IInv, Progress, Cleared, ErrorLeaves
<1> QED
  BY <1>1, Invariant, PTL

(* When only Sets ran on an object, however many and in whatever order     *)
(* their statements ran, and all returned nil, one is there entirely and   *)
(* nothing that none of them listed.                                       *)
THEOREM SetsAddUp == Spec => []ConcurrentSets
<1>1. ASSUME IInv, NEW l \in Lefts, On(l) # {},
             \A m \in On(l) : request[m].op = "Set" /\ pc[m] = "ok"
      PROVE  /\ \E m \in On(l) : Listed(request[m]) \subseteq Related(l)
             /\ Related(l) \subseteq UNION {Listed(request[m]) : m \in On(l)}
  <2>1. OnlySets(l) /\ SomeEmptied(l)
    BY <1>1 DEF OnlySets, SomeEmptied
  <2>2. Mixed(l)
    BY <1>1, <2>1 DEF IInv
  <2> QED
    BY <1>1, <2>2 DEF Mixed
<1>2. IInv => ConcurrentSets
  BY <1>1 DEF ConcurrentSets
<1> QED
  BY <1>2, Invariant, PTL

(* A step changes only rows of the object that the manager of the session  *)
(* that takes it is for, a rollback included.                              *)
THEOREM OthersKept == Spec => OtherObjectsKept
<1> DEFINE Changed(p) ==
             \E m \in Sessions : /\ pc'[m] # pc[m] \/ tx' # tx
                                 /\ request[m] # None /\ request[m].left = p[1]
           Kept == \A p \in Pairs : join'[p] # join[p] => Changed(p)
<1>1. ASSUME IInv, Next, NEW p \in Pairs, join'[p] # join[p]
      PROVE  Changed(p)
  <2>1. PICK m \in Sessions : Step(m) \/ \E q \in Requests : Begin(m, q)
    BY <1>1 DEF Next
  <2>2. Step(m)
    BY <1>1, <2>1 DEF Begin
  <2>3. CASE EndTx(m)
    <3>1. tx = m /\ tx' # tx /\ m # None /\ pc[m] # "idle"
      BY <2>3, ManyToManyConstants DEF EndTx, Ended
    <3>2. request[m] # None /\ request[m].left = p[1]
      BY <1>1, <2>3, <3>1 DEF EndTx, Write, IInv, TypeOK, Serial
    <3> QED
      BY <3>1, <3>2
  <2>4. CASE ~EndTx(m)
    <3>1. pc[m] \in Statements
      BY <2>2, <2>4 DEF Step, Empty, Insert, Remove, Count, Statement,
         StatementRefused, StatementLost, Statements
    <3>2. /\ pc \in [Sessions -> {"idle"} \cup Statements \cup Ended]
          /\ request[m] # None
      BY <1>1, <3>1 DEF IInv, TypeOK, Statements
    <3>3. \/ Empty(m) \/ Insert(m) \/ Remove(m)
          \/ StatementLost(m)
      BY <1>1, <2>2, <2>4 DEF Step, Count, Statement, Write, StatementRefused
    <3>4. \/ join' = Emptied(request[m])
          \/ join' = Inserted(request[m])
          \/ join' = Removed(request[m])
      BY <1>1, <3>3 DEF Empty, Insert, Remove, Statement, Write, StatementLost
    <3>5. request[m].left = p[1]
      BY <1>1, <3>4, OtherRows
    <3>6. pc'[m] # pc[m]
      BY <3>2, <3>3 DEF Empty, Insert, Remove, Statement, StatementLost, Goto, Statements
    <3> QED
      BY <3>2, <3>5, <3>6
  <2> QED
    BY <2>3, <2>4
<1>2. ASSUME IInv, [Next]_vars PROVE [Kept]_vars
  BY <1>1, <1>2
<1> QED
  BY <1>2, Invariant, PTL DEF Spec, OtherObjectsKept

-----------------------------------------------------------------------------
(* In transactions the manager implements ManyToManyRelation.  What the    *)
(* abstract specification sees of a state:                                 *)
LinksOf(rows, l) == {r \in Rights : rows[<<l, r>>] > 0}
Links == [l \in Lefts |-> LinksOf(Committed, l)]
Reply == [m \in Sessions |-> IF tx = m \/ pc[m] \in Statements THEN "pending" ELSE pc[m]]

LEMMA ListedSame ==
  ASSUME NEW q \in Requests
  PROVE  Relation!Listed(q) = Listed(q) \cap Rights
<1>1. DOMAIN q.data = 1..Len(q.data)
  BY RequestFacts, LenProperties
<1> QED
  BY <1>1 DEF Listed, Relation!Listed

(* An operation on bags of pairs does to the related objects what it does  *)
(* to a set of them.                                                       *)
LEMMA EffectOnSets ==
  ASSUME NEW q \in Requests, q.op # "Has", NEW old \in [Pairs -> Nat]
  PROVE  LinksOf(Result(q, old), q.left) = Relation!Effect(q, LinksOf(old, q.left))
<1> DEFINE l == q.left
<1>1. q.op \in Ops /\ l \in Lefts
  BY RequestFacts
<1>2. ASSUME NEW r \in Rights
      PROVE  Result(q, old)[<<l, r>>] > 0 <=> r \in Relation!Effect(q, LinksOf(old, l))
  <2> DEFINE n == Occurs(q, r)
             was == old[<<l, r>>]
             is == Result(q, old)[<<l, r>>]
  <2>1. <<l, r>> \in Pairs
    BY <1>1 DEF Pairs
  <2>2. n \in Nat /\ was \in Nat /\ (n > 0 <=> r \in Listed(q))
    BY <2>1, OccursFacts
  <2>3. r \in Relation!Listed(q) <=> n > 0
    BY <2>2, ListedSame
  <2>4. r \in LinksOf(old, l) <=> was > 0
    BY DEF LinksOf
  <2>5. is = CASE q.op = "Set"    -> n
               [] q.op = "Add"    -> was + n
               [] q.op = "Remove" -> IF n > 0 THEN 0 ELSE was
               [] q.op = "Empty"  -> 0
    BY <2>1 DEF Result
  <2> HIDE DEF n, was, is, l
  <2>6. CASE q.op = "Set"
    BY <2>3, <2>5, <2>6 DEF Relation!Effect, is
  <2>7. CASE q.op = "Add"
    <3>1. is = was + n
      BY <2>5, <2>7
    <3>2. is > 0 <=> was > 0 \/ n > 0
      BY <2>2, <3>1
    <3>3. Relation!Effect(q, LinksOf(old, l)) = LinksOf(old, l) \cup Relation!Listed(q)
      BY <2>7 DEF Relation!Effect
    <3> QED
      BY <2>3, <2>4, <3>2, <3>3 DEF is
  <2>8. CASE q.op = "Remove"
    <3>1. is = IF n > 0 THEN 0 ELSE was
      BY <2>5, <2>8
    <3>2. is > 0 <=> was > 0 /\ ~(n > 0)
      BY <2>2, <3>1
    <3>3. Relation!Effect(q, LinksOf(old, l)) = LinksOf(old, l) \ Relation!Listed(q)
      BY <2>8 DEF Relation!Effect
    <3> QED
      BY <2>3, <2>4, <3>2, <3>3 DEF is
  <2>9. CASE q.op = "Empty"
    <3>1. is = 0 /\ Relation!Effect(q, LinksOf(old, l)) = {}
      BY <2>5, <2>9 DEF Relation!Effect
    <3> QED
      BY <3>1 DEF is
  <2> QED
    BY <1>1, <2>6, <2>7, <2>8, <2>9 DEF Ops
<1>3. Relation!Effect(q, LinksOf(old, l)) \subseteq Rights
  BY <1>1 DEF Relation!Effect, Relation!Listed, LinksOf, Ops
<1> QED
  BY <1>2, <1>3 DEF LinksOf

(* The table as the others see it is the one the transaction began with.   *)
LEMMA CommittedType ==
  ASSUME IInv
  PROVE  Committed \in [Pairs -> Nat]
  BY DEF IInv, TypeOK, Committed

(* A statement inside a transaction is invisible.                          *)
LEMMA StatementHidden ==
  ASSUME IInv, InTx, NEW m \in Sessions, Step(m), ~EndTx(m)
  PROVE  Links' = Links /\ request' = request /\ Reply' = Reply
<1>1. /\ pc[m] \in Statements /\ tx' = tx /\ saved' = saved /\ request' = request
      /\ \E s : Goto(m, s)
  BY DEF Step, Empty, Insert, Remove, Count, Statement, StatementRefused, StatementLost, Statements
<1>2. tx = m /\ m # None
  BY <1>1, ManyToManyConstants DEF IInv, Serial
<1>3. \A n \in Sessions : n # m => pc'[n] = pc[n]
  BY <1>1 DEF Goto, IInv, TypeOK
<1>4. Committed' = Committed
  BY <1>1, <1>2 DEF Committed
<1>5. Links' = Links
  BY <1>4 DEF Links, LinksOf
<1>6. Reply' = Reply
  BY <1>1, <1>2, <1>3 DEF Reply
<1> QED
  BY <1>1, <1>5, <1>6

(* Beginning an operation invokes it, even if its arguments are bad.       *)
LEMMA BeginInvokes ==
  ASSUME IInv, InTx, NEW m \in Sessions, NEW q \in Requests, Begin(m, q)
  PROVE  Relation!Invoke(m, q)
<1>1. TypeOK
  BY DEF IInv
<1>2. /\ pc[m] = "idle" /\ tx = None /\ tx' = m /\ saved' = join /\ m # None
      /\ request' = [request EXCEPT ![m] = q]
      /\ \E s : pc' = [pc EXCEPT ![m] = s]
  BY ManyToManyConstants DEF Begin, Goto
<1>3. Committed' = Committed
  BY <1>2 DEF Committed
<1>4. Links' = Links
  BY <1>3 DEF Links, LinksOf
<1>5. \A n \in Sessions : n # m => pc'[n] = pc[n]
  BY <1>1, <1>2 DEF TypeOK
<1>6. \A n \in Sessions : n # None
  BY ManyToManyConstants
<1>7. Reply[m] = "idle" /\ Reply' = [Reply EXCEPT ![m] = "pending"]
  BY <1>1, <1>2, <1>5, <1>6 DEF Reply, Statements
<1> QED
  BY <1>2, <1>4, <1>7 DEF Relation!Invoke, Links, LinksOf, Reply

(* A commit performs the operation, and a rollback refuses it.             *)
LEMMA EndTxPerforms ==
  ASSUME IInv, InTx, UniqueKey, NEW m \in Sessions, EndTx(m)
  PROVE  Relation!Perform(m) \/ Relation!Refuse(m)
<1> DEFINE q == request[m]
           l == q.left
           old == before[m]
<1>1. TypeOK /\ Serial /\ Unique /\ Begun(m) /\ (alone[m] => Progress(m))
  BY DEF IInv
<1>2. /\ tx = m /\ pc[m] \in Ended /\ tx' = None /\ m # None
      /\ join' = IF pc[m] = "error" THEN saved ELSE join
      /\ request' = request /\ pc' = pc
  BY ManyToManyConstants DEF EndTx, Write
<1>3. /\ saved = old /\ Progress(m)
      /\ \A p \in Pairs : p[1] # l => join[p] = saved[p]
  BY <1>1, <1>2 DEF Serial
<1>4. Committed = old /\ Committed' = join'
  BY <1>2, <1>3 DEF Committed
<1>5. old \in [Pairs -> Nat] /\ q \in Requests /\ l \in Lefts
  <2>1. q \in Requests
    BY <1>1, <1>2 DEF TypeOK, Ended
  <2> QED
    BY <1>1, <2>1, RequestFacts DEF TypeOK
<1>6. Reply[m] = "pending" /\ Reply' = [Reply EXCEPT ![m] = pc[m]]
  <2>1. \A n \in Sessions : n # m => n # tx /\ n # None /\ pc[n] \notin Statements
    BY <1>1, <1>2, ManyToManyConstants DEF Serial
  <2>2. pc[m] \notin Statements
    BY <1>2 DEF Ended, Statements
  <2> QED
    BY <1>2, <2>1, <2>2 DEF Reply
<1>7. CASE pc[m] = "error"
  <2>1. Links' = Links
    BY <1>2, <1>3, <1>4, <1>7 DEF Links, LinksOf
  <2> QED
    BY <1>2, <1>6, <1>7, <2>1 DEF Relation!Refuse, Links, LinksOf, Reply
<1>8. CASE pc[m] # "error"
  <2>1. join' = join /\ Fits(q, pc[m]) /\ Valid(q)
    BY <1>1, <1>2, <1>8 DEF Begun, Ended
  <2>2. \A k \in Lefts : k # l => LinksOf(join, k) = LinksOf(old, k)
    BY <1>3 DEF LinksOf, Pairs
  <2>3. LinksOf(join, l) = Relation!Effect(q, LinksOf(old, l))
    <3>1. CASE pc[m] = "ok"
      <4>1. q.op # "Has" /\ join = Result(q, old)
        BY <1>3, <2>1, <3>1 DEF Fits, Progress
      <4> HIDE DEF q, old
      <4> QED
        BY <1>5, <4>1, EffectOnSets
    <3>2. CASE pc[m] \in {"true", "false"}
      <4>1. q.op = "Has" /\ join = old
        BY <1>3, <2>1, <3>2 DEF Fits, Progress
      <4> QED
        BY <4>1 DEF Relation!Effect
    <3> QED
      BY <1>2, <1>8, <3>1, <3>2 DEF Ended
  <2>4. Links' = [Links EXCEPT ![l] = Relation!Effect(q, @)]
    <3>1. Links' = [k \in Lefts |-> LinksOf(join, k)]
      BY <1>4, <2>1 DEF Links, LinksOf
    <3>2. Links = [k \in Lefts |-> LinksOf(old, k)]
      BY <1>4 DEF Links
    <3> HIDE DEF q, l, old
    <3> QED
      BY <1>5, <2>2, <2>3, <3>1, <3>2
  <2>5. pc[m] = IF q.op # "Has" THEN "ok"
                ELSE IF Relation!Listed(q) \subseteq Links[l] THEN "true" ELSE "false"
    <3>1. CASE q.op # "Has"
      BY <1>2, <1>8, <2>1, <3>1 DEF Fits, Ended
    <3>2. CASE q.op = "Has"
      <4> DEFINE p == <<l, q.data[1]>>
      <4>1. /\ pc[m] \in {"true", "false"} /\ join = old
            /\ pc[m] = "true" <=> join[p] = 1
        BY <1>2, <1>3, <1>8, <2>1, <3>2 DEF Fits, Ended, Progress, Has
      <4>2. Len(q.data) = 1 /\ q.data[1] \in Rights
        BY <1>5, <2>1, <3>2, RequestFacts DEF Valid
      <4>3. Relation!Listed(q) = {q.data[1]}
        BY <1>5, <4>2, ListedSame DEF Listed
      <4>4. p \in Pairs
        BY <1>5, <4>2 DEF Pairs
      <4>5. join[p] \in Nat /\ join[p] <= 1
        BY <1>1, <4>4 DEF TypeOK, Unique
      <4>6. join[p] = 1 <=> join[p] > 0
        <5> HIDE DEF p
        <5> QED
          BY <4>5
      <4>7. Links[l] = LinksOf(old, l)
        BY <1>4, <1>5 DEF Links
      <4>8. Relation!Listed(q) \subseteq Links[l] <=> join[p] > 0
        BY <4>1, <4>2, <4>3, <4>7 DEF LinksOf
      <4> QED
        BY <3>2, <4>1, <4>6, <4>8
    <3> QED
      BY <3>1, <3>2
  <2> QED
    BY <1>2, <1>6, <2>4, <2>5 DEF Relation!Perform, Links, LinksOf, Reply
<1> QED
  BY <1>7, <1>8

(* With a unique key and in transactions every operation of a manager      *)
(* happens at one instant, entirely, or has no effect and returns an       *)
(* error: no other session sees a Set between its two statements.          *)
THEOREM ManagerIsAtomic == ASSUME InTx, UniqueKey PROVE Spec => RefinesRelation
<1>1. Init => Relation!Init
  <2> SUFFICES ASSUME Init PROVE Relation!Init
    OBVIOUS
  <2>1. Links \in [Lefts -> SUBSET Rights]
    BY DEF Links, LinksOf
  <2>2. Reply = [m \in Sessions |-> "idle"]
    BY ManyToManyConstants DEF Init, Reply, Statements
  <2> QED
    BY <2>1, <2>2 DEF Init, Relation!Init, Links, LinksOf, Reply
<1>2. IInv /\ [Next]_vars => [Relation!Next]_(Relation!vars)
  <2> SUFFICES ASSUME IInv, [Next]_vars
               PROVE  Relation!Next \/ UNCHANGED Relation!vars
    OBVIOUS
  <2>1. ASSUME NEW m \in Sessions, NEW q \in Requests, Begin(m, q)
        PROVE  Relation!Next
    BY <2>1, BeginInvokes DEF Relation!Next
  <2>2. ASSUME NEW m \in Sessions, EndTx(m)
        PROVE  Relation!Next
    BY <2>2, EndTxPerforms DEF Relation!Next
  <2>3. ASSUME NEW m \in Sessions, Step(m), ~EndTx(m)
        PROVE  UNCHANGED Relation!vars
    BY <2>3, StatementHidden DEF Relation!vars, Links, LinksOf, Reply
  <2>4. CASE UNCHANGED vars
    BY <2>4 DEF vars, Relation!vars, Committed
  <2> QED
    BY <2>1, <2>2, <2>3, <2>4 DEF Next
<1> QED
  BY <1>1, <1>2, Invariant, PTL DEF Spec, RefinesRelation, Relation!Spec
=============================================================================
