----------------------------- MODULE RowsProofs -----------------------------
(***************************************************************************)
(* Proofs about Rows, for every number of consumers and connections and    *)
(* results of any length.                                                  *)
(***************************************************************************)
EXTENDS Rows, FiniteSetTheorems, SequenceTheorems, TLAPS

-----------------------------------------------------------------------------
(* The inductive invariant.                                                *)

Waits(c) == \E j \in DOMAIN queue : queue[j] = c

Rising(n) == [k \in 1..n |-> k]

(* The rows that the loop may deliver.                                     *)
Fits(r) == IF r.odd = 0 THEN r.rows ELSE r.odd - 1

(* A consumer has a connection while its Rows is not closed, and is in the *)
(* queue while it waits for one.                                           *)
Placed(c) ==
  /\ c \in holders <=> pc[c] \in {"open", "next"}
  /\ Waits(c) <=> pc[c] = "queued"

(* What its destination holds: All and MapAll go through a result in       *)
(* order, and only into what fits it.                                      *)
Filled(c) ==
  /\ pc[c] \in {"queued", "open"} => out[c] = Old
  /\ pc[c] = "next" =>
       /\ fetch[c].method \in Collecting
       /\ fetch[c].dest = "fit"
       /\ \E n \in 0..Fits(result[c]) : out[c] = Rising(n)
  /\ pc[c] = "done" /\ err[c] = "nil" =>
       IF fetch[c].method \in Collecting
       THEN out[c] = Rising(result[c].rows) /\ ~result[c].broken
       ELSE out[c] = <<1>>
  /\ pc[c] = "done" /\ err[c] # "nil" => ErrorLeft(c)

IInv ==
  /\ TypeOK
  /\ IsFiniteSet(holders)
  /\ \A c \in Consumers : Placed(c) /\ Filled(c)

-----------------------------------------------------------------------------
(* Sequences that count.                                                   *)
LEMMA RisingLength ==
  ASSUME NEW n \in Nat
  PROVE  Rising(n) \in Seq(Nat) /\ Len(Rising(n)) = n
  BY DEF Rising

LEMMA RisingGrows ==
  ASSUME NEW n \in Nat
  PROVE  Append(Rising(n), n + 1) = Rising(n + 1)
<1>1. /\ Rising(n) \in Seq(Nat) /\ Len(Rising(n)) = n
      /\ Rising(n + 1) \in Seq(Nat) /\ Len(Rising(n + 1)) = n + 1
  BY RisingLength
<1>2. /\ Append(Rising(n), n + 1) \in Seq(Nat)
      /\ Len(Append(Rising(n), n + 1)) = n + 1
      /\ \A k \in 1..(n + 1) : Append(Rising(n), n + 1)[k] = k
  BY <1>1, AppendProperties DEF Rising
<1> QED
  BY <1>1, <1>2, SeqEqual DEF Rising

(* What joining the end of a queue and leaving its head do.                *)
LEMMA JoinFacts ==
  ASSUME NEW S, NEW s \in Seq(S), NEW e \in S,
         \A j, k \in DOMAIN s : s[j] = s[k] => j = k,
         \A j \in DOMAIN s : s[j] # e
  PROVE  /\ Append(s, e) \in Seq(S)
         /\ \A j, k \in DOMAIN Append(s, e) : Append(s, e)[j] = Append(s, e)[k] => j = k
         /\ \A d : (\E j \in DOMAIN Append(s, e) : Append(s, e)[j] = d)
                     <=> d = e \/ \E j \in DOMAIN s : s[j] = d
<1>1. Len(s) \in Nat /\ DOMAIN s = 1..Len(s)
  BY LenProperties
<1>2. /\ Append(s, e) \in Seq(S)
      /\ DOMAIN Append(s, e) = 1..(Len(s) + 1)
      /\ \A j \in 1..Len(s) : Append(s, e)[j] = s[j]
      /\ Append(s, e)[Len(s) + 1] = e
  BY <1>1, AppendProperties, LenProperties
<1> QED
  BY <1>1, <1>2

LEMMA LeaveFacts ==
  ASSUME NEW S, NEW s \in Seq(S), s # <<>>,
         \A j, k \in DOMAIN s : s[j] = s[k] => j = k
  PROVE  /\ Tail(s) \in Seq(S)
         /\ Head(s) \in S
         /\ \E j \in DOMAIN s : s[j] = Head(s)
         /\ \A j, k \in DOMAIN Tail(s) : Tail(s)[j] = Tail(s)[k] => j = k
         /\ \A d : (\E j \in DOMAIN Tail(s) : Tail(s)[j] = d)
                     <=> d # Head(s) /\ \E j \in DOMAIN s : s[j] = d
<1>1. Len(s) \in Nat \ {0} /\ DOMAIN s = 1..Len(s)
  BY LenProperties, EmptySeq
<1>2. /\ Tail(s) \in Seq(S)
      /\ DOMAIN Tail(s) = 1..(Len(s) - 1)
      /\ \A j \in 1..(Len(s) - 1) : Tail(s)[j] = s[j + 1]
  BY <1>1, HeadTailProperties, LenProperties
<1>3. Head(s) = s[1] /\ 1 \in DOMAIN s /\ Head(s) \in S
  BY <1>1, HeadTailProperties
<1>4. ASSUME NEW d
      PROVE  (\E j \in DOMAIN Tail(s) : Tail(s)[j] = d)
               <=> d # Head(s) /\ \E j \in DOMAIN s : s[j] = d
  <2>1. ASSUME NEW j \in DOMAIN Tail(s), Tail(s)[j] = d
        PROVE  d # Head(s) /\ \E k \in DOMAIN s : s[k] = d
    BY <1>1, <1>2, <1>3, <2>1
  <2>2. ASSUME NEW j \in DOMAIN s, s[j] = d, d # Head(s)
        PROVE  \E k \in DOMAIN Tail(s) : Tail(s)[k] = d
    <3>1. j - 1 \in DOMAIN Tail(s) /\ Tail(s)[j - 1] = s[j]
      BY <1>1, <1>2, <1>3, <2>2
    <3> QED
      BY <2>2, <3>1
  <2> QED
    BY <2>1, <2>2
<1>5. \A j, k \in DOMAIN Tail(s) : Tail(s)[j] = Tail(s)[k] => j = k
  BY <1>1, <1>2
<1> QED
  BY <1>2, <1>3, <1>4, <1>5

-----------------------------------------------------------------------------
(* A step of consumer c leaves the others where they are.                  *)
OthersStay(c) ==
  \A d \in Consumers \ {c} :
    /\ pc'[d] = pc[d] /\ fetch'[d] = fetch[d] /\ result'[d] = result[d]
    /\ out'[d] = out[d] /\ err'[d] = err[d]
    /\ d \in holders' <=> d \in holders
    /\ Waits(d)' <=> Waits(d)

LEMMA StepOfOne ==
  ASSUME IInv, NEW c \in Consumers, OthersStay(c),
         TypeOK', IsFiniteSet(holders'), Placed(c)', Filled(c)'
  PROVE  IInv'
<1>1. ASSUME NEW d \in Consumers PROVE Placed(d)' /\ Filled(d)'
  <2>1. CASE d = c
    BY <2>1
  <2>2. CASE d # c
    BY <2>2 DEF IInv, OthersStay, Placed, Filled, Rising, ErrorLeft, HalfWritten
  <2> QED
    BY <2>1, <2>2
<1> QED
  BY <1>1 DEF IInv

LEMMA ScanType ==
  ASSUME NEW c \in Consumers, NEW k
  PROVE  Scan(c, k) \in {"nil", "error", "panic"}
  BY DEF Scan

LEMMA Fewer ==
  ASSUME NEW S, IsFiniteSet(S), Cardinality(S) <= MaxOpen, NEW c
  PROVE  IsFiniteSet(S \ {c}) /\ Cardinality(S \ {c}) <= MaxOpen
<1>1. /\ IsFiniteSet(S \ {c})
      /\ Cardinality(S) \in Nat
      /\ Cardinality(S \ {c}) \in Nat
      /\ Cardinality(S \ {c}) <= Cardinality(S)
  BY FS_Subset, FS_CardinalityType
<1> QED
  BY <1>1, RowsConstants

(* Returning, from a place where the result was open.                      *)
LEMMA ReturnStep ==
  ASSUME IInv, NEW c \in Consumers, c \in holders,
         NEW e \in {"nil", "error", "no rows", "panic"}, Returns(c, e),
         UNCHANGED <<queue, fetch, result, calls>>,
         out' \in [Consumers -> {Old, Part} \cup Seq(Nat)],
         \A d \in Consumers \ {c} : out'[d] = out[d],
         Filled(c)'
  PROVE  IInv'
<1>1. TypeOK /\ IsFiniteSet(holders) /\ Placed(c)
  BY DEF IInv
<1>2. pc'[c] = "done" /\ pc[c] # "queued"
  BY <1>1 DEF TypeOK, Returns, Goto, Placed
<1>3. IsFiniteSet(holders') /\ Cardinality(holders') <= MaxOpen
  BY <1>1, Fewer DEF TypeOK, Returns
<1>4. TypeOK'
  <2>1. /\ queue' \in Seq(Consumers)
        /\ \A j, k \in DOMAIN queue' : queue'[j] = queue'[k] => j = k
        /\ fetch' \in [Consumers -> Fetches]
        /\ result' \in [Consumers -> Results]
        /\ calls' \in [Consumers -> 0..MaxCalls]
    BY <1>1 DEF TypeOK
  <2>2. holders' \subseteq Consumers /\ Cardinality(holders') <= MaxOpen
    BY <1>1, <1>3 DEF TypeOK, Returns
  <2>3. /\ pc' \in [Consumers -> {"idle", "queued", "open", "next", "done"}]
        /\ err' \in [Consumers -> {"nil", "error", "no rows", "panic"}]
    BY <1>1 DEF TypeOK, Returns, Goto
  <2> QED
    BY <2>1, <2>2, <2>3 DEF TypeOK
<1>5. OthersStay(c)
  BY <1>1 DEF OthersStay, TypeOK, Returns, Goto, Waits
<1>6. Placed(c)'
  BY <1>1, <1>2 DEF Placed, Waits, Returns
<1> QED
  BY <1>3, <1>4, <1>5, <1>6, StepOfOne

-----------------------------------------------------------------------------
(* One lemma for each action.                                              *)
LEMMA FetchStep ==
  ASSUME IInv, NEW c \in Consumers, NEW f \in Fetches, Fetch(c, f)
  PROVE  IInv'
<1>1. TypeOK /\ IsFiniteSet(holders) /\ Placed(c) /\ c \notin holders /\ ~Waits(c)
  BY DEF IInv, Placed, Fetch
<1>2. /\ fetch' \in [Consumers -> Fetches]
      /\ calls' \in [Consumers -> 0..MaxCalls]
      /\ out' \in [Consumers -> {Old, Part} \cup Seq(Nat)]
  <2>1. MaxCalls \in Nat /\ calls \in [Consumers -> 0..MaxCalls] /\ calls[c] < MaxCalls
    BY <1>1, RowsConstants DEF TypeOK, Fetch
  <2>2. calls' \in [Consumers -> 0..MaxCalls]
    BY <2>1 DEF Fetch
  <2> QED
    BY <1>1, <2>2 DEF TypeOK, Fetch, Deliver
<1>3. CASE f.expands
  <2>1. /\ queue' = Append(queue, c)
        /\ pc' = [pc EXCEPT ![c] = "queued"]
        /\ err' = err
    BY <1>3 DEF Fetch, Goto
  <2>2. /\ queue' \in Seq(Consumers)
        /\ \A j, k \in DOMAIN queue' : queue'[j] = queue'[k] => j = k
        /\ \A d : Waits(d)' <=> d = c \/ Waits(d)
    <3>1. /\ queue \in Seq(Consumers)
          /\ \A j, k \in DOMAIN queue : queue[j] = queue[k] => j = k
          /\ \A j \in DOMAIN queue : queue[j] # c
      BY <1>1 DEF TypeOK, Waits
    <3>2. /\ Append(queue, c) \in Seq(Consumers)
          /\ \A j, k \in DOMAIN Append(queue, c) :
               Append(queue, c)[j] = Append(queue, c)[k] => j = k
          /\ \A d : (\E j \in DOMAIN Append(queue, c) : Append(queue, c)[j] = d)
                      <=> d = c \/ \E j \in DOMAIN queue : queue[j] = d
      BY <3>1, JoinFacts
    <3> QED
      BY <2>1, <3>2 DEF Waits
  <2>3. TypeOK'
    BY <1>1, <1>2, <2>1, <2>2 DEF TypeOK, Fetch
  <2>4. OthersStay(c)
    BY <1>1, <2>1, <2>2 DEF OthersStay, TypeOK, Fetch, Deliver
  <2>5. Placed(c)' /\ Filled(c)'
    BY <1>1, <2>1, <2>2 DEF Placed, Filled, TypeOK, Fetch, Deliver
  <2> QED
    BY <1>1, <2>3, <2>4, <2>5, StepOfOne DEF Fetch
<1>4. CASE ~f.expands
  <2>1. /\ queue' = queue
        /\ pc' = [pc EXCEPT ![c] = "done"]
        /\ err' = [err EXCEPT ![c] = "error"]
    BY <1>4 DEF Fetch, Goto
  <2>2. TypeOK'
    BY <1>1, <1>2, <2>1 DEF TypeOK, Fetch
  <2>3. OthersStay(c)
    BY <1>1, <2>1 DEF OthersStay, TypeOK, Fetch, Deliver, Waits
  <2>4. Placed(c)' /\ Filled(c)'
    BY <1>1, <2>1 DEF Placed, Filled, TypeOK, Fetch, Deliver, Waits, ErrorLeft
  <2> QED
    BY <1>1, <2>2, <2>3, <2>4, StepOfOne DEF Fetch
<1> QED
  BY <1>3, <1>4

LEMMA ConnectStep ==
  ASSUME IInv, NEW c \in Consumers, Connect(c)
  PROVE  IInv'
<1>1. /\ TypeOK /\ IsFiniteSet(holders) /\ Placed(c) /\ Filled(c)
      /\ queue # <<>> /\ c = Head(queue)
  BY DEF IInv, Connect
<1>2. /\ queue' \in Seq(Consumers)
      /\ \A j, k \in DOMAIN queue' : queue'[j] = queue'[k] => j = k
      /\ \A d : Waits(d)' <=> d # c /\ Waits(d)
      /\ Waits(c)
  <2>1. /\ queue \in Seq(Consumers)
        /\ \A j, k \in DOMAIN queue : queue[j] = queue[k] => j = k
    BY <1>1 DEF TypeOK
  <2>2. /\ Tail(queue) \in Seq(Consumers)
        /\ \E j \in DOMAIN queue : queue[j] = c
        /\ \A j, k \in DOMAIN Tail(queue) : Tail(queue)[j] = Tail(queue)[k] => j = k
        /\ \A d : (\E j \in DOMAIN Tail(queue) : Tail(queue)[j] = d)
                    <=> d # c /\ \E j \in DOMAIN queue : queue[j] = d
    BY <1>1, <2>1, LeaveFacts
  <2>3. queue' = Tail(queue)
    BY DEF Connect
  <2> QED
    BY <2>2, <2>3 DEF Waits
<1>3. pc[c] = "queued" /\ c \notin holders
  BY <1>1, <1>2 DEF Placed
<1>4. ASSUME NEW r \in Results, result' = [result EXCEPT ![c] = r],
             holders' = holders \cup {c}, Goto(c, "open"), UNCHANGED err
      PROVE  IInv'
  <2>1. IsFiniteSet(holders') /\ Cardinality(holders') <= MaxOpen
    <3>1. Cardinality(holders) \in Nat /\ Cardinality(holders) < MaxOpen
      BY <1>1, FS_CardinalityType DEF Connect
    <3>2. Cardinality(holders \cup {c}) = Cardinality(holders) + 1
      BY <1>1, <1>3, FS_AddElement
    <3>3. Cardinality(holders \cup {c}) <= MaxOpen
      BY <3>1, <3>2, RowsConstants
    <3> QED
      BY <1>1, <1>4, <3>3, FS_AddElement
  <2>2. TypeOK'
    BY <1>1, <1>2, <1>4, <2>1 DEF TypeOK, Connect, Goto
  <2>3. OthersStay(c)
    BY <1>1, <1>2, <1>4 DEF OthersStay, TypeOK, Connect, Goto
  <2>4. Placed(c)' /\ Filled(c)'
    BY <1>1, <1>2, <1>3, <1>4 DEF Placed, Filled, TypeOK, Connect, Goto
  <2> QED
    BY <2>1, <2>2, <2>3, <2>4, StepOfOne
<1>5. ASSUME Returns(c, "error"), UNCHANGED result
      PROVE  IInv'
  <2>1. holders' = holders
    BY <1>3, <1>5 DEF Returns
  <2>2. TypeOK'
    BY <1>1, <1>2, <1>5, <2>1 DEF TypeOK, Connect, Returns, Goto
  <2>3. OthersStay(c)
    BY <1>1, <1>2, <1>5, <2>1 DEF OthersStay, TypeOK, Connect, Returns, Goto
  <2>4. Placed(c)' /\ Filled(c)'
    BY <1>1, <1>2, <1>3, <1>5, <2>1 DEF Placed, Filled, TypeOK, Connect, Returns, Goto, ErrorLeft
  <2> QED
    BY <1>1, <2>1, <2>2, <2>3, <2>4, StepOfOne
<1> QED
  BY <1>4, <1>5 DEF Connect

LEMMA RowsOfResult ==
  ASSUME NEW r \in Results
  PROVE  r.rows \in Nat
<1>1. r.rows \in 0..MaxRows
  BY DEF Results
<1>2. MaxRows \in Nat
  BY RowsConstants
<1> QED
  BY <1>1, <1>2

LEMMA FitsSome ==
  ASSUME NEW r \in Results
  PROVE  /\ Fits(r) \in 0..r.rows
         /\ r.odd # 0 => r.odd = Fits(r) + 1
         /\ Fitting(r) = Rising(Fits(r))
<1>1. r.rows \in Nat /\ r.odd \in Nat /\ r.odd <= r.rows
  <2>1. r.odd \in 0..MaxRows /\ r.odd <= r.rows
    BY DEF Results
  <2> QED
    BY <2>1, RowsOfResult, RowsConstants
<1> QED
  BY <1>1 DEF Fits, Fitting, Whole, Rising

LEMMA ReadOneStep ==
  ASSUME IInv, NEW c \in Consumers, ReadOne(c)
  PROVE  IInv'
<1>1. /\ TypeOK /\ Placed(c) /\ Filled(c)
      /\ pc[c] = "open" /\ fetch[c].method \notin Collecting
      /\ c \in holders /\ out[c] = Old
  BY DEF IInv, ReadOne, Placed, Filled
<1>2. UNCHANGED <<queue, fetch, result, calls>>
  BY DEF ReadOne
<1>3. CASE result[c].rows = 0
  <2>1. Returns(c, "no rows") /\ out' = out
    BY <1>3 DEF ReadOne
  <2>2. Filled(c)'
    BY <1>1, <1>2, <2>1 DEF Filled, Returns, Goto, TypeOK, ErrorLeft
  <2>3. /\ out' \in [Consumers -> {Old, Part} \cup Seq(Nat)]
        /\ \A d \in Consumers \ {c} : out'[d] = out[d]
    BY <1>1, <2>1 DEF TypeOK
  <2> QED
    BY <1>1, <1>2, <2>1, <2>2, <2>3, ReturnStep
<1>4. CASE result[c].rows # 0
  <2> DEFINE e == Scan(c, 1)
  <2>1. /\ Returns(c, e)
        /\ IF e = "nil"
           THEN out' = [out EXCEPT ![c] = <<1>>]
           ELSE out' = out \/ (HalfWritten(c) /\ out' = [out EXCEPT ![c] = Part])
    BY <1>4 DEF ReadOne, Deliver
  <2>2. e \in {"nil", "error", "panic"}
    BY ScanType
  <2>3. HalfWritten(c) => e # "panic"
    BY DEF Scan, HalfWritten
  <2>4. /\ out' \in [Consumers -> {Old, Part} \cup Seq(Nat)]
        /\ \A d \in Consumers \ {c} : out'[d] = out[d]
        /\ IF e = "nil"
           THEN out'[c] = <<1>>
           ELSE out'[c] = Old \/ (HalfWritten(c) /\ out'[c] = Part)
    <3> HIDE DEF e
    <3>1. <<1>> \in Seq(Nat)
      OBVIOUS
    <3>2. out \in [Consumers -> {Old, Part} \cup Seq(Nat)]
      BY <1>1 DEF TypeOK
    <3>3. CASE e = "nil"
      BY <2>1, <3>1, <3>2, <3>3
    <3>4. CASE e # "nil"
      BY <1>1, <2>1, <3>2, <3>4
    <3> QED
      BY <3>3, <3>4
  <2>5. pc'[c] = "done" /\ err'[c] = e
    BY <1>1, <2>1 DEF Returns, Goto, TypeOK
  <2>6. Filled(c)'
    <3> HIDE DEF e
    <3>1. HalfWritten(c)' <=> HalfWritten(c)
      BY <1>2 DEF HalfWritten
    <3>2. e # "nil" => ErrorLeft(c)'
      BY <2>2, <2>3, <2>4, <2>5, <3>1 DEF ErrorLeft
    <3> QED
      BY <1>1, <1>2, <2>4, <2>5, <3>2 DEF Filled
  <2> HIDE DEF e
  <2> QED
    BY <1>1, <1>2, <2>1, <2>2, <2>4, <2>6, ReturnStep
<1> QED
  BY <1>3, <1>4

LEMMA CheckAllStep ==
  ASSUME IInv, NEW c \in Consumers, CheckAll(c)
  PROVE  IInv'
<1>1. /\ TypeOK /\ IsFiniteSet(holders) /\ Placed(c) /\ Filled(c)
      /\ pc[c] = "open" /\ fetch[c].method \in Collecting
      /\ c \in holders /\ out[c] = Old
  BY DEF IInv, CheckAll, Placed, Filled
<1>2. UNCHANGED <<queue, fetch, result, calls>>
  BY DEF CheckAll
<1>3. CASE fetch[c].dest = "fit"
  <2>1. /\ pc' = [pc EXCEPT ![c] = "next"]
        /\ out' = [out EXCEPT ![c] = <<>>]
        /\ holders' = holders /\ err' = err
    BY <1>3 DEF CheckAll, Goto, Deliver
  <2>2. TypeOK'
    <3>1. <<>> \in Seq(Nat)
      OBVIOUS
    <3>2. out' \in [Consumers -> {Old, Part} \cup Seq(Nat)]
      BY <1>1, <2>1, <3>1 DEF TypeOK
    <3> QED
      BY <1>1, <1>2, <2>1, <3>2 DEF TypeOK
  <2>3. OthersStay(c)
    BY <1>1, <1>2, <2>1 DEF OthersStay, TypeOK, Waits
  <2>4. Placed(c)'
    BY <1>1, <1>2, <2>1 DEF Placed, TypeOK, Waits
  <2>5. Filled(c)'
    <3>1. result[c].rows \in Nat
      BY <1>1, RowsOfResult DEF TypeOK
    <3>2. 0 \in 0..Fits(result[c]) /\ Rising(0) = <<>>
      <4>1. Fits(result[c]) \in 0..result[c].rows
        BY <1>1, FitsSome DEF TypeOK
      <4> QED
        BY <3>1, <4>1 DEF Rising
    <3>3. pc'[c] = "next" /\ out'[c] = Rising(0)
      BY <1>1, <2>1, <3>2 DEF TypeOK
    <3> QED
      BY <1>1, <1>2, <1>3, <3>2, <3>3 DEF Filled, Rising
  <2> QED
    BY <1>1, <2>1, <2>2, <2>3, <2>4, <2>5, StepOfOne
<1>4. CASE fetch[c].dest # "fit"
  <2>1. Returns(c, "error") /\ out' = out
    BY <1>4 DEF CheckAll
  <2>2. Filled(c)'
    BY <1>1, <1>2, <2>1 DEF Filled, Returns, Goto, TypeOK, ErrorLeft
  <2>3. /\ out' \in [Consumers -> {Old, Part} \cup Seq(Nat)]
        /\ \A d \in Consumers \ {c} : out'[d] = out[d]
    BY <1>1, <2>1 DEF TypeOK
  <2> QED
    BY <1>1, <1>2, <2>1, <2>2, <2>3, ReturnStep
<1> QED
  BY <1>3, <1>4

(* How many rows the loop has delivered.                                   *)
LEMMA Delivered ==
  ASSUME IInv, NEW c \in Consumers, pc[c] = "next"
  PROVE  /\ result[c].rows \in Nat
         /\ Len(out[c]) \in 0..Fits(result[c])
         /\ Fits(result[c]) \in 0..result[c].rows
         /\ result[c].odd # 0 => result[c].odd = Fits(result[c]) + 1
         /\ Fitting(result[c]) = Rising(Fits(result[c]))
         /\ out[c] = Rising(Len(out[c]))
<1>1. TypeOK /\ Filled(c)
  BY DEF IInv
<1>2. result[c].rows \in Nat
  BY <1>1, RowsOfResult DEF TypeOK
<1>3. PICK n \in 0..Fits(result[c]) : out[c] = Rising(n)
  BY <1>1 DEF Filled
<1>4. /\ Fits(result[c]) \in 0..result[c].rows
      /\ result[c].odd # 0 => result[c].odd = Fits(result[c]) + 1
      /\ Fitting(result[c]) = Rising(Fits(result[c]))
  BY <1>1, FitsSome DEF TypeOK
<1>5. n \in Nat
  BY <1>2, <1>3, <1>4
<1>6. Len(out[c]) = n
  BY <1>3, <1>5, RisingLength
<1> QED
  BY <1>2, <1>3, <1>4, <1>6

LEMMA NextRowStep ==
  ASSUME IInv, NEW c \in Consumers, NextRow(c)
  PROVE  IInv'
<1> DEFINE n == Len(out[c])
<1>1. /\ TypeOK /\ IsFiniteSet(holders) /\ Placed(c) /\ Filled(c)
      /\ pc[c] = "next" /\ c \in holders
      /\ fetch[c].method \in Collecting /\ fetch[c].dest = "fit"
  BY DEF IInv, NextRow, Placed, Filled
<1>2. UNCHANGED <<queue, fetch, result, calls>>
  BY DEF NextRow
<1> DEFINE m == Fits(result[c])
<1>3. /\ result[c].rows \in Nat /\ m \in 0..result[c].rows /\ n \in 0..m
      /\ out[c] = Rising(n) /\ Fitting(result[c]) = Rising(m)
      /\ n + 1 <= result[c].rows
      /\ result[c].odd # 0 => result[c].odd = m + 1
      /\ result[c].odd = 0 => m = result[c].rows
  BY <1>1, Delivered DEF NextRow, Fits
<1> HIDE DEF m
<1>4. CASE result[c].odd = n + 1
  <2>1. /\ Returns(c, "error")
        /\ out' = IF fetch[c].method = "MapAll" THEN [out EXCEPT ![c] = Old] ELSE out
    BY <1>4 DEF NextRow, Deliver
  <2>2. /\ out' \in [Consumers -> {Old, Part} \cup Seq(Nat)]
        /\ \A d \in Consumers \ {c} : out'[d] = out[d]
    BY <1>1, <2>1 DEF TypeOK
  <2>3. Filled(c)'
    <3>1. n + 1 # 0 /\ n = m
      BY <1>3, <1>4
    <3>2. out[c] = Fitting(result[c]) /\ result[c].odd # 0
      BY <1>3, <1>4, <3>1
    <3>3. out'[c] = Old \/ (fetch[c].method = "All" /\ out'[c] = out[c])
      BY <1>1, <2>1 DEF TypeOK, Collecting
    <3>4. ErrorLeft(c)'
      BY <1>1, <1>2, <3>2, <3>3 DEF ErrorLeft, Fitting, Whole
    <3> QED
      BY <1>1, <1>2, <2>1, <3>4 DEF Filled, Returns, Goto, TypeOK
  <2> QED
    BY <1>1, <1>2, <2>1, <2>2, <2>3, ReturnStep
<1>5. CASE result[c].odd # n + 1
  <2>1. /\ out' = [out EXCEPT ![c] = Append(out[c], n + 1)]
        /\ pc' = pc /\ holders' = holders /\ err' = err
    BY <1>5 DEF NextRow, Deliver
  <2>2. Append(out[c], n + 1) = Rising(n + 1) /\ Rising(n + 1) \in Seq(Nat)
    <3>1. n \in Nat /\ n + 1 \in Nat /\ out[c] = Rising(n)
      BY <1>3
    <3>2. Append(Rising(n), n + 1) = Rising(n + 1) /\ Rising(n + 1) \in Seq(Nat)
      BY <3>1, RisingGrows, RisingLength
    <3> QED
      BY <3>1, <3>2
  <2>3. TypeOK'
    BY <1>1, <1>2, <2>1, <2>2 DEF TypeOK
  <2>4. OthersStay(c)
    BY <1>1, <1>2, <2>1 DEF OthersStay, TypeOK, Waits
  <2>5. Placed(c)'
    BY <1>1, <1>2, <2>1 DEF Placed, TypeOK, Waits
  <2>6. Filled(c)'
    <3>1. n + 1 \in 0..Fits(result'[c])
      BY <1>2, <1>3, <1>5 DEF m
    <3>2. out'[c] = Rising(n + 1)
      BY <1>1, <2>1, <2>2 DEF TypeOK
    <3> QED
      BY <1>1, <1>2, <2>1, <3>1, <3>2 DEF Filled, Rising
  <2> QED
    BY <1>1, <2>1, <2>3, <2>4, <2>5, <2>6, StepOfOne
<1> QED
  BY <1>4, <1>5

LEMMA NextEndsStep ==
  ASSUME IInv, NEW c \in Consumers, NextEnds(c)
  PROVE  IInv'
<1> DEFINE e == IF result[c].broken THEN "error" ELSE "nil"
<1>1. /\ TypeOK /\ Placed(c) /\ Filled(c)
      /\ pc[c] = "next" /\ c \in holders
      /\ fetch[c].method \in Collecting /\ fetch[c].dest = "fit"
  BY DEF IInv, NextEnds, Placed, Filled
<1>2. UNCHANGED <<queue, fetch, result, calls>>
  BY DEF NextEnds
<1>3. out[c] = Rising(result[c].rows) /\ Rising(result[c].rows) = Fitting(result[c])
  BY <1>1, Delivered DEF NextEnds
<1>4. /\ Returns(c, e)
      /\ out' = IF result[c].broken /\ fetch[c].method = "MapAll"
                THEN [out EXCEPT ![c] = Old] ELSE out
  BY DEF NextEnds, Deliver
<1>5. /\ out' \in [Consumers -> {Old, Part} \cup Seq(Nat)]
      /\ \A d \in Consumers \ {c} : out'[d] = out[d]
  BY <1>1, <1>4 DEF TypeOK
<1>6. pc'[c] = "done" /\ err'[c] = e
  BY <1>1, <1>4 DEF Returns, Goto, TypeOK
<1>7. Filled(c)'
  <2>1. out'[c] = Old \/ (fetch[c].method = "All" /\ out'[c] = out[c]) \/ ~result[c].broken
    BY <1>1, <1>4 DEF TypeOK, Collecting
  <2>2. result[c].broken => ErrorLeft(c)'
    BY <1>1, <1>2, <1>3, <2>1 DEF ErrorLeft, Fitting, Whole
  <2> QED
    BY <1>1, <1>2, <1>3, <1>4, <1>6, <2>2 DEF Filled, Rising, TypeOK
<1>8. e \in {"nil", "error", "no rows", "panic"}
  OBVIOUS
<1> HIDE DEF e
<1> QED
  BY <1>1, <1>2, <1>4, <1>5, <1>7, <1>8, ReturnStep

-----------------------------------------------------------------------------
LEMMA InitInvariant == Init => IInv
<1> SUFFICES ASSUME Init PROVE IInv
  OBVIOUS
<1>1. MaxOpen \in Nat /\ MaxRows \in Nat /\ MaxCalls \in Nat
  BY RowsConstants
<1>2. NoFetch \in Fetches /\ NoResult \in Results
  BY <1>1 DEF NoFetch, NoResult, Fetches, Results, Methods, Collecting
<1>3. IsFiniteSet({}) /\ Cardinality({}) = 0
  BY FS_EmptySet
<1>4. TypeOK
  <2>1. /\ queue \in Seq(Consumers)
        /\ \A j, k \in DOMAIN queue : queue[j] = queue[k] => j = k
    BY DEF Init
  <2>2. holders \subseteq Consumers /\ Cardinality(holders) <= MaxOpen
    BY <1>1, <1>3 DEF Init
  <2>3. /\ pc \in [Consumers -> {"idle", "queued", "open", "next", "done"}]
        /\ fetch \in [Consumers -> Fetches]
        /\ result \in [Consumers -> Results]
        /\ out \in [Consumers -> {Old, Part} \cup Seq(Nat)]
        /\ err \in [Consumers -> {"nil", "error", "no rows", "panic"}]
    BY <1>2 DEF Init
  <2>4. calls \in [Consumers -> 0..MaxCalls]
    BY <1>1 DEF Init
  <2> QED
    BY <2>1, <2>2, <2>3, <2>4 DEF TypeOK
<1>5. ASSUME NEW c \in Consumers PROVE Placed(c) /\ Filled(c)
  <2>1. ~Waits(c)
    BY DEF Init, Waits
  <2> QED
    BY <2>1 DEF Init, Placed, Filled, NoFetch
<1> QED
  BY <1>3, <1>4, <1>5 DEF IInv, Init

LEMMA NextInvariant == IInv /\ [Next]_vars => IInv'
<1> SUFFICES ASSUME IInv, [Next]_vars PROVE IInv'
  OBVIOUS
<1>1. ASSUME NEW c \in Consumers, Step(c) PROVE IInv'
  BY <1>1, ConnectStep, ReadOneStep, CheckAllStep, NextRowStep, NextEndsStep DEF Step
<1>2. ASSUME NEW c \in Consumers, NEW f \in Fetches, Fetch(c, f) PROVE IInv'
  BY <1>2, FetchStep
<1>3. CASE UNCHANGED vars
  <2>1. TypeOK'
    BY <1>3 DEF vars, IInv, TypeOK
  <2>2. ASSUME NEW c \in Consumers PROVE Placed(c)' /\ Filled(c)'
    BY <1>3 DEF vars, IInv, Placed, Filled, Waits, Rising, ErrorLeft, HalfWritten
  <2> QED
    BY <1>3, <2>1, <2>2 DEF vars, IInv
<1> QED
  BY <1>1, <1>2, <1>3 DEF Next

LEMMA Invariant == Spec => []IInv
  BY InitInvariant, NextInvariant, PTL DEF Spec

(* Every variable keeps its type; no consumer is in the queue twice, and   *)
(* the pool never opens more than MaxOpen connections.                     *)
THEOREM RowsTypeCorrect == Spec => []TypeOK
<1>1. IInv => TypeOK
  BY DEF IInv
<1> QED
  BY <1>1, Invariant, PTL

(* On every way out of One, All, MapOne, MapAll and Row the connection is  *)
(* back in the pool, and a consumer that waits for one holds none.         *)
THEOREM AlwaysClosed == Spec => []ClosedOnReturn
<1>1. IInv => ClosedOnReturn
  BY DEF IInv, Placed, ClosedOnReturn
<1> QED
  BY <1>1, Invariant, PTL

(* A reader that returned nil has delivered the whole result, or the first *)
(* row of it, and All and MapAll never take a result that was cut short    *)
(* for a whole one.                                                        *)
THEOREM NilIsWhole == Spec => []NilMeansAll
<1>1. IInv => NilMeansAll
  BY DEF IInv, Filled, NilMeansAll, Rising, Whole
<1> QED
  BY <1>1, Invariant, PTL

(* What an error leaves in a destination: what it held, of All the rows    *)
(* before the one it could not take, of One and Row at worst a piece of a  *)
(* row.                                                                    *)
THEOREM ErrorsKeepRows == Spec => []ErrorKeepsRows
<1>1. IInv => ErrorKeepsRows
  BY DEF IInv, Filled, ErrorKeepsRows
<1> QED
  BY <1>1, Invariant, PTL

=============================================================================
