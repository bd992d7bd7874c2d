----------------------------- MODULE FifoProofs -----------------------------
(***************************************************************************)
(* Proofs about Fifo for every Size > 1 and every set of objects.          *)
(***************************************************************************)
EXTENDS Fifo, TLAPS

\* Slot i lies between head and tail.
Queued(i) == IF head <= tail THEN head <= i /\ i < tail ELSE head <= i \/ i < tail

Taking == popping \in {"read", "clear"}

\* The producer only runs while a slot is free behind tail.
ProducerInv ==
    pushing # "idle" => /\ ~IsFull
                        /\ item \in Object
                        /\ pushing = "advance" => slots[tail] = item

\* The slot the consumer takes is the head, or the end of the array with head
\* already wrapped around.
ConsumerInv ==
    /\ Taking => /\ slots[at] \in Object
                 /\ IF at = End THEN head = 0 ELSE at = head /\ head # tail
    /\ popping = "advance" => at = head /\ at # End /\ head # tail /\ slots[at] = NULL

\* A queued slot holds an object until it is cleared, every other slot is NULL
\* unless one of the two contexts is at work on it.
SlotsInv ==
    \A i \in 0..End :
        IF Queued(i) THEN (popping = "advance" /\ at = i) \/ slots[i] \in Object
        ELSE \/ slots[i] = NULL
             \/ Taking /\ at = i
             \/ pushing = "advance" /\ tail = i

IInv == TypeOK /\ PushReleasesNothing /\ ProducerInv /\ ConsumerInv /\ SlotsInv

-----------------------------------------------------------------------------
(* The inductive invariant *)

LEMMA InitInv == Init => IInv
BY SizeAssumption, NullAssumption
   DEF Init, IInv, TypeOK, PushReleasesNothing, ProducerInv, ConsumerInv, SlotsInv,
       Queued, Taking, End

LEMMA StepInv == IInv /\ [Next]_vars => IInv'
<1> SUFFICES ASSUME IInv, [Next]_vars PROVE IInv'
  OBVIOUS
<1> USE SizeAssumption, NullAssumption
    DEF IInv, TypeOK, PushReleasesNothing, ProducerInv, ConsumerInv, SlotsInv,
        Queued, Taking, End, IsFull
<1>1. ASSUME NEW p \in Object, PushBegin(p) PROVE IInv'
  BY <1>1 DEF PushBegin, consumerVars
<1>2. CASE PushStore
  <2>1. slots[tail] = NULL
    BY <1>2 DEF PushStore
  <2>2. TypeOK' /\ PushReleasesNothing' /\ ProducerInv'
    BY <1>2, <2>1 DEF PushStore, consumerVars
  <2>3. ConsumerInv' /\ SlotsInv'
    BY <1>2 DEF PushStore, consumerVars
  <2> QED
    BY <2>2, <2>3
<1>3. CASE PushAdvance
  BY <1>3 DEF PushAdvance, Advance, consumerVars
<1>4. CASE PopBegin
  BY <1>4 DEF PopBegin, IsEmpty, producerVars
<1>5. CASE PopRead
  BY <1>5 DEF PopRead, producerVars
<1>6. CASE PopClear
  BY <1>6 DEF PopClear, producerVars
<1>7. CASE PopAdvance
  BY <1>7 DEF PopAdvance, producerVars
<1>8. CASE UNCHANGED vars
  BY <1>8 DEF vars
<1> QED
  BY <1>1, <1>2, <1>3, <1>4, <1>5, <1>6, <1>7, <1>8 DEF Next, Push, Pop

LEMMA Invariance == Spec => []IInv
BY InitInv, StepInv, PTL DEF Spec

\* The buffer's pointers and locals keep their types (fifo.c:60-102).
THEOREM TypeCorrect == Spec => []TypeOK
BY Invariance, PTL DEF IInv

\* fifo_push never finds an object in the slot it writes, hence never releases
\* one (fifo.c:63-66), however the consumer's steps are interleaved.
THEOREM NothingReleased == Spec => []PushReleasesNothing
BY Invariance, PTL DEF IInv

-----------------------------------------------------------------------------
(* Fifo implements BoundedQueue *)

LEMMA AppendIs ==
    ASSUME NEW S, NEW n \in Nat, NEW f \in [1..n -> S], NEW g \in [1..n+1 -> S],
           \A i \in 1..n : g[i] = f[i]
    PROVE  g = Append(f, g[n+1])
<1>1. f \in Seq(S) /\ Len(f) = n
  OBVIOUS
<1> QED
  BY <1>1

LEMMA TailIs ==
    ASSUME NEW S, NEW n \in Nat, NEW f \in [1..n+1 -> S], NEW g \in [1..n -> S],
           \A i \in 1..n : g[i] = f[i+1]
    PROVE  f # << >> /\ Head(f) = f[1] /\ g = Tail(f)
<1>1. f \in Seq(S) /\ Len(f) = n + 1
  OBVIOUS
<1>2. g \in Seq(S) /\ Len(g) = n
  OBVIOUS
<1>3. Tail(f) \in Seq(S) /\ Len(Tail(f)) = n /\ \A i \in 1..n : Tail(f)[i] = f[i+1]
  BY <1>1
<1> QED
  BY <1>1, <1>2, <1>3

ContentsOK ==
    /\ First \in 0..End /\ Count \in Nat /\ Count <= End
    /\ \A i \in 1..Count : Nth(First, i) \in 0..End /\ Queued(Nth(First, i))
    /\ Contents \in [1..Count -> Object]

LEMMA ContentsType == IInv => ContentsOK
<1> SUFFICES ASSUME IInv PROVE ContentsOK
  OBVIOUS
<1> USE SizeAssumption DEF IInv, TypeOK, ConsumerInv, SlotsInv, Queued, Taking, End
<1>1. First \in 0..End /\ Count \in Nat /\ Count <= End
  BY DEF First, Count
<1>2. ASSUME NEW i \in 1..Count
      PROVE  /\ Nth(First, i) \in 0..End /\ Queued(Nth(First, i))
             /\ ~(popping = "advance" /\ at = Nth(First, i))
  BY <1>1 DEF First, Count, Nth
<1>3. \A i \in 1..Count : slots[Nth(First, i)] \in Object
  BY <1>2
<1> QED
  BY <1>1, <1>2, <1>3 DEF Contents, ContentsOK

LEMMA ContentsTypePrimed == (IInv => ContentsOK)'
BY ContentsType, PTL

LEMMA InitRefines == Init => BQ!Init
<1> SUFFICES ASSUME Init PROVE Contents = << >> /\ Result = NULL
  BY DEF BQ!Init
<1>0. First = 0
  BY DEF Init, First
<1>1. Count = 0
  BY <1>0 DEF Init, Count
<1>2. Contents = [i \in 1..0 |-> slots[Nth(First, i)]]
  BY <1>1 DEF Contents
<1> QED
  BY <1>2 DEF Init, Result

\* Steps that leave the slots of the queue alone.
LEMMA Stutter ==
    ASSUME First' = First, Count' = Count, Result' = Result,
           \A i \in 1..Count : slots'[Nth(First, i)] = slots[Nth(First, i)]
    PROVE  UNCHANGED BQ!vars
<1>1. Contents' = Contents
  BY DEF Contents
<1> QED
  BY <1>1 DEF BQ!vars

\* A step that moves First past the first object hands that object out.
LEMMA GetStep ==
    ASSUME IInv, IInv', slots' = slots, Count > 0, Count' = Count - 1,
           First' = Advance(First), Result' = slots[First]
    PROVE  BQ!Get
<1> USE SizeAssumption DEF End
<1>1. /\ First \in 0..End /\ Count \in Nat /\ Count <= End /\ Count' \in Nat
      /\ Contents \in [1..Count -> Object]
      /\ Contents' \in [1..Count' -> Object]
  BY ContentsType, ContentsTypePrimed DEF ContentsOK
<1> DEFINE n == Count'
<1>2. Count = n + 1
  BY <1>1, ContentsType DEF ContentsOK
<1>3. \A i \in 1..n : Nth(First', i) = Nth(First, i+1)
  BY <1>1 DEF Nth, Advance
<1>4. \A i \in 1..n : Contents'[i] = Contents[i+1]
  BY <1>1, <1>2, <1>3 DEF Contents
<1>5. Contents[1] = slots[First]
  BY <1>1, <1>2 DEF Contents, Nth
<1> HIDE DEF n
<1>6. Contents # << >> /\ Head(Contents) = Contents[1] /\ Contents' = Tail(Contents)
  BY <1>1, <1>2, <1>4, TailIs DEF n
<1> QED
  BY <1>5, <1>6 DEF BQ!Get

LEMMA PutStep ==
    ASSUME IInv, IInv', PushAdvance
    PROVE  BQ!Put(item)
<1> USE SizeAssumption DEF End
<1>1. /\ First \in 0..End /\ Count \in Nat
      /\ Count' \in Nat /\ Count' <= End
      /\ Contents \in [1..Count -> Object]
      /\ Contents' \in [1..Count' -> Object]
  BY ContentsType, ContentsTypePrimed DEF ContentsOK
<1>2. First' = First /\ Result' = Result /\ slots' = slots
  BY DEF PushAdvance, consumerVars, First, Result
<1>3. Count' = Count + 1 /\ Nth(First, Count + 1) = tail
  BY <1>1, <1>2 DEF PushAdvance, Advance, Count, Nth, First, IInv, TypeOK, ProducerInv,
     ConsumerInv, IsFull, Taking, consumerVars
<1>4. Nth(First', Count + 1) = tail
  BY <1>2, <1>3
<1>5. Contents'[Count + 1] = item
  BY <1>1, <1>2, <1>3, <1>4 DEF Contents, IInv, ProducerInv, PushAdvance
<1>6. \A i \in 1..Count : Contents'[i] = Contents[i]
  BY <1>1, <1>2, <1>3, <1>4 DEF Contents
<1>7. Contents' = Append(Contents, item)
  BY <1>1, <1>3, <1>5, <1>6, AppendIs
<1>8. Len(Contents) = Count
  BY <1>1
<1> QED
  BY <1>1, <1>2, <1>3, <1>7, <1>8 DEF BQ!Put

LEMMA StepRefines == IInv /\ IInv' /\ [Next]_vars => [BQ!Next]_BQ!vars
<1> SUFFICES ASSUME IInv, IInv', [Next]_vars PROVE BQ!Next \/ UNCHANGED BQ!vars
  OBVIOUS
<1>0. /\ First \in 0..End /\ Count \in Nat
      /\ \A i \in 1..Count : Nth(First, i) \in 0..End /\ Queued(Nth(First, i))
  BY ContentsType DEF ContentsOK
<1> DEFINE Same == \A i \in 1..Count : slots'[Nth(First, i)] = slots[Nth(First, i)]
<1> USE SizeAssumption DEF End, IInv, TypeOK
<1>1. ASSUME NEW p \in Object, PushBegin(p) PROVE UNCHANGED BQ!vars
  <2>1. First' = First /\ Count' = Count /\ Result' = Result /\ Same
    BY <1>1 DEF PushBegin, consumerVars, First, Count, Result
  <2> QED
    BY <2>1, Stutter
<1>2. CASE PushStore
  <2>1. ~Queued(tail)
    BY DEF Queued
  <2>2. ~(popping = "read" /\ at = tail)
    BY <1>2 DEF PushStore, ProducerInv, ConsumerInv, IsFull, Taking
  <2>3. First' = First /\ Count' = Count /\ Result' = Result
    BY <1>2, <2>2 DEF PushStore, consumerVars, First, Count, Result
  <2>4. Same
    BY <1>0, <1>2, <2>1 DEF PushStore
  <2> QED
    BY <2>3, <2>4, Stutter
<1>3. CASE PushAdvance
  <2>1. item \in Object
    BY <1>3 DEF PushAdvance, ProducerInv
  <2> QED
    BY <1>3, <2>1, PutStep DEF BQ!Next
<1>4. CASE PopBegin
  <2>1. CASE head = End
    <3>1. slots' = slots /\ Count > 0 /\ Count' = Count - 1
      BY <1>4, <2>1 DEF PopBegin, IsEmpty, producerVars, First, Count
    <3>2. First' = Advance(First) /\ Result' = slots[First]
      BY <1>4, <2>1 DEF PopBegin, producerVars, First, Advance, Result
    <3> QED
      BY <3>1, <3>2, GetStep DEF BQ!Next
  <2>2. CASE head # End
    <3>1. First' = First /\ Count' = Count /\ Result' = Result /\ Same
      BY <1>4, <2>2 DEF PopBegin, producerVars, First, Count, Result
    <3> QED
      BY <3>1, Stutter
  <2> QED
    BY <2>1, <2>2
<1>5. CASE PopRead
  <2>1. CASE at = End
    <3>1. First' = First /\ Count' = Count /\ Result' = Result /\ Same
      BY <1>5, <2>1 DEF PopRead, producerVars, First, Count, Result
    <3> QED
      BY <3>1, Stutter
  <2>2. CASE at # End
    <3>1. at = head /\ head # tail
      BY <1>5, <2>2 DEF PopRead, ConsumerInv, Taking
    <3>2. slots' = slots /\ Count > 0 /\ Count' = Count - 1
      BY <1>5, <2>2, <3>1 DEF PopRead, producerVars, First, Count
    <3>3. First' = Advance(First) /\ Result' = slots[First]
      BY <1>5, <2>2, <3>1 DEF PopRead, producerVars, First, Advance, Result
    <3> QED
      BY <3>2, <3>3, GetStep DEF BQ!Next
  <2> QED
    BY <2>1, <2>2
<1>6. CASE PopClear
  <2>1. First' = First /\ Count' = Count /\ Result' = Result
    BY <1>6 DEF PopClear, producerVars, First, Count, Result
  <2>2. \A i \in 1..Count : Nth(First, i) # at
    BY <1>0, <1>6 DEF PopClear, First, Count, Nth, ConsumerInv, Taking
  <2>3. Same
    BY <1>6, <2>2 DEF PopClear
  <2> QED
    BY <2>1, <2>3, Stutter
<1>7. CASE PopAdvance
  <2>1. First' = First /\ Count' = Count /\ Result' = Result /\ Same
    BY <1>7 DEF PopAdvance, producerVars, First, Count, Result, ConsumerInv
  <2> QED
    BY <2>1, Stutter
<1>8. CASE UNCHANGED vars
  <2>1. First' = First /\ Count' = Count /\ Result' = Result /\ Same
    BY <1>8 DEF vars, First, Count, Result
  <2> QED
    BY <2>1, Stutter
<1> QED
  BY <1>1, <1>2, <1>3, <1>4, <1>5, <1>6, <1>7, <1>8 DEF Next, Push, Pop

\* The lock-free ring buffer of fifo.c implements the bounded queue that its
\* comments (fifo.c:56-58, 83-85) promise, for every size and every interleaving.
THEOREM RingBufferIsQueue == Spec => IsBoundedQueue
BY InitRefines, StepRefines, Invariance, PTL DEF Spec, IsBoundedQueue, BQ!Spec
=============================================================================
