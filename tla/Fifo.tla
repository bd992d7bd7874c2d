-------------------------------- MODULE Fifo --------------------------------
(***************************************************************************)
(* The ring buffer of src/iracc/fifo.c.  Its comments promise that one     *)
(* producer (fifo_isfull, fifo_push) and one consumer (fifo_isempty,       *)
(* fifo_pop) may run in concurrent contexts without a lock, so every store *)
(* to the shared memory is an action of its own.                           *)
(*                                                                         *)
(* Positions are offsets from begin: begin is 0 and end is Size - 1.  One  *)
(* slot always stays free, hence the capacity of Size - 1.                 *)
(***************************************************************************)
EXTENDS Integers, Sequences

CONSTANTS Size,     \* slots of the array
          Object,   \* what is queued
          NULL      \* the null pointer

\* fifo_init: ASSERT(size > 1).
ASSUME SizeAssumption == Size \in Nat /\ Size > 1
ASSUME NullAssumption == NULL \notin Object

VARIABLES
    slots,        \* the array
    head, tail,   \* the two shared pointers
    pushing,      \* where the producer is in fifo_push
    item,         \* its argument
    released,     \* what fifo_push released because the slot was not NULL
    popping,      \* where the consumer is in fifo_pop
    at,           \* the slot it takes
    got           \* its result

vars == <<slots, head, tail, pushing, item, released, popping, at, got>>

producerVars == <<tail, pushing, item, released>>
consumerVars == <<head, popping, at, got>>

End == Size - 1

\* Mutant: the pointer wraps one slot too late.
Advance_OffByOne(i) == IF i = Size THEN 0 ELSE i + 1

Advance(i) == IF i = End THEN 0 ELSE i + 1

Init ==
    /\ slots = [i \in 0..End |-> NULL]
    /\ head = 0 /\ tail = 0
    /\ pushing = "idle" /\ item = NULL /\ released = NULL
    /\ popping = "idle" /\ at = 0 /\ got = NULL

\* Mutant: the last object is never seen.
IsEmpty_LeavesOne == head = tail \/ tail = Advance(head)

IsEmpty == head = tail

\* Mutant: fullness is only seen when the buffer starts at begin.
IsFull_OnlyAtBegin == head = 0 /\ tail = End

IsFull == \/ head = 0 /\ tail = End
          \/ tail = head - 1

\* The caller of fifo_push has seen the buffer not full.
PushBegin(p) ==
    /\ pushing = "idle"
    /\ ~IsFull
    /\ item' = p
    /\ pushing' = "store"
    /\ UNCHANGED <<slots, tail, released, consumerVars>>

\* The previous object of the slot is released, and overwritten.
PushStore ==
    /\ pushing = "store"
    /\ released' = slots[tail]
    /\ slots' = [slots EXCEPT ![tail] = item]
    /\ pushing' = "advance"
    /\ UNCHANGED <<tail, item, consumerVars>>

PushAdvance ==
    /\ pushing = "advance"
    /\ tail' = Advance(tail)
    /\ pushing' = "idle"
    /\ UNCHANGED <<slots, item, released, consumerVars>>

\* The caller of fifo_pop has seen the buffer not empty.  At the end of the
\* array fifo_pop moves head first and takes the object afterwards.
PopBegin ==
    /\ popping = "idle"
    /\ ~IsEmpty
    /\ at' = head
    /\ head' = IF head = End THEN 0 ELSE head
    /\ popping' = "read"
    /\ UNCHANGED <<slots, got, producerVars>>

PopRead ==
    /\ popping = "read"
    /\ got' = slots[at]
    /\ popping' = "clear"
    /\ UNCHANGED <<slots, head, at, producerVars>>

\* Mutant: the slot keeps the pointer of the popped object.
PopClear_KeepsPointer ==
    /\ popping = "clear"
    /\ popping' = IF at = End THEN "idle" ELSE "advance"
    /\ UNCHANGED <<slots, head, at, got, producerVars>>

PopClear ==
    /\ popping = "clear"
    /\ slots' = [slots EXCEPT ![at] = NULL]
    /\ popping' = IF at = End THEN "idle" ELSE "advance"
    /\ UNCHANGED <<head, at, got, producerVars>>

PopAdvance ==
    /\ popping = "advance"
    /\ head' = head + 1
    /\ popping' = "idle"
    /\ UNCHANGED <<slots, at, got, producerVars>>

Push == PushStore \/ PushAdvance \/ \E p \in Object : PushBegin(p)
Pop  == PopBegin \/ PopRead \/ PopClear \/ PopAdvance

Next == Push \/ Pop

Spec == Init /\ [][Next]_vars

\* Both contexts keep running, and the consumer keeps polling.
FairSpec == Spec /\ WF_vars(PushStore \/ PushAdvance) /\ WF_vars(Pop)

-----------------------------------------------------------------------------
(* The queue the buffer stands for *)

\* The oldest object that is still queued: a pop takes effect where head moves
\* past the end of the array, or else where the object is read.
First == IF popping \in {"clear", "advance"} /\ at # End THEN at + 1 ELSE head

Count == IF First <= tail THEN tail - First ELSE tail - First + Size

\* The i-th slot from f on, around the end of the array.
Nth(f, i) == IF f + i - 1 > End THEN f + i - 1 - Size ELSE f + i - 1

Contents == [i \in 1..Count |-> slots[Nth(First, i)]]

Result == IF popping = "read" /\ at = End THEN slots[at] ELSE got

BQ == INSTANCE BoundedQueue WITH Cap <- End, q <- Contents, out <- Result

-----------------------------------------------------------------------------
(* Properties *)

\* Types of the pointers, of the two contexts and of their locals.
TypeOK ==
    /\ slots \in [0..End -> Object \cup {NULL}]
    /\ head \in 0..End /\ tail \in 0..End /\ at \in 0..End
    /\ pushing \in {"idle", "store", "advance"}
    /\ popping \in {"idle", "read", "clear", "advance"}
    /\ item \in Object \cup {NULL}
    /\ released \in Object \cup {NULL}
    /\ got \in Object \cup {NULL}

\* fifo_push finds the slot it writes empty, whatever the consumer is doing at
\* the same time: it never releases an object that somebody still owns.
PushReleasesNothing == released = NULL

\* fifo.c:58 and 85: with one producer and one consumer in concurrent contexts
\* the buffer is a first-in first-out queue of Size - 1 objects: none is lost,
\* duplicated, reordered or invented.
IsBoundedQueue == BQ!Spec

\* Every object pushed is handed to the consumer as long as it keeps popping.
EverythingIsPopped == \A i \in 0..End : slots[i] # NULL ~> slots[i] = NULL
=============================================================================
