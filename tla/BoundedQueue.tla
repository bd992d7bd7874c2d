---------------------------- MODULE BoundedQueue ----------------------------
(***************************************************************************)
(* What fifo.c promises its callers: a first-in first-out queue of at most *)
(* Cap objects.  "out" is the object the last Get handed to its caller.    *)
(* Fifo.tla is shown to implement this module.                             *)
(***************************************************************************)
EXTENDS Naturals, Sequences

CONSTANTS Cap,      \* how many objects fit
          Object,   \* what is queued
          NULL      \* "no object", the C null pointer

VARIABLES q, out

vars == <<q, out>>

Init == q = << >> /\ out = NULL

Put(p) == /\ Len(q) < Cap
          /\ q' = Append(q, p)
          /\ UNCHANGED out

Get == /\ q # << >>
       /\ out' = Head(q)
       /\ q' = Tail(q)

Next == Get \/ \E p \in Object : Put(p)

Spec == Init /\ [][Next]_vars
=============================================================================
