---------------------------- MODULE ModbusMaster ----------------------------
(***************************************************************************)
(* What modbus.c promises: requests are executed one at a time, in the     *)
(* order in which they were accepted, each at most once.  A request in     *)
(* execution is the only one whose answer may be handed to the caller.     *)
(* Closing or opening the port drops everything that was accepted.         *)
(***************************************************************************)
EXTENDS Naturals, Sequences

CONSTANTS Request,   \* the requests
          None,      \* no request
          Cap        \* how many requests may wait

VARIABLES waiting,   \* accepted and not begun
          current    \* in execution, or None

vars == <<waiting, current>>

Init == waiting = << >> /\ current = None

Submit(r) == /\ Len(waiting) < Cap
             /\ waiting' = Append(waiting, r)
             /\ UNCHANGED current

Begin == /\ current = None
         /\ waiting # << >>
         /\ current' = Head(waiting)
         /\ waiting' = Tail(waiting)

\* The answer came, another answer came instead, or none came in time.
End == current # None /\ current' = None /\ UNCHANGED waiting

Drop == waiting' = << >> /\ current' = None

Next == Begin \/ End \/ Drop \/ \E r \in Request : Submit(r)

Spec == Init /\ [][Next]_vars
=============================================================================
