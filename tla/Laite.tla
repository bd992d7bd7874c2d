------------------------------- MODULE Laite -------------------------------
(***************************************************************************)
(* The Home Assistant component for Laite relay boards: the LaiteBoard of  *)
(* src/hass/custom_components/laite.py, which all boards on one RS-485     *)
(* line share, and the switches of src/hass/custom_components/switch.      *)
(* Home Assistant calls setup_platform (once for an address), turn_on and  *)
(* turn_off from the worker threads of its executor.  The status query is  *)
(* made under a lock, the commands are written without it.                 *)
(*                                                                         *)
(* A command is one write of nine bytes, a query is answered by the board  *)
(* with that address.                                                      *)
(***************************************************************************)
EXTENDS Integers, Sequences

CONSTANTS
    Workers,    \* the threads
    Nobody,     \* the owner of a lock that is free
    Switches,   \* the configured switches: [addr, idx]
    Outlets,    \* the outlets that a board has
    Lengths,    \* bytes that the answer to a query may have
    MaxCalls    \* bound: calls of turn_on and turn_off

ALL == 255      \* 0xff: every outlet of the board

ASSUME LaiteAssumption ==
    /\ \A s \in Switches : s = [addr |-> s.addr, idx |-> s.idx] /\ s.idx \in Nat
    /\ Outlets \subseteq 0..15
    /\ Lengths \subseteq Nat /\ MaxCalls \in Nat
    /\ Nobody \notin Workers

Addrs == {s.addr : s \in Switches}

NoCall == [op |-> "none", addr |-> 0, idx |-> 0]
None == << >>

VARIABLES
    port,       \* "open" or "closed"
    input,      \* bytes that wait to be read, each as the board that sent it
    bus,        \* boards that are about to answer
    lock,       \* LaiteBoard.lock: its owner
    pc, call,   \* of each worker
    data,       \* what get_switch_states returned to it, or its command
    setUp,      \* addresses whose setup began
    added,      \* switches that Home Assistant knows
    state,      \* LaiteSwitch._state
    lamp,       \* the outlets
    calls,      \* calls of turn_on and turn_off
    doubtful    \* history: switches that nobody can expect to show their lamps

lineVars == <<port, input, bus>>
switchVars == <<setUp, added, state>>
vars == <<lineVars, lock, pc, call, data, switchVars, lamp, calls, doubtful>>

\* LaiteBoard opened its port; the lamps burn as they did before.
Init ==
    /\ port = "open" /\ input = << >> /\ bus = {}
    /\ lock = Nobody
    /\ pc = [w \in Workers |-> "idle"] /\ call = [w \in Workers |-> NoCall]
    /\ data = [w \in Workers |-> None]
    /\ setUp = {} /\ added = {} /\ state = [s \in Switches |-> FALSE]
    /\ lamp \in [Addrs -> [Outlets -> BOOLEAN]]
    /\ calls = 0 /\ doubtful = {}

\* The indices that set_switch_on and set_switch_off accept.
Valid(idx) == idx \in 0..15 \/ idx = ALL

Goto(w, label) == pc' = [pc EXCEPT ![w] = label]
Finish(w) == Goto(w, "idle") /\ call' = [call EXCEPT ![w] = NoCall]

-----------------------------------------------------------------------------
(* Home Assistant and the line *)

CallSetup(w) ==
    /\ pc[w] = "idle"
    /\ \E a \in Addrs \ setUp :
          /\ setUp' = setUp \cup {a}
          /\ call' = [call EXCEPT ![w] = [op |-> "setup", addr |-> a, idx |-> 0]]
    /\ Goto(w, "lock")
    /\ UNCHANGED <<lineVars, lock, data, added, state, lamp, calls, doubtful>>

CallTurn(w) ==
    /\ pc[w] = "idle" /\ calls < MaxCalls
    /\ \E s \in added, op \in {"on", "off"} :
          call' = [call EXCEPT ![w] = [op |-> op, addr |-> s.addr, idx |-> s.idx]]
    /\ calls' = calls + 1
    /\ Goto(w, "write")
    /\ UNCHANGED <<lineVars, lock, data, switchVars, lamp, doubtful>>

\* disconnect when Home Assistant stops; an adapter that is unplugged has the same
\* effect.  From then on every use of the port raises an exception.
Close ==
    /\ port = "open" /\ port' = "closed"
    /\ UNCHANGED <<input, bus, lock, pc, call, data, switchVars, lamp, calls, doubtful>>

\* The board answers, or it was not there or did not hear the query.
Answer ==
    \E a \in bus :
        /\ bus' = bus \ {a}
        /\ \/ \E n \in Lengths : input' = input \o [i \in 1..n |-> a]
           \/ UNCHANGED input
        /\ UNCHANGED <<port, lock, pc, call, data, switchVars, lamp, calls, doubtful>>

-----------------------------------------------------------------------------
(* get_switch_states, and setup_platform around it *)

\* Mutant: the lock is not waited for.
LockFree_Ignored == TRUE

LockFree == lock = Nobody

Acquire(w) ==
    /\ pc[w] = "lock" /\ LockFree
    /\ lock' = w
    /\ Goto(w, "flush")
    /\ UNCHANGED <<lineVars, call, data, switchVars, lamp, calls, doubtful>>

\* Mutant: the lock is not given back by an exception.
ReleasedBy_Return(w) == lock

\* "with self.lock" ends, by a return or by an exception.
ReleasedBy(w) == IF lock = w THEN Nobody ELSE lock

\* The port raises an exception: the call is over.
Raise(w) ==
    /\ pc[w] \in {"flush", "query", "read", "write"} /\ port = "closed"
    /\ pc[w] = "write" => Valid(call[w].idx)
    /\ lock' = ReleasedBy(w)
    /\ Finish(w)
    /\ UNCHANGED <<lineVars, data, switchVars, lamp, calls, doubtful>>

Flush(w) ==
    /\ pc[w] = "flush" /\ port = "open"
    /\ input' = << >>
    /\ Goto(w, "query")
    /\ UNCHANGED <<port, bus, lock, call, data, switchVars, lamp, calls, doubtful>>

Query(w) ==
    /\ pc[w] = "query" /\ port = "open"
    /\ bus' = bus \cup {call[w].addr}
    /\ Goto(w, "read")
    /\ UNCHANGED <<port, input, lock, call, data, switchVars, lamp, calls, doubtful>>

READ_LEN == 5 + 16 + 1
Least(m, n) == IF m < n THEN m ELSE n

\* Mutant: an answer of any length is good.
Status_Unchecked(bytes) == SubSeq(bytes, 6, Len(bytes))

\* data[5:16] of an answer of 16 bytes, nothing of any other.
Status(bytes) == IF Len(bytes) # 16 THEN None ELSE SubSeq(bytes, 6, 16)

\* All bytes are there, or three seconds are over: in that time a board answers
\* or it never does.
Read(w) ==
    /\ pc[w] = "read" /\ port = "open"
    /\ Len(input) >= READ_LEN \/ call[w].addr \notin bus
    /\ LET n == Least(READ_LEN, Len(input))
       IN  /\ data' = [data EXCEPT ![w] = Status(SubSeq(input, 1, n))]
           /\ input' = SubSeq(input, n + 1, Len(input))
    /\ lock' = Nobody
    /\ Goto(w, "add")
    /\ UNCHANGED <<port, bus, call, switchVars, lamp, calls, doubtful>>

Channels(a) == {s \in Switches : s.addr = a}

\* The states are used when there are 16 of them.
InitialState(s, status) ==
    IF Len(status) = 16 /\ s.idx \in Outlets THEN lamp[status[s.idx + 1]][s.idx] ELSE FALSE

AddDevices(w) ==
    /\ pc[w] = "add"
    /\ LET new == Channels(call[w].addr)
       IN  /\ added' = added \cup new
           /\ state' = [s \in Switches |-> IF s \in new THEN InitialState(s, data[w])
                                           ELSE state[s]]
           /\ doubtful' = doubtful \cup new
    /\ data' = [data EXCEPT ![w] = None]
    /\ Finish(w)
    /\ UNCHANGED <<lineVars, lock, setUp, lamp, calls>>

-----------------------------------------------------------------------------
(* set_switch_on and set_switch_off, turn_on and turn_off around them *)

\* The outlets that a command switches, and what burns then.
Switched(idx) == IF idx = ALL THEN Outlets ELSE Outlets \cap {idx}
Lit(c) == [lamp EXCEPT ![c.addr] = [o \in Outlets |->
              IF o \in Switched(c.idx) THEN c.op = "on" ELSE lamp[c.addr][o]]]

Self(w) == [addr |-> call[w].addr, idx |-> call[w].idx]
Setting(s) == {w \in Workers : pc[w] = "state" /\ Self(w) = s}

\* The other switches of these outlets, and this one when another call for it is
\* not over yet.
Doubts(w) == {s \in added : /\ s.addr = call[w].addr
                            /\ s # Self(w)
                            /\ Switched(s.idx) \cap Switched(call[w].idx) # {}}
             \cup {s \in {Self(w)} : Setting(s) # {}}

\* The frame is heard; when it meets the answer of a board it may not be, and the
\* answer may not be either.
WriteCommand(w) ==
    /\ pc[w] = "write" /\ Valid(call[w].idx) /\ port = "open"
    /\ \/ /\ lamp' = Lit(call[w])
          /\ doubtful' = (doubtful \ {Self(w)}) \cup Doubts(w)
       \/ /\ bus # {}
          /\ UNCHANGED lamp
          /\ doubtful' = doubtful \cup {Self(w)}
    /\ bus' \in {bus, {}}
    /\ Goto(w, "state")
    /\ UNCHANGED <<port, input, lock, call, data, switchVars, calls>>

\* Nothing is written for an index that no board has.
Refuse(w) ==
    /\ pc[w] = "write" /\ ~Valid(call[w].idx)
    /\ Goto(w, "state")
    /\ UNCHANGED <<lineVars, lock, call, data, switchVars, lamp, calls, doubtful>>

\* Mutant: the result of set_switch_off is not negated.
Shown_AsReturned(op, done) == done

\* turn_on shows what set_switch_on returned, turn_off the opposite.
Shown(op, done) == IF op = "on" THEN done ELSE ~done

SetState(w) ==
    /\ pc[w] = "state"
    /\ state' = [state EXCEPT ![Self(w)] = Shown(call[w].op, Valid(call[w].idx))]
    /\ Finish(w)
    /\ UNCHANGED <<lineVars, lock, data, setUp, added, lamp, calls, doubtful>>

Work(w) == \/ Acquire(w) \/ Raise(w) \/ Flush(w) \/ Query(w) \/ Read(w) \/ AddDevices(w)
           \/ WriteCommand(w) \/ Refuse(w) \/ SetState(w)

Next == \/ Close \/ Answer
        \/ \E w \in Workers : CallSetup(w) \/ CallTurn(w) \/ Work(w)

Spec == Init /\ [][Next]_vars

\* Threads are scheduled, and the line has an end of each answer.
FairSpec == Spec /\ WF_vars(Answer) /\ \A w \in Workers : WF_vars(Work(w))

-----------------------------------------------------------------------------
(* Properties *)

TypeOK ==
    /\ port \in {"open", "closed"} /\ input \in Seq(Addrs) /\ bus \subseteq Addrs
    /\ lock \in Workers \cup {Nobody}
    /\ pc \in [Workers -> {"idle", "lock", "flush", "query", "read", "add", "write", "state"}]
    /\ \A w \in Workers : data[w] \in Seq(Addrs) /\ Len(data[w]) <= 16
    /\ setUp \subseteq Addrs /\ added \subseteq Switches
    /\ state \in [Switches -> BOOLEAN]
    /\ lamp \in [Addrs -> [Outlets -> BOOLEAN]]
    /\ calls \in 0..MaxCalls /\ doubtful \subseteq added

\* While several platforms are set up at the same time, and commands are written in
\* between, a status that get_switch_states returns comes from the board that was
\* asked, from its first to its last byte.
AnswerIsOwn ==
    \A w \in Workers : pc[w] = "add" =>
        \A i \in 1..Len(data[w]) : data[w][i] = call[w].addr

Burns(s) == {lamp[s.addr][o] : o \in Switched(s.idx)}

\* A switch that was set shows what its outlets are, also after a command that the
\* port refused, until another switch commands its outlets, two calls for it
\* overlap, or its command meets the answer to a query.
StateAgrees ==
    \A s \in added \ doubtful :
        Valid(s.idx) /\ Setting(s) = {} => Burns(s) \subseteq {state[s]}

\* Every call ends, also when the port is closed while others wait for the lock.
CallsEnd == \A w \in Workers : pc[w] # "idle" ~> pc[w] = "idle"
=============================================================================
