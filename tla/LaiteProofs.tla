---------------------------- MODULE LaiteProofs ----------------------------
(***************************************************************************)
(* What holds of Laite for every number of threads, boards and switches    *)
(* and for answers of any length: the types, that the lock keeps the       *)
(* answers of the boards apart, and what a switch shows.                   *)
(***************************************************************************)
EXTENDS Laite, SequenceTheorems, TLAPS

-----------------------------------------------------------------------------
(* The type invariant *)

Asking == {"lock", "flush", "query", "read", "add"}
Turning == {"write", "state"}

\* What a call is about.
CallInv ==
    /\ call \in [Workers -> [op : {"none", "setup", "on", "off"},
                             addr : Addrs \cup {0}, idx : Nat]]
    /\ data \in [Workers -> Seq(Addrs)]
    /\ \A w \in Workers :
          /\ pc[w] \in Asking => call[w].addr \in Addrs
          /\ pc[w] \in Turning => Self(w) \in added /\ call[w].op \in {"on", "off"}

TypeInv == TypeOK /\ CallInv

LEMMA SwitchType ==
  ASSUME NEW s \in Switches
  PROVE  s = [addr |-> s.addr, idx |-> s.idx] /\ s.addr \in Addrs /\ s.idx \in Nat
  BY LaiteAssumption DEF Addrs

LEMMA Init_Type ==
  ASSUME Init
  PROVE  TypeInv
  <1>1. NoCall \in [op : {"none", "setup", "on", "off"}, addr : Addrs \cup {0}, idx : Nat]
    BY DEF NoCall
  <1>2. None \in Seq(Addrs) /\ Len(None) <= 16
    BY DEF None
  <1>3. state \in [Switches -> BOOLEAN]
    BY Zenon DEF Init
  <1>4. calls \in 0..MaxCalls
    BY LaiteAssumption DEF Init
  <1>5. lamp \in [Addrs -> [Outlets -> BOOLEAN]]
    BY Zenon DEF Init
  <1> QED BY <1>1, <1>2, <1>3, <1>4, <1>5 DEF Init, TypeInv, TypeOK, CallInv, Asking, Turning

LEMMA StatusType ==
  ASSUME NEW s \in Seq(Addrs)
  PROVE  Status(s) \in Seq(Addrs) /\ Len(Status(s)) <= 16
  <1>1. CASE Len(s) = 16
    <2>1. \A i \in 6..16 : s[i] \in Addrs
      <3>1. \A i \in 1..Len(s) : s[i] \in Addrs
        OBVIOUS
      <3>2. \A i \in 6..16 : i \in 1..16
        OBVIOUS
      <3> QED BY <1>1, <3>1, <3>2
    <2>2. SubSeq(s, 6, 16) \in Seq(Addrs) /\ Len(SubSeq(s, 6, 16)) = 11
      BY <2>1, SubSeqProperties
    <2> QED BY <1>1, <2>2 DEF Status
  <1>2. CASE Len(s) # 16
    BY <1>2 DEF Status, None
  <1> QED BY <1>1, <1>2

\* The bytes that a read takes, and the ones that it leaves.
LEMMA ReadParts ==
  ASSUME NEW s \in Seq(Addrs)
  PROVE  LET n == Least(READ_LEN, Len(s))
         IN  /\ n \in 0..Len(s)
             /\ SubSeq(s, 1, n) \in Seq(Addrs) /\ SubSeq(s, n + 1, Len(s)) \in Seq(Addrs)
             /\ Len(SubSeq(s, 1, n)) = n
             /\ \A i \in 1..n : SubSeq(s, 1, n)[i] = s[i]
  <1> DEFINE n == Least(READ_LEN, Len(s))
  <1>1. n \in 0..Len(s) /\ n \in Nat /\ Len(s) \in Nat
    BY DEF Least, READ_LEN
  <1> HIDE DEF n
  <1>2. \A i \in 1..n : i \in 1..Len(s)
    BY <1>1
  <1>3. /\ SubSeq(s, 1, n) \in Seq(Addrs) /\ Len(SubSeq(s, 1, n)) = n
        /\ \A i \in 1..n : SubSeq(s, 1, n)[i] = s[i]
    BY <1>1, <1>2, SubSeqProperties
  <1>4. SubSeq(s, n + 1, Len(s)) \in Seq(Addrs)
    BY <1>1, SubSeqProperties
  <1> QED BY <1>1, <1>3, <1>4 DEF n

LEMMA AnswerType ==
  ASSUME TypeInv, Answer
  PROVE  /\ input' \in Seq(Addrs) /\ bus' \subseteq Addrs
         /\ \E a \in bus : /\ bus' = bus \ {a}
                           /\ \A i \in 1..Len(input') :
                                 (i \in 1..Len(input) /\ input'[i] = input[i]) \/ input'[i] = a
  <1>1. PICK a \in bus : /\ bus' = bus \ {a}
                         /\ \/ \E n \in Lengths : input' = input \o [i \in 1..n |-> a]
                            \/ UNCHANGED input
    BY DEF Answer
  <1>2. a \in Addrs /\ input \in Seq(Addrs) /\ bus' \subseteq Addrs
    BY <1>1 DEF TypeInv, TypeOK
  <1>3. CASE UNCHANGED input
    BY <1>1, <1>2, <1>3
  <1>4. ASSUME NEW n \in Lengths, input' = input \o [i \in 1..n |-> a]
        PROVE  /\ input' \in Seq(Addrs)
               /\ \A i \in 1..Len(input') : (i \in 1..Len(input) /\ input'[i] = input[i])
                                            \/ input'[i] = a
    <2>1. n \in Nat
      BY LaiteAssumption
    <2> DEFINE t == [i \in 1..n |-> a]
    <2>2. t \in Seq(Addrs) /\ Len(t) = n /\ \A i \in 1..n : t[i] = a
      BY <1>2, <2>1
    <2> HIDE DEF t
    <2>3. input' = input \o t
      BY <1>4 DEF t
    <2> QED BY <1>2, <2>1, <2>2, <2>3
  <1> QED BY <1>1, <1>2, <1>3, <1>4

LEMMA ReadType ==
  ASSUME TypeInv, NEW w \in Workers, Read(w)
  PROVE  TypeInv'
  <1> DEFINE n == Least(READ_LEN, Len(input))
             got == Status(SubSeq(input, 1, n))
  <1>1. /\ data' = [data EXCEPT ![w] = got] /\ input' = SubSeq(input, n + 1, Len(input))
        /\ input \in Seq(Addrs)
    BY DEF Read, TypeInv, TypeOK
  <1>2. got \in Seq(Addrs) /\ Len(got) <= 16 /\ input' \in Seq(Addrs)
    BY <1>1, ReadParts, StatusType
  <1> HIDE DEF n, got
  <1>3. /\ data' \in [Workers -> Seq(Addrs)]
        /\ \A v \in Workers : data'[v] \in Seq(Addrs) /\ Len(data'[v]) <= 16
    BY <1>1, <1>2 DEF TypeInv, TypeOK, CallInv
  <1> QED BY <1>2, <1>3 DEF Read, Goto, switchVars, Asking, Turning, Self, TypeInv, TypeOK, CallInv

LEMMA FinishType ==
  ASSUME TypeInv, NEW w \in Workers, Finish(w)
  PROVE  /\ pc' \in [Workers -> {"idle", "lock", "flush", "query", "read", "add", "write", "state"}]
         /\ call' \in [Workers -> [op : {"none", "setup", "on", "off"},
                                   addr : Addrs \cup {0}, idx : Nat]]
         /\ pc'[w] = "idle"
         /\ \A v \in Workers \ {w} : pc'[v] = pc[v] /\ call'[v] = call[v]
  <1>1. NoCall \in [op : {"none", "setup", "on", "off"}, addr : Addrs \cup {0}, idx : Nat]
    BY DEF NoCall
  <1> QED BY <1>1 DEF Finish, Goto, TypeInv, TypeOK, CallInv

LEMMA AddType ==
  ASSUME TypeInv, NEW w \in Workers, AddDevices(w)
  PROVE  TypeInv'
  <1>1. added' \subseteq Switches /\ doubtful' \subseteq added' /\ added \subseteq added'
    BY DEF AddDevices, Channels, TypeInv, TypeOK
  <1>2. state' \in [Switches -> BOOLEAN]
    <2>1. \A s \in Switches : InitialState(s, data[w]) \in BOOLEAN
      <3>1. TAKE s \in Switches
      <3>2. CASE Len(data[w]) = 16 /\ s.idx \in Outlets
        <4>1. PICK i \in Outlets : i = s.idx
          BY <3>2
        <4>2. i + 1 \in 1..16
          BY LaiteAssumption
        <4>3. data[w] \in Seq(Addrs)
          BY DEF TypeInv, TypeOK
        <4>4. data[w][i + 1] \in Addrs
          BY <3>2, <4>2, <4>3
        <4>5. lamp[data[w][i + 1]][i] \in BOOLEAN
          BY <4>4, Zenon DEF TypeInv, TypeOK
        <4> QED BY <3>2, <4>1, <4>5, Zenon DEF InitialState
      <3>3. CASE ~(Len(data[w]) = 16 /\ s.idx \in Outlets)
        BY <3>3, Zenon DEF InitialState
      <3> QED BY <3>2, <3>3
    <2> QED BY <2>1, Zenon DEF AddDevices, TypeInv, TypeOK
  <1>3. Finish(w)
    BY DEF AddDevices
  <1>4. None \in Seq(Addrs) /\ Len(None) <= 16
    BY DEF None
  <1>5. /\ data' \in [Workers -> Seq(Addrs)]
        /\ \A v \in Workers : data'[v] \in Seq(Addrs) /\ Len(data'[v]) <= 16
    BY <1>4 DEF AddDevices, TypeInv, TypeOK, CallInv
  <1>6. CallInv'
    BY <1>1, <1>3, <1>5, FinishType DEF Asking, Turning, Self, CallInv, TypeInv
  <1> QED BY <1>1, <1>2, <1>3, <1>5, <1>6, FinishType DEF AddDevices, lineVars, TypeInv, TypeOK

LEMMA LitType ==
  ASSUME TypeInv, NEW c
  PROVE  Lit(c) \in [Addrs -> [Outlets -> BOOLEAN]]
  <1> DEFINE f == [o \in Outlets |-> IF o \in Switched(c.idx) THEN c.op = "on" ELSE lamp[c.addr][o]]
  <1>1. lamp \in [Addrs -> [Outlets -> BOOLEAN]] /\ Lit(c) = [lamp EXCEPT ![c.addr] = f]
    BY Zenon DEF Lit, TypeInv, TypeOK
  <1>2. ASSUME c.addr \in Addrs
        PROVE  f \in [Outlets -> BOOLEAN]
    <2>1. \A o \in Outlets : lamp[c.addr][o] \in BOOLEAN
      BY <1>1, <1>2, Zenon
    <2> QED BY <2>1, Zenon
  <1> HIDE DEF f
  <1>3. \A a \in Addrs : Lit(c)[a] = IF a = c.addr THEN f ELSE lamp[a]
    BY <1>1
  <1>4. DOMAIN Lit(c) = Addrs /\ Lit(c) = [a \in Addrs |-> Lit(c)[a]]
    BY <1>1
  <1> QED BY <1>1, <1>2, <1>3, <1>4, Zenon

LEMMA WriteType ==
  ASSUME TypeInv, NEW w \in Workers, WriteCommand(w)
  PROVE  TypeInv'
  <1>1. Self(w) \in added
    BY DEF WriteCommand, Turning, TypeInv, CallInv
  <1>2. lamp' \in [Addrs -> [Outlets -> BOOLEAN]]
    BY LitType, Zenon DEF WriteCommand, TypeInv, TypeOK
  <1>3. doubtful' \subseteq added
    BY <1>1, Zenon DEF WriteCommand, Doubts, TypeInv, TypeOK
  <1>4. bus' \subseteq Addrs
    BY DEF WriteCommand, TypeInv, TypeOK
  <1>5. /\ pc' = [pc EXCEPT ![w] = "state"] /\ pc[w] = "write"
        /\ UNCHANGED <<port, input, lock, call, data, setUp, added, state, calls>>
    BY Zenon DEF WriteCommand, Goto, switchVars
  <1>6. CallInv'
    BY <1>5 DEF Asking, Turning, Self, CallInv, TypeInv, TypeOK
  <1> QED BY <1>2, <1>3, <1>4, <1>5, <1>6 DEF TypeInv, TypeOK

LEMMA CallsType ==
  ASSUME TypeInv, NEW w \in Workers, CallSetup(w) \/ CallTurn(w)
  PROVE  TypeInv'
  <1>1. CASE CallSetup(w)
    <2>1. PICK a \in Addrs :
            /\ setUp' = setUp \cup {a}
            /\ call' = [call EXCEPT ![w] = [op |-> "setup", addr |-> a, idx |-> 0]]
      BY <1>1 DEF CallSetup
    <2> QED BY <1>1, <2>1 DEF CallSetup, Goto, lineVars, Asking, Turning, Self, TypeInv, TypeOK, CallInv
  <1>2. CASE CallTurn(w)
    <2>1. PICK s \in added, op \in {"on", "off"} :
            call' = [call EXCEPT ![w] = [op |-> op, addr |-> s.addr, idx |-> s.idx]]
      BY <1>2 DEF CallTurn
    <2>2. s \in Switches /\ s = [addr |-> s.addr, idx |-> s.idx] /\ s.addr \in Addrs /\ s.idx \in Nat
      BY <2>1, SwitchType DEF TypeInv, TypeOK
    <2>3. Self(w)' = s /\ call'[w].op = op
      BY <2>1, <2>2 DEF Self, TypeInv, CallInv
    <2>4. calls' \in 0..MaxCalls
      BY <1>2, LaiteAssumption DEF CallTurn, TypeInv, TypeOK
    <2>5. /\ pc' = [pc EXCEPT ![w] = "write"] /\ pc[w] = "idle"
          /\ UNCHANGED <<lineVars, lock, data, switchVars, lamp, doubtful>>
      BY <1>2 DEF CallTurn, Goto
    <2>6. CallInv'
      <3>1. call' \in [Workers -> [op : {"none", "setup", "on", "off"},
                                   addr : Addrs \cup {0}, idx : Nat]]
        BY <2>1, <2>2 DEF TypeInv, CallInv
      <3>2. ASSUME NEW v \in Workers
            PROVE  /\ pc'[v] \in Asking => call'[v].addr \in Addrs
                   /\ pc'[v] \in Turning => Self(v)' \in added' /\ call'[v].op \in {"on", "off"}
        <4>1. CASE v = w
          BY <2>3, <2>5, <4>1 DEF switchVars, Asking, TypeInv, TypeOK
        <4>2. CASE v # w
          BY <2>1, <2>5, <4>2 DEF switchVars, Self, TypeInv, TypeOK, CallInv
        <4> QED BY <4>1, <4>2
      <3> QED BY <2>5, <3>1, <3>2 DEF CallInv, TypeInv
    <2> QED BY <2>4, <2>5, <2>6 DEF lineVars, switchVars, TypeInv, TypeOK
  <1> QED BY <1>1, <1>2

LEMMA Step_Type ==
  ASSUME TypeInv, [Next]_vars
  PROVE  TypeInv'
  <1>1. CASE Close
    BY <1>1 DEF Close, switchVars, Asking, Turning, Self, TypeInv, TypeOK, CallInv
  <1>2. CASE Answer
    <2>1. input' \in Seq(Addrs) /\ bus' \subseteq Addrs
      BY <1>2, AnswerType
    <2>2. UNCHANGED <<port, lock, pc, call, data, switchVars, lamp, calls, doubtful>>
      BY <1>2 DEF Answer
    <2> QED BY <2>1, <2>2 DEF switchVars, Asking, Turning, Self, TypeInv, TypeOK, CallInv
  <1>3. ASSUME NEW w \in Workers, Acquire(w) \/ Flush(w) \/ Query(w) \/ Refuse(w)
        PROVE  TypeInv'
    <2>1. CASE Acquire(w)
      BY <2>1 DEF Acquire, Goto, lineVars, switchVars, Asking, Turning, Self, TypeInv, TypeOK, CallInv
    <2>2. CASE Flush(w)
      <3>1. << >> \in Seq(Addrs)
        OBVIOUS
      <3> QED BY <2>2, <3>1 DEF Flush, Goto, switchVars, Asking, Turning, Self, TypeInv, TypeOK, CallInv
    <2>3. CASE Query(w)
      <3>1. call[w].addr \in Addrs
        BY <2>3 DEF Query, Asking, TypeInv, CallInv
      <3> QED BY <2>3, <3>1 DEF Query, Goto, switchVars, Asking, Turning, Self, TypeInv, TypeOK, CallInv
    <2>4. CASE Refuse(w)
      BY <2>4 DEF Refuse, Goto, lineVars, switchVars, Asking, Turning, Self, TypeInv, TypeOK, CallInv
    <2> QED BY <1>3, <2>1, <2>2, <2>3, <2>4
  <1>4. ASSUME NEW w \in Workers, Raise(w)
        PROVE  TypeInv'
    <2>1. lock' \in Workers \cup {Nobody}
      BY <1>4 DEF Raise, ReleasedBy, TypeInv, TypeOK
    <2>2. Finish(w) /\ UNCHANGED <<lineVars, data, switchVars, lamp, calls, doubtful>>
      BY <1>4 DEF Raise
    <2> QED BY <2>1, <2>2, FinishType DEF lineVars, switchVars, Asking, Turning, Self, TypeInv, TypeOK, CallInv
  <1>5. ASSUME NEW w \in Workers, SetState(w)
        PROVE  TypeInv'
    <2>1. state' \in [Switches -> BOOLEAN]
      <3>1. \A op : Shown(op, Valid(call[w].idx)) \in BOOLEAN
        BY Zenon DEF Shown, Valid
      <3>2. state' = [state EXCEPT ![Self(w)] = Shown(call[w].op, Valid(call[w].idx))]
        BY <1>5, Zenon DEF SetState
      <3> HIDE DEF Shown
      <3> QED BY <3>1, <3>2, Zenon DEF TypeInv, TypeOK
    <2>2. Finish(w) /\ UNCHANGED <<lineVars, lock, data, setUp, added, lamp, calls, doubtful>>
      BY <1>5 DEF SetState
    <2> QED BY <2>1, <2>2, FinishType DEF lineVars, Asking, Turning, Self, TypeInv, TypeOK, CallInv
  <1>6. CASE UNCHANGED vars
    BY <1>6 DEF vars, lineVars, switchVars, Asking, Turning, Self, TypeInv, TypeOK, CallInv
  <1> QED BY <1>1, <1>2, <1>3, <1>4, <1>5, <1>6, CallsType, ReadType, AddType, WriteType DEF Next, Work

LEMMA TypeHolds == Spec => []TypeInv
  BY Init_Type, Step_Type, PTL DEF Spec

-----------------------------------------------------------------------------
(* The lock *)

Locked == {"flush", "query", "read"}

\* The lock belongs to the one that asks.  While the port is open the board that it
\* asked is the only one that may answer, and once; only its bytes are read.
LockInv ==
    /\ \A w \in Workers : pc[w] \in Locked <=> lock = w
    /\ port = "open" =>
          /\ \A a \in bus : \E w \in Workers : pc[w] = "read" /\ a = call[w].addr
          /\ \A w \in Workers :
                /\ pc[w] = "query" => input = << >>
                /\ pc[w] = "read" =>
                      /\ \A i \in 1..Len(input) : input[i] = call[w].addr
                      /\ call[w].addr \in bus => input = << >>

OwnInv == AnswerIsOwn /\ LockInv

LEMMA StatusOwn ==
  ASSUME NEW s \in Seq(Addrs), NEW a, \A i \in 1..Len(s) : s[i] = a
  PROVE  \A i \in 1..Len(Status(s)) : Status(s)[i] = a
  <1>1. CASE Len(s) = 16
    <2>1. \A i \in 6..16 : s[i] \in Addrs
      <3>1. \A i \in 1..Len(s) : s[i] \in Addrs
        OBVIOUS
      <3>2. \A i \in 6..16 : i \in 1..16
        OBVIOUS
      <3> QED BY <1>1, <3>1, <3>2
    <2>2. /\ Len(SubSeq(s, 6, 16)) = 11
          /\ \A i \in 1..11 : SubSeq(s, 6, 16)[i] = s[6 + i - 1] /\ 6 + i - 1 \in 1..16
      BY <2>1, SubSeqProperties
    <2>3. Status(s) = SubSeq(s, 6, 16)
      BY <1>1 DEF Status
    <2> QED BY <1>1, <2>2, <2>3
  <1>2. CASE Len(s) # 16
    BY <1>2 DEF Status, None
  <1> QED BY <1>1, <1>2

LEMMA ReadOwn ==
  ASSUME TypeInv, OwnInv, NEW w \in Workers, Read(w)
  PROVE  OwnInv'
  <1> DEFINE n == Least(READ_LEN, Len(input))
             s == SubSeq(input, 1, n)
  <1>1. /\ data' = [data EXCEPT ![w] = Status(s)]
        /\ pc[w] = "read" /\ port = "open" /\ lock' = Nobody
        /\ pc' = [pc EXCEPT ![w] = "add"] /\ call' = call /\ bus' = bus /\ port' = port
    BY DEF Read, Goto
  <1>2. /\ \A i \in 1..Len(input) : input[i] = call[w].addr
        /\ call[w].addr \in bus => input = << >>
    BY <1>1 DEF OwnInv, LockInv
  <1>3. input \in Seq(Addrs)
    BY DEF TypeInv, TypeOK
  <1>4. call[w].addr \notin bus
    BY <1>2, <1>3 DEF Read, READ_LEN
  <1>5. \A v \in Workers : pc[v] \in Locked => v = w
    BY <1>1 DEF OwnInv, LockInv, Locked
  <1>6. bus = {}
    BY <1>1, <1>4, <1>5 DEF OwnInv, LockInv, Locked
  <1>7. s \in Seq(Addrs) /\ \A i \in 1..Len(s) : s[i] = call[w].addr
    <2>1. n \in 0..Len(input) /\ s \in Seq(Addrs) /\ Len(s) = n /\ \A i \in 1..n : s[i] = input[i]
      BY <1>3, ReadParts
    <2> HIDE DEF n, s
    <2> QED BY <1>2, <1>3, <2>1
  <1> HIDE DEF n, s
  <1>8. \A i \in 1..Len(Status(s)) : Status(s)[i] = call[w].addr
    BY <1>7, StatusOwn
  <1>9. AnswerIsOwn'
    BY <1>1, <1>8 DEF AnswerIsOwn, OwnInv, TypeInv, TypeOK, CallInv
  <1>10. LockInv'
    <2>1. \A v \in Workers : pc'[v] \in Locked <=> lock' = v
      BY <1>1, <1>5, LaiteAssumption DEF Locked, TypeInv, TypeOK
    <2>2. \A v \in Workers : pc'[v] \notin Locked
      BY <1>1, <2>1, LaiteAssumption
    <2> QED BY <1>1, <1>6, <2>1, <2>2 DEF LockInv, Locked
  <1> QED BY <1>9, <1>10 DEF OwnInv

LEMMA AnswerOwn ==
  ASSUME TypeInv, OwnInv, Answer
  PROVE  OwnInv'
  <1>1. UNCHANGED <<port, lock, pc, call, data>>
    BY DEF Answer
  <1>2. PICK a \in bus :
          /\ bus' = bus \ {a}
          /\ \A i \in 1..Len(input') :
                (i \in 1..Len(input) /\ input'[i] = input[i]) \/ input'[i] = a
    BY AnswerType
  <1>3. AnswerIsOwn'
    BY <1>1 DEF AnswerIsOwn, OwnInv
  <1>4. CASE port # "open"
    BY <1>1, <1>3, <1>4 DEF OwnInv, LockInv
  <1>5. CASE port = "open"
    <2>1. PICK w \in Workers : pc[w] = "read" /\ a = call[w].addr
      BY <1>5 DEF OwnInv, LockInv
    <2>2. \A v \in Workers : pc[v] \in Locked => v = w
      BY <2>1 DEF OwnInv, LockInv, Locked
    <2>3. \A i \in 1..Len(input') : input'[i] = a
      BY <1>2, <1>5, <2>1 DEF OwnInv, LockInv
    <2>4. bus' = {}
      BY <1>2, <1>5, <2>1, <2>2 DEF OwnInv, LockInv, Locked
    <2> QED BY <1>1, <1>3, <1>5, <2>1, <2>2, <2>3, <2>4 DEF OwnInv, LockInv, Locked
  <1> QED BY <1>4, <1>5

LEMMA Step_Own ==
  ASSUME TypeInv, OwnInv, [Next]_vars
  PROVE  OwnInv'
  <1> USE LaiteAssumption DEF OwnInv, AnswerIsOwn, LockInv, Locked
  <1>1. CASE Close
    BY <1>1 DEF Close
  <1>2. ASSUME NEW w \in Workers, CallSetup(w) \/ CallTurn(w)
        PROVE  OwnInv'
    <2>1. pc[w] = "idle" /\ pc'[w] \in {"lock", "write"} /\ UNCHANGED <<lineVars, lock, data>>
      BY <1>2 DEF CallSetup, CallTurn, Goto, TypeInv, TypeOK
    <2>2. \A v \in Workers \ {w} : pc'[v] = pc[v] /\ call'[v] = call[v]
      BY <1>2 DEF CallSetup, CallTurn, Goto, TypeInv, TypeOK, CallInv
    <2>3. \A v \in Workers : pc'[v] \in {"flush", "query", "read", "add"} => pc'[v] = pc[v] /\ call'[v] = call[v]
      BY <2>1, <2>2
    <2> QED BY <2>1, <2>2, <2>3 DEF lineVars
  <1>3. ASSUME NEW w \in Workers, Acquire(w)
        PROVE  OwnInv'
    <2>1. /\ pc[w] = "lock" /\ pc' = [pc EXCEPT ![w] = "flush"] /\ lock = Nobody /\ lock' = w
          /\ UNCHANGED <<lineVars, call, data>>
      BY <1>3 DEF Acquire, LockFree, Goto
    <2> QED BY <2>1 DEF lineVars, TypeInv, TypeOK
  <1>4. ASSUME NEW w \in Workers, Raise(w)
        PROVE  OwnInv'
    <2>1. /\ pc[w] \in {"flush", "query", "read", "write"} /\ port = "closed" /\ port' = "closed"
          /\ lock' = ReleasedBy(w) /\ pc' = [pc EXCEPT ![w] = "idle"]
          /\ call' = [call EXCEPT ![w] = NoCall] /\ data' = data
      BY <1>4 DEF Raise, Finish, Goto, lineVars
    <2>2. \A v \in Workers : pc'[v] \in {"flush", "query", "read", "add"}
                             => v # w /\ pc'[v] = pc[v] /\ call'[v] = call[v]
      BY <2>1 DEF TypeInv, TypeOK, CallInv
    <2>3. \A v \in Workers : pc'[v] \in Locked <=> lock' = v
      BY <2>1, <2>2 DEF ReleasedBy, TypeInv, TypeOK
    <2> QED BY <2>1, <2>2, <2>3
  <1>5. ASSUME NEW w \in Workers, Flush(w)
        PROVE  OwnInv'
    <2>1. /\ pc[w] = "flush" /\ pc' = [pc EXCEPT ![w] = "query"] /\ input' = << >>
          /\ UNCHANGED <<port, bus, lock, call, data>>
      BY <1>5 DEF Flush, Goto
    <2> QED BY <2>1 DEF TypeInv, TypeOK
  <1>6. ASSUME NEW w \in Workers, Query(w)
        PROVE  OwnInv'
    <2>1. /\ pc[w] = "query" /\ pc' = [pc EXCEPT ![w] = "read"] /\ bus' = bus \cup {call[w].addr}
          /\ port = "open" /\ UNCHANGED <<port, input, lock, call, data>>
      BY <1>6 DEF Query, Goto
    <2>2. bus = {} /\ input = << >>
      BY <2>1
    <2> QED BY <2>1, <2>2 DEF TypeInv, TypeOK
  <1>7. ASSUME NEW w \in Workers, AddDevices(w)
        PROVE  OwnInv'
    <2>1. /\ pc[w] = "add" /\ pc' = [pc EXCEPT ![w] = "idle"]
          /\ call' = [call EXCEPT ![w] = NoCall] /\ data' = [data EXCEPT ![w] = None]
          /\ UNCHANGED <<port, input, bus, lock>>
      BY <1>7 DEF AddDevices, Finish, Goto, lineVars
    <2>2. \A v \in Workers : pc'[v] \in {"flush", "query", "read", "add"}
                             => v # w /\ pc'[v] = pc[v] /\ call'[v] = call[v] /\ data'[v] = data[v]
      BY <2>1 DEF TypeInv, TypeOK, CallInv
    <2>3. \A v \in Workers \ {w} : pc'[v] = pc[v] /\ call'[v] = call[v]
      BY <2>1 DEF TypeInv, TypeOK, CallInv
    <2> QED BY <2>1, <2>2, <2>3
  <1>8. ASSUME NEW w \in Workers, WriteCommand(w) \/ Refuse(w) \/ SetState(w)
        PROVE  OwnInv'
    <2>1. /\ pc[w] \in {"write", "state"} /\ pc'[w] \in {"state", "idle"}
          /\ \A v \in Workers \ {w} : pc'[v] = pc[v] /\ call'[v] = call[v]
          /\ UNCHANGED <<port, input, lock, data>> /\ bus' \subseteq bus
      BY <1>8 DEF WriteCommand, Refuse, SetState, Finish, Goto, lineVars, TypeInv, TypeOK, CallInv
    <2>2. \A v \in Workers : pc'[v] \in {"flush", "query", "read", "add"}
                             => pc'[v] = pc[v] /\ call'[v] = call[v]
      BY <2>1
    <2> QED BY <2>1, <2>2
  <1>9. CASE UNCHANGED vars
    BY <1>9 DEF vars, lineVars
  <1> QED BY <1>1, <1>2, <1>3, <1>4, <1>5, <1>6, <1>7, <1>8, <1>9, ReadOwn, AnswerOwn DEF Next, Work

LEMMA OwnHolds == Spec => []OwnInv
  <1>1. Init => OwnInv
    BY LaiteAssumption DEF Init, OwnInv, AnswerIsOwn, LockInv, Locked
  <1> QED BY <1>1, Step_Own, TypeHolds, PTL DEF Spec

-----------------------------------------------------------------------------
(* What a switch shows *)

Shows(s, b) == \A o \in Switched(s.idx) : lamp[s.addr][o] = b

LEMMA ShowsBurns == ASSUME NEW s, NEW b PROVE Burns(s) \subseteq {b} <=> Shows(s, b)
  BY Zenon DEF Burns, Shows

\* Between the command and the assignment of a call the outlets are ahead of the
\* state: they are what the call is about to show.
AgreeInv ==
    \A s \in added \ doubtful : Valid(s.idx) =>
        /\ Setting(s) = {} => Shows(s, state[s])
        /\ \A w \in Setting(s) : Shows(s, call[w].op = "on")

\* Whatever leaves the switches, the outlets and the calls between the two alone.
LEMMA NothingShown ==
  ASSUME AgreeInv, UNCHANGED <<added, state, lamp, doubtful>>,
         \A v \in Workers : /\ pc'[v] = "state" <=> pc[v] = "state"
                            /\ pc[v] = "state" => call'[v] = call[v]
  PROVE  AgreeInv'
  <1>1. \A s : Setting(s)' = Setting(s)
    BY DEF Setting, Self
  <1>2. \A s, w : w \in Setting(s) => call'[w] = call[w]
    BY DEF Setting
  <1> QED BY <1>1, <1>2 DEF AgreeInv, Shows

LEMMA WriteAgrees ==
  ASSUME TypeInv, AgreeInv, NEW w \in Workers, WriteCommand(w)
  PROVE  AgreeInv'
  <1> DEFINE me == Self(w)
  <1>1. /\ pc[w] = "write" /\ pc' = [pc EXCEPT ![w] = "state"] /\ call' = call
        /\ UNCHANGED <<added, state>>
    BY Zenon DEF WriteCommand, Goto, switchVars
  <1>2. /\ \A s : Setting(s)' = IF s = me THEN Setting(s) \cup {w} ELSE Setting(s)
        /\ \A s : w \notin Setting(s)
    BY <1>1 DEF Setting, Self, TypeInv, TypeOK
  <1>3. me \in added /\ added \subseteq Switches /\ me.addr = call[w].addr /\ me.idx = call[w].idx
    BY <1>1 DEF Self, Turning, TypeInv, TypeOK, CallInv
  <1>4. CASE lamp' = Lit(call[w]) /\ doubtful' = (doubtful \ {me}) \cup Doubts(w)
    <2>1. ASSUME NEW s \in added' \ doubtful', Valid(s.idx)
          PROVE  /\ Setting(s)' = {} => Shows(s, state[s])'
                 /\ \A v \in Setting(s)' : Shows(s, call[v].op = "on")'
      <3>1. s \in Switches /\ s.addr \in Addrs
        BY <1>1, <1>3, <2>1, SwitchType
      <3>2. lamp \in [Addrs -> [Outlets -> BOOLEAN]]
        BY DEF TypeInv, TypeOK
      <3>3. \A o \in Outlets : lamp'[s.addr][o] =
                IF s.addr = call[w].addr /\ o \in Switched(call[w].idx) THEN call[w].op = "on"
                ELSE lamp[s.addr][o]
        <4>1. CASE s.addr = call[w].addr
          BY <1>4, <3>1, <3>2, <4>1, Zenon DEF Lit
        <4>2. CASE s.addr # call[w].addr
          BY <1>4, <3>1, <3>2, <4>2, Zenon DEF Lit
        <4> QED BY <4>1, <4>2, Zenon
      <3>4. Switched(s.idx) \subseteq Outlets
        BY DEF Switched
      <3>5. CASE s = me
        <4>1. Setting(s) = {}
          BY <1>4, <2>1, <3>5 DEF Doubts
        <4>2. Setting(s)' = {w}
          BY <1>2, <3>5, <4>1
        <4>3. \A o \in Switched(s.idx) : lamp'[s.addr][o] = (call[w].op = "on")
          BY <1>3, <3>3, <3>4, <3>5, Zenon
        <4> QED BY <1>1, <4>2, <4>3, Zenon DEF Shows
      <3>6. CASE s # me
        <4>1. s \in added \ doubtful /\ Setting(s)' = Setting(s)
          BY <1>1, <1>2, <1>4, <2>1, <3>6
        <4>2. s.addr = call[w].addr => Switched(s.idx) \cap Switched(call[w].idx) = {}
          BY <1>4, <2>1, <3>6, <4>1, Zenon DEF Doubts
        <4>3. \A o \in Switched(s.idx) : lamp'[s.addr][o] = lamp[s.addr][o]
          BY <3>3, <3>4, <4>2, Zenon
        <4>4. \A b : Shows(s, b) => \A o \in Switched(s.idx) : lamp'[s.addr][o] = b
          BY <4>3, Zenon DEF Shows
        <4>5. /\ Setting(s) = {} => Shows(s, state[s])
              /\ \A v \in Setting(s) : Shows(s, call[v].op = "on")
          BY <2>1, <4>1, Zenon DEF AgreeInv
        <4> QED BY <1>1, <4>1, <4>4, <4>5, Zenon DEF Shows
      <3> QED BY <3>5, <3>6
    <2> QED BY <2>1, Zenon DEF AgreeInv, Valid
  <1>5. CASE lamp' = lamp /\ doubtful' = doubtful \cup {me}
    <2>1. ASSUME NEW s \in added' \ doubtful', Valid(s.idx)
          PROVE  /\ Setting(s)' = {} => Shows(s, state[s])'
                 /\ \A v \in Setting(s)' : Shows(s, call[v].op = "on")'
      <3>1. s \in added \ doubtful /\ s # me /\ Setting(s)' = Setting(s)
        BY <1>1, <1>2, <1>5, <2>1
      <3>2. /\ Setting(s) = {} => Shows(s, state[s])
            /\ \A v \in Setting(s) : Shows(s, call[v].op = "on")
        BY <2>1, <3>1, Zenon DEF AgreeInv
      <3> QED BY <1>1, <1>5, <3>1, <3>2, Zenon DEF Shows
    <2> QED BY <2>1, Zenon DEF AgreeInv, Valid
  <1> QED BY <1>4, <1>5, Zenon DEF WriteCommand

LEMMA SetAgrees ==
  ASSUME TypeInv, AgreeInv, NEW w \in Workers, SetState(w)
  PROVE  AgreeInv'
  <1> DEFINE me == Self(w)
             b == Shown(call[w].op, Valid(call[w].idx))
  <1>1. /\ pc[w] = "state" /\ pc' = [pc EXCEPT ![w] = "idle"]
        /\ call' = [call EXCEPT ![w] = NoCall]
        /\ state' = [state EXCEPT ![me] = b] /\ UNCHANGED <<added, lamp, doubtful>>
    BY Zenon DEF SetState, Finish, Goto
  <1>2. \A s : Setting(s)' = Setting(s) \ {w}
    BY <1>1 DEF Setting, Self, TypeInv, TypeOK, CallInv
  <1>3. me \in added /\ me \in Switches /\ w \in Setting(me) /\ me.idx = call[w].idx
        /\ call[w].op \in {"on", "off"}
    BY <1>1 DEF Setting, Self, Turning, TypeInv, TypeOK, CallInv
  <1>4. Valid(me.idx) => b = (call[w].op = "on")
    <2>1. CASE call[w].op = "on"
      BY <1>3, <2>1, Zenon DEF Shown
    <2>2. CASE call[w].op # "on"
      BY <1>3, <2>2, Zenon DEF Shown
    <2> QED BY <2>1, <2>2
  <1> HIDE DEF b
  <1>5. ASSUME NEW s \in added' \ doubtful', Valid(s.idx)
        PROVE  /\ Setting(s)' = {} => Shows(s, state[s])'
               /\ \A v \in Setting(s)' : Shows(s, call[v].op = "on")'
    <2>1. s \in added \ doubtful
      BY <1>1, <1>5
    <2>2. /\ Setting(s) = {} => Shows(s, state[s])
          /\ \A v \in Setting(s) : Shows(s, call[v].op = "on")
      BY <1>5, <2>1, Zenon DEF AgreeInv
    <2>3. \A v \in Setting(s)' : v \in Setting(s) /\ call'[v] = call[v]
      BY <1>1, <1>2 DEF Setting, TypeInv, CallInv
    <2>4. Setting(s)' = {} => Shows(s, state[s])'
      <3>1. CASE s = me
        <4>1. state'[s] = b
          BY <1>1, <1>3, <3>1, Zenon DEF TypeInv, TypeOK
        <4>2. Shows(s, b)
          BY <1>3, <1>4, <1>5, <2>2, <3>1, Zenon
        <4> QED BY <1>1, <4>1, <4>2, Zenon DEF Shows
      <3>2. CASE s # me
        <4>1. state'[s] = state[s]
          BY <1>1, <1>3, <2>1, <3>2, Zenon DEF TypeInv, TypeOK
        <4>2. w \notin Setting(s)
          BY <3>2 DEF Setting
        <4> QED BY <1>1, <1>2, <2>2, <4>1, <4>2, Zenon DEF Shows
      <3> QED BY <3>1, <3>2
    <2> QED BY <1>1, <2>2, <2>3, <2>4, Zenon DEF Shows
  <1> QED BY <1>5, Zenon DEF AgreeInv, Valid

LEMMA Step_Agree ==
  ASSUME TypeInv, AgreeInv, [Next]_vars
  PROVE  AgreeInv'
  <1>1. CASE Close
    BY <1>1, NothingShown DEF Close, switchVars
  <1>2. CASE Answer
    BY <1>2, NothingShown DEF Answer, switchVars
  <1>3. ASSUME NEW w \in Workers,
               CallSetup(w) \/ CallTurn(w) \/ Acquire(w) \/ Raise(w) \/ Flush(w) \/ Query(w) \/ Read(w)
        PROVE  AgreeInv'
    <2>1. UNCHANGED <<added, state, lamp, doubtful>>
      BY <1>3 DEF CallSetup, CallTurn, Acquire, Raise, Flush, Query, Read, switchVars
    <2>2. pc[w] # "state" /\ pc'[w] # "state"
      BY <1>3 DEF CallSetup, CallTurn, Acquire, Raise, Flush, Query, Read, Finish, Goto, TypeInv, TypeOK
    <2>3. \A v \in Workers \ {w} : pc'[v] = pc[v] /\ call'[v] = call[v]
      BY <1>3 DEF CallSetup, CallTurn, Acquire, Raise, Flush, Query, Read, Finish, Goto, TypeInv, TypeOK, CallInv
    <2> QED BY <2>1, <2>2, <2>3, NothingShown
  <1>4. ASSUME NEW w \in Workers, AddDevices(w)
        PROVE  AgreeInv'
    <2> DEFINE new == Channels(call[w].addr)
    <2>1. /\ pc[w] = "add" /\ pc' = [pc EXCEPT ![w] = "idle"] /\ call' = [call EXCEPT ![w] = NoCall]
          /\ added' = added \cup new /\ doubtful' = doubtful \cup new /\ lamp' = lamp
          /\ \A s \in Switches \ new : state'[s] = state[s]
      BY <1>4 DEF AddDevices, Finish, Goto
    <2>2. \A s : Setting(s)' = Setting(s) /\ \A v \in Setting(s) : call'[v] = call[v]
      BY <2>1 DEF Setting, Self, TypeInv, TypeOK, CallInv
    <2>3. \A s \in added' \ doubtful' : s \in added \ doubtful /\ state'[s] = state[s]
      BY <2>1 DEF TypeInv, TypeOK
    <2> QED BY <2>1, <2>2, <2>3 DEF AgreeInv, Shows
  <1>5. ASSUME NEW w \in Workers, Refuse(w)
        PROVE  AgreeInv'
    <2>1. /\ pc' = [pc EXCEPT ![w] = "state"] /\ ~Valid(Self(w).idx)
          /\ UNCHANGED <<call, added, state, lamp, doubtful>>
      BY <1>5 DEF Refuse, Goto, Self, switchVars
    <2>2. \A s : Valid(s.idx) => Setting(s)' = Setting(s)
      <3>1. \A v \in Workers \ {w} : pc'[v] = pc[v]
        BY <2>1 DEF TypeInv, TypeOK
      <3>2. \A v \in Workers : Self(v)' = Self(v)
        BY <2>1 DEF Self
      <3>3. pc[w] # "state"
        BY <1>5 DEF Refuse
      <3> QED BY <2>1, <3>1, <3>2, <3>3, Zenon DEF Setting
    <2> QED BY <2>1, <2>2 DEF AgreeInv, Shows, Valid
  <1>6. CASE UNCHANGED vars
    BY <1>6, NothingShown DEF vars, switchVars
  <1> QED BY <1>1, <1>2, <1>3, <1>4, <1>5, <1>6, WriteAgrees, SetAgrees DEF Next, Work

LEMMA AgreeHolds == Spec => []AgreeInv
  <1>1. Init => AgreeInv
    BY DEF Init, AgreeInv
  <1> QED BY <1>1, Step_Agree, TypeHolds, PTL DEF Spec

-----------------------------------------------------------------------------
(* The properties *)

\* The board, the lock, the calls and the switches of laite.py stay in their types,
\* and get_switch_states never returns more than the eleven bytes it cuts out.
THEOREM TypeCorrect == Spec => []TypeOK
  BY TypeHolds, PTL DEF TypeInv

\* The lock of get_switch_states keeps the answers of the boards apart: a status
\* comes from the board that was asked, for any number of platforms set up at the
\* same time, commands written in between and a port that closes at any point.
THEOREM StatusIsOfTheBoardAsked == Spec => []AnswerIsOwn
  BY OwnHolds, PTL DEF OwnInv

\* turn_on and turn_off leave a switch that shows what its outlets are, unless one
\* of the named accidents happened since: whatever other threads do.
THEOREM SwitchShowsOutlets == Spec => []StateAgrees
  <1>1. AgreeInv => StateAgrees
    BY ShowsBurns, Zenon DEF AgreeInv, StateAgrees
  <1> QED BY <1>1, AgreeHolds, PTL
=============================================================================
