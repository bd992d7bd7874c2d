-------------------------- MODULE DatabusTextProofs --------------------------
(***************************************************************************)
(* What the gateway and the control programs copy through the shared       *)
(* memory, for every number of control programs, of starts of the gateway  *)
(* and of cells.  The lock itself is the subject of DatabusProofs.         *)
(***************************************************************************)
EXTENDS DatabusProofs, SequenceTheorems

\* A process is attached to what it works on.
AttachedInv ==
    /\ pc[Gate] # "off" => starts # 0
    /\ \A p \in Proc : pc[p] \notin {"off", "done"} => shmAt[p] # 0
    /\ \A p \in Proc : pc[p] \in {"sem", "idle", "lock", "copy", "unlock", "rmsem"} => semAt[p] # 0

\* No copy leaves the text it copies.
CopyInv ==
    /\ \A c \in Ctrl : pc[c] \in {"lock", "copy", "unlock"} => todo[c] # << >>
    /\ \A c \in Ctrl : text[c].id = c /\ text[c].len \in 1..MaxLen
    /\ text[Gate] \in Status \cup {NoText}
    /\ \A p \in Proc : pc[p] \notin {"copy", "unlock", "rmsem"} => pos[p] = 1 /\ buf[p] = << >>
    /\ \A c \in Ctrl : pc[c] = "copy" /\ Head(todo[c]) = "put_in" => pos[c] <= text[c].len + 1
    /\ pc[Gate] = "copy" /\ text[Gate] # NoText => pos[Gate] <= text[Gate].len

TInv == TypeOK /\ AttachedInv /\ CopyInv

-----------------------------------------------------------------------------
(* Types, whatever is killed and whatever identifiers the kernel gives out *)

LEMMA Todo ==
    ASSUME NEW t \in {<<"put_in", "get_out">>, <<"get_out">>, << >>}, t # << >>
    PROVE  /\ Tail(t) \in {<<"put_in", "get_out">>, <<"get_out">>, << >>}
           /\ Head(t) \in {"put_in", "get_out"}
           /\ Head(t) = "put_in" => Tail(t) # << >> /\ Head(Tail(t)) = "get_out"
           /\ Head(t) = "get_out" => Tail(t) = << >>
<1>1. CASE t = <<"put_in", "get_out">>
  <2>1. Head(t) = "put_in" /\ Tail(t) = <<"get_out">>
    BY <1>1
  <2> QED
    BY <2>1
<1>2. CASE t = <<"get_out">>
  <2>1. Head(t) = "get_out" /\ Tail(t) = << >>
    BY <1>2
  <2> QED
    BY <2>1
<1> QED
  BY <1>1, <1>2

LEMMA Names == Gate \in Proc /\ Ctrl \subseteq Proc /\ Gate \notin Ctrl
               /\ \A p \in Proc : p # Gate => p \in Ctrl
BY GateAssumption DEF Proc

LEMMA TInitInv == Init => TInv
<1> SUFFICES ASSUME Init PROVE TInv
  OBVIOUS
<1> USE DatabusAssumption, Names DEF Init
<1>1. PICK n \in [Ctrl -> 1..MaxLen] :
         text = [p \in Proc |-> IF p = Gate THEN NoText ELSE [id |-> p, len |-> n[p]]]
  OBVIOUS
<1>2. text \in [Proc -> Text \cup {NoText}]
  BY <1>1 DEF Text, Proc
<1>3. memIn \in [Gen -> Area] /\ memOut \in [Gen -> Area]
  <2>1. [i \in 1..MaxLen + 1 |-> NUL] \in Area
    BY DEF Area, Cell
  <2> QED
    BY <2>1
<1>4. TypeOK
  <2>1. /\ pc \in [Proc -> {"off", "shm", "sem", "idle", "lock", "copy", "unlock", "rmsem", "done"}]
        /\ todo \in [Ctrl -> {<<"put_in", "get_out">>, <<"get_out">>, << >>}]
    OBVIOUS
  <2>2. buf \in [Proc -> Seq(Cell)] /\ pos \in [Proc -> 1..MaxLen + 2]
    OBVIOUS
  <2>3. taken \in Seq(Seq(Cell)) /\ shown \in [Gen -> Status \cup {NoText}]
    OBVIOUS
  <2>4. /\ shmAt \in [Proc -> 0..MaxStarts] /\ semAt \in [Proc -> 0..MaxStarts]
        /\ adj \in [Proc -> Int] /\ semval \in [Gen -> Nat \cup {Removed}]
        /\ shmKey \in 0..MaxStarts /\ semKey \in 0..MaxStarts /\ starts \in 0..MaxStarts
        /\ last \in Ctrl \cup {NUL}
    OBVIOUS
  <2> QED
    BY <1>2, <1>3, <2>1, <2>2, <2>3, <2>4 DEF TypeOK
<1>5. CopyInv
  BY <1>1 DEF CopyInv
<1>6. AttachedInv
  BY DEF AttachedInv
<1> QED
  BY <1>4, <1>5, <1>6 DEF TInv

\* TypeOK by what changes together.
PcType   == /\ pc \in [Proc -> {"off", "shm", "sem", "idle", "lock", "copy", "unlock", "rmsem", "done"}]
            /\ todo \in [Ctrl -> {<<"put_in", "get_out">>, <<"get_out">>, << >>}]
KeyType  == /\ shmAt \in [Proc -> 0..MaxStarts] /\ semAt \in [Proc -> 0..MaxStarts]
            /\ shmKey \in 0..MaxStarts /\ semKey \in 0..MaxStarts /\ starts \in 0..MaxStarts
SemType  == adj \in [Proc -> Int] /\ semval \in [Gen -> Nat \cup {Removed}]
CopyType == /\ text \in [Proc -> Text \cup {NoText}]
            /\ buf \in [Proc -> Seq(Cell)] /\ pos \in [Proc -> 1..MaxLen + 2]
MemType  == /\ memIn \in [Gen -> Area] /\ memOut \in [Gen -> Area]
            /\ taken \in Seq(Seq(Cell)) /\ last \in Ctrl \cup {NUL}
            /\ shown \in [Gen -> Status \cup {NoText}]

LEMMA Typed == TypeOK <=> PcType /\ KeyType /\ SemType /\ CopyType /\ MemType
BY DEF TypeOK, PcType, KeyType, SemType, CopyType, MemType

\* The steps, the ends of processes taken together.
LEMMA Steps ==
    ASSUME [Next]_vars
    PROVE  \/ GateShm \/ GateSem \/ GateSetVal \/ GateStart \/ PutOut \/ GetIn
           \/ GateRmSem \/ TermGate \/ UNCHANGED vars
           \/ \E c \in Ctrl : CtrlShm(c) \/ CtrlSem(c) \/ CtrlStart(c) \/ PutIn(c) \/ GetOut(c)
           \/ \E p \in Proc : Lock(p) \/ Unlock(p) \/ End(p)
BY Names DEF Next, GateStep, CtrlStep, Exit, Kill

LEMMA PcStep == ASSUME TInv, [Next]_vars PROVE PcType'
<1> USE Names
<1>1. pc' \in [Proc -> {"off", "shm", "sem", "idle", "lock", "copy", "unlock", "rmsem", "done"}]
  <2>1. PcType
    BY Typed DEF TInv
  <2> QED
    BY <2>1, Steps DEF PcType, GateShm, GateSem, GateSetVal, GateStart, Start, PutOut, GetIn, Reading,
       GateRmSem, TermGate, vars, CtrlShm, CtrlSem, CtrlStart, PutIn, GetOut, Lock, Unlock, End, Go
<1>2. todo' \in [Ctrl -> {<<"put_in", "get_out">>, <<"get_out">>, << >>}]
  <2>1. todo \in [Ctrl -> {<<"put_in", "get_out">>, <<"get_out">>, << >>}]
    BY DEF TInv, TypeOK
  <2>2. ASSUME NEW p \in Ctrl, Unlock(p) PROVE todo' = [todo EXCEPT ![p] = Tail(@)] /\ todo[p] # << >>
    BY <2>2 DEF Unlock, TInv, CopyInv
  <2>3. todo' = todo \/ \E p \in Ctrl : todo' = [todo EXCEPT ![p] = Tail(@)] /\ todo[p] # << >>
    BY <2>2, Steps DEF GateShm, GateSem, GateSetVal, GateStart, Start, PutOut, GetIn, Reading,
       GateRmSem, TermGate, vars, CtrlShm, CtrlSem, CtrlStart, PutIn, GetOut, Lock, Unlock, End
  <2> QED
    BY <2>1, <2>3, Todo
<1> QED
  BY <1>1, <1>2 DEF PcType

LEMMA KeyStep == ASSUME TInv, [Next]_vars PROVE KeyType' /\ AttachedInv'
<1> USE Names, DatabusAssumption
<1>0. PcType /\ KeyType /\ AttachedInv
  BY Typed DEF TInv
<1>1. CASE GateShm
  <2>1. starts' \in 1..MaxStarts /\ shmKey' \in 1..MaxStarts /\ shmAt' = [shmAt EXCEPT ![Gate] = shmKey']
    BY <1>0, <1>1 DEF GateShm, KeyType
  <2> QED
    BY <1>0, <1>1, <2>1 DEF GateShm, KeyType, AttachedInv, PcType, Go
<1>2. CASE GateSem
  <2>1. semKey' \in 1..MaxStarts /\ semAt' = [semAt EXCEPT ![Gate] = semKey']
    BY <1>0, <1>2 DEF GateSem, KeyType, AttachedInv
  <2> QED
    BY <1>0, <1>2, <2>1 DEF GateSem, KeyType, AttachedInv, PcType, Go
<1>3. CASE TermGate
  <2>1. shmKey' \in {0, shmKey} /\ UNCHANGED <<shmAt, semAt, semKey, starts>>
    BY <1>3, Zenon DEF TermGate, attached
  <2>2. pc[Gate] \in {"idle", "lock", "copy", "unlock"} /\ Go(Gate, "rmsem")
    BY <1>3 DEF TermGate
  <2> QED
    BY <1>0, <2>1, <2>2 DEF KeyType, AttachedInv, PcType, Go
<1>4. CASE GateRmSem
  <2>1. /\ shmAt' = [shmAt EXCEPT ![Gate] = 0] /\ semAt' = [semAt EXCEPT ![Gate] = 0]
        /\ semKey' \in {0, semKey} /\ UNCHANGED <<shmKey, starts>> /\ Go(Gate, "off")
    BY <1>4 DEF GateRmSem
  <2> QED
    BY <1>0, <2>1 DEF KeyType, AttachedInv, PcType, Go
<1>5. ASSUME NEW c \in Ctrl, CtrlShm(c) PROVE KeyType' /\ AttachedInv'
  <2>1. c \in Proc /\ c # Gate
    OBVIOUS
  <2>2. KeyType'
    BY <1>0, <1>5, <2>1 DEF CtrlShm, kernel, KeyType
  <2>3. AttachedInv'
    BY <1>0, <1>5, <2>1 DEF CtrlShm, kernel, KeyType, AttachedInv, PcType, Go
  <2> QED
    BY <2>2, <2>3
<1>6. ASSUME NEW c \in Ctrl, CtrlSem(c) PROVE KeyType' /\ AttachedInv'
  <2>1. c \in Proc /\ c # Gate
    OBVIOUS
  <2>2. KeyType'
    BY <1>0, <1>6, <2>1 DEF CtrlSem, kernel, KeyType
  <2>3. AttachedInv'
    BY <1>0, <1>6, <2>1 DEF CtrlSem, kernel, KeyType, AttachedInv, PcType, Go
  <2> QED
    BY <2>2, <2>3
<1>7. ASSUME NEW p \in Proc, End(p) PROVE KeyType' /\ AttachedInv'
  BY <1>0, <1>7 DEF End, kernel, KeyType, AttachedInv, PcType, Go
<1>8. CASE GateSetVal \/ GateStart \/ PutOut \/ GetIn
  BY <1>0, <1>8 DEF GateSetVal, GateStart, Start, PutOut, GetIn, Reading, attached, kernel, KeyType, AttachedInv, PcType, Go
<1>9. ASSUME NEW p \in Proc, Lock(p) \/ Unlock(p) PROVE KeyType' /\ AttachedInv'
  BY <1>0, <1>9 DEF Lock, Unlock, attached, kernel, KeyType, AttachedInv, PcType, Go
<1>10. ASSUME NEW c \in Ctrl, CtrlStart(c) \/ PutIn(c) \/ GetOut(c) PROVE KeyType' /\ AttachedInv'
  BY <1>0, <1>10 DEF CtrlStart, Start, PutIn, GetOut, Reading, attached, kernel, KeyType, AttachedInv, PcType, Go
<1>11. CASE UNCHANGED vars
  BY <1>0, <1>11 DEF vars, attached, kernel, KeyType, AttachedInv
<1> QED
  BY <1>1, <1>2, <1>3, <1>4, <1>5, <1>6, <1>7, <1>8, <1>9, <1>10, <1>11, Steps

LEMMA SemStep == ASSUME TInv, [Next]_vars PROVE SemType'
<1> USE DatabusAssumption, Names
<1>0. SemType /\ KeyType
  BY Typed DEF TInv
<1>1. CASE UNCHANGED <<adj, semval>>
  BY <1>0, <1>1 DEF SemType
<1>2. CASE GateSetVal
  <2>1. semval' \in [Gen -> Nat \cup {Removed}]
    BY <1>0, <1>2 DEF GateSetVal, SemType
  <2>2. adj' \in [Proc -> Int]
    BY <1>0, <1>2 DEF GateSetVal, SemType
  <2> QED
    BY <2>1, <2>2 DEF SemType
<1>3. ASSUME NEW p \in Proc, Lock(p) PROVE SemType'
  <2>1. adj[p] + 1 \in Int /\ \A n \in Nat \cup {Removed} : n > 0 => n - 1 \in Nat
    BY <1>0 DEF SemType, Removed
  <2>2. CASE UNCHANGED <<adj, semval>>
    BY <2>2, <1>1
  <2>3. CASE semval[semAt[p]] > 0 /\ semval' = [semval EXCEPT ![semAt[p]] = @ - 1]
             /\ adj' = [adj EXCEPT ![p] = @ + 1]
    <3>1. adj' \in [Proc -> Int]
      BY <1>0, <2>1, <2>3 DEF SemType
    <3>2. semval' \in [Gen -> Nat \cup {Removed}]
      BY <1>0, <2>1, <2>3 DEF SemType
    <3> QED
      BY <3>1, <3>2 DEF SemType
  <2> QED
    BY <1>3, <2>2, <2>3 DEF Lock
<1>4. ASSUME NEW p \in Proc, Unlock(p) PROVE SemType'
  <2>1. adj[p] - 1 \in Int /\ \A n \in Nat \cup {Removed} : n # Removed => n + 1 \in Nat
    BY <1>0 DEF SemType, Removed
  <2>2. CASE UNCHANGED <<adj, semval>>
    BY <2>2, <1>1
  <2>3. CASE semval[semAt[p]] # Removed /\ semval' = [semval EXCEPT ![semAt[p]] = @ + 1]
             /\ adj' = [adj EXCEPT ![p] = @ - 1]
    <3>1. adj' \in [Proc -> Int]
      BY <1>0, <2>1, <2>3 DEF SemType
    <3>2. semval' \in [Gen -> Nat \cup {Removed}]
      BY <1>0, <2>1, <2>3 DEF SemType
    <3> QED
      BY <3>1, <3>2 DEF SemType
  <2> QED
    BY <1>4, <2>2, <2>3 DEF Unlock
<1>5. ASSUME NEW p \in Proc PROVE Undone(p) \in [Gen -> Nat \cup {Removed}]
  BY <1>0 DEF SemType, Undone, Removed
<1>6. ASSUME NEW p \in Proc, End(p) PROVE SemType'
  BY <1>0, <1>5, <1>6 DEF End, SemType
<1>7. CASE GateRmSem
  <2>1. semval' \in [Gen -> Nat \cup {Removed}]
    BY <1>0, <1>5, <1>7 DEF GateRmSem, SemType
  <2> QED
    BY <1>0, <1>7, <2>1 DEF GateRmSem, SemType
<1>8. CASE GateShm \/ GateSem \/ GateStart \/ PutOut \/ GetIn \/ TermGate \/ UNCHANGED vars
  BY <1>1, <1>8 DEF GateShm, GateSem, GateStart, Start, PutOut, GetIn, Reading, TermGate, vars
<1>9. ASSUME NEW c \in Ctrl, CtrlShm(c) \/ CtrlSem(c) \/ CtrlStart(c) \/ PutIn(c) \/ GetOut(c) PROVE SemType'
  BY <1>1, <1>9 DEF CtrlShm, CtrlSem, CtrlStart, Start, PutIn, GetOut, Reading
<1> QED
  BY <1>2, <1>3, <1>4, <1>6, <1>7, <1>8, <1>9, Steps

\* Where each process is with its copy.
CopyAt(p) ==
    /\ pc[p] \notin {"copy", "unlock", "rmsem"} => pos[p] = 1 /\ buf[p] = << >>
    /\ p # Gate => /\ pc[p] \in {"lock", "copy", "unlock"} => todo[p] # << >>
                   /\ pc[p] = "copy" /\ Head(todo[p]) = "put_in" => pos[p] <= text[p].len + 1
    /\ p = Gate /\ pc[p] = "copy" /\ text[p] # NoText => pos[p] <= text[p].len

TextAt(p) == IF p = Gate THEN text[p] \in Status \cup {NoText}
                         ELSE text[p].id = p /\ text[p].len \in 1..MaxLen

LEMMA CopyInvAt == CopyInv <=> \A p \in Proc : CopyAt(p) /\ TextAt(p)
BY Names DEF CopyInv, CopyAt, TextAt

\* Each step is a step of one process for the copies.
LEMMA OneCopies ==
    ASSUME TInv, NEW p \in Proc,
           \A q \in Proc \ {p} :
               /\ pc'[q] = pc[q] /\ pos'[q] = pos[q] /\ buf'[q] = buf[q] /\ text'[q] = text[q]
               /\ q # Gate => todo'[q] = todo[q],
           CopyAt(p)', TextAt(p)'
    PROVE  CopyInv'
<1>1. \A q \in Proc \ {p} : (CopyAt(q) => CopyAt(q)') /\ (TextAt(q) => TextAt(q)')
  BY DEF CopyAt, TextAt
<1>2. \A q \in Proc : CopyAt(q) /\ TextAt(q)
  BY CopyInvAt DEF TInv
<1>3. \A q \in Proc : CopyAt(q)' /\ TextAt(q)'
  BY <1>1, <1>2
<1> QED
  BY <1>3, Names DEF CopyInv, CopyAt, TextAt

\* A step that leaves the texts and the copies alone.
LEMMA MovesCopy ==
    ASSUME TInv, NEW p \in Proc, NEW to, Go(p, to), UNCHANGED <<todo, copying>>,
           pc[p] \in {"copy", "unlock", "rmsem"} => to \in {"unlock", "rmsem"},
           to \in {"lock", "copy", "unlock"} /\ p # Gate => todo[p] # << >>,
           to = "copy" => pc[p] = "lock"
    PROVE  CopyType' /\ CopyInv'
<1>1. CopyType'
  BY Typed DEF TInv, CopyType, copying
<1>2. PcType /\ CopyAt(p) /\ TextAt(p)
  BY Typed, CopyInvAt DEF TInv
<1>3. /\ pc'[p] = to /\ \A q \in Proc \ {p} : pc'[q] = pc[q]
      /\ UNCHANGED <<todo, text, buf, pos>>
  BY <1>2 DEF PcType, Go, copying
<1>4. /\ p # Gate => 1 <= text[p].len + 1
      /\ p = Gate /\ text[p] # NoText => 1 <= text[p].len
  <2>1. CASE p # Gate
    BY <1>2, <2>1, DatabusAssumption DEF TextAt
  <2>2. CASE p = Gate /\ text[p] # NoText
    <3>1. text[p].len \in StatusLen
      BY <1>2, <2>2 DEF TextAt, Status
    <3>2. text[p].len \in 1..MaxLen /\ MaxLen \in Nat
      BY <3>1, DatabusAssumption
    <3> QED
      BY <2>2, <3>2
  <2> QED
    BY <2>1, <2>2
<1>5. TextAt(p)'
  BY <1>2, <1>3 DEF TextAt
<1>6. CopyAt(p)'
  BY <1>2, <1>3, <1>4 DEF CopyAt
<1> QED
  BY <1>1, <1>3, <1>5, <1>6, OneCopies

\* A process that forgets its locals is outside of the lock.
LEMMA ForgetsCopy ==
    ASSUME TInv, NEW p \in Proc, NEW to \in {"off", "idle", "done"}, Go(p, to), Forget(p),
           \A c \in Ctrl : c # p => todo'[c] = todo[c]
    PROVE  CopyType' /\ CopyInv'
<1>1. PcType /\ CopyType /\ TextAt(p)
  BY Typed, CopyInvAt DEF TInv
<1>2. CopyType'
  BY <1>1, Names, DatabusAssumption DEF CopyType, Forget
<1>3. /\ pc'[p] = to /\ pos'[p] = 1 /\ buf'[p] = << >>
      /\ text'[p] = IF p = Gate THEN NoText ELSE text[p]
      /\ \A q \in Proc \ {p} : pc'[q] = pc[q] /\ pos'[q] = pos[q] /\ buf'[q] = buf[q] /\ text'[q] = text[q]
  BY <1>1, Names DEF PcType, CopyType, Go, Forget
<1>4. CopyAt(p)'
  BY <1>3 DEF CopyAt
<1>5. TextAt(p)'
  BY <1>1, <1>3 DEF TextAt
<1> QED
  BY <1>2, <1>3, <1>4, <1>5, OneCopies, Names

LEMMA ReadingCopy ==
    ASSUME TInv, NEW p \in Proc, NEW area \in Area, Reading(p, area),
           IF p = Gate THEN text[Gate] = NoText ELSE Head(todo[p]) = "get_out"
    PROVE  CopyType' /\ CopyInv'
<1> DEFINE cell == IF pos[p] \in DOMAIN area THEN area[pos[p]] ELSE NUL
<1>0. pc[p] = "copy" /\ UNCHANGED <<todo, text>>
  BY DEF Reading
<1>1. CASE cell = NUL
  <2>1. Go(p, "unlock") /\ UNCHANGED <<buf, pos>>
    BY <1>1 DEF Reading
  <2>2. p # Gate => todo[p] # << >>
    BY <1>0, Names DEF TInv, CopyInv
  <2> QED
    BY <1>0, <2>1, <2>2, MovesCopy DEF copying
<1>2. CASE cell # NUL
  <2>1. /\ buf' = [buf EXCEPT ![p] = Append(@, cell)]
        /\ pos' = [pos EXCEPT ![p] = @ + 1] /\ pc' = pc
    BY <1>2 DEF Reading
  <2>2. pos[p] \in 1..MaxLen + 1 /\ cell \in Cell
    BY <1>2 DEF Area
  <2>3. PcType /\ CopyType /\ CopyAt(p) /\ TextAt(p)
    BY Typed, CopyInvAt DEF TInv
  <2> HIDE DEF cell
  <2>4. CopyType'
    BY <1>0, <2>1, <2>2, <2>3, DatabusAssumption DEF CopyType
  <2>5. \A q \in Proc \ {p} : pos'[q] = pos[q] /\ buf'[q] = buf[q]
    BY <2>1, <2>3 DEF CopyType
  <2>6. CopyAt(p)' /\ TextAt(p)'
    BY <1>0, <2>1, <2>3 DEF CopyAt, TextAt
  <2> QED
    BY <1>0, <2>1, <2>4, <2>5, <2>6, OneCopies
<1> QED
  BY <1>1, <1>2

LEMMA CopyStep == ASSUME TInv, [Next]_vars PROVE CopyType' /\ CopyInv'
<1> USE Names
<1>0. PcType /\ KeyType /\ CopyType /\ MemType /\ AttachedInv /\ \A p \in Proc : CopyAt(p) /\ TextAt(p)
  BY Typed, CopyInvAt DEF TInv
<1>1. CASE GateShm \/ GateSem \/ GateSetVal \/ TermGate
  BY <1>1, MovesCopy DEF GateShm, GateSem, GateSetVal, TermGate
<1>2. CASE GateStart
  <2>1. PICK t \in {NoText} \cup Status : text' = [text EXCEPT ![Gate] = t]
    BY <1>2 DEF GateStart
  <2>2. Status \subseteq Text
    BY DatabusAssumption DEF Status, Text
  <2>3. CopyType'
    BY <1>0, <1>2, <2>1, <2>2 DEF CopyType, GateStart, Start
  <2>4. /\ pc'[Gate] = "lock" /\ text'[Gate] = t /\ UNCHANGED <<todo, pos, buf>> /\ pc[Gate] = "idle"
        /\ \A q \in Proc \ {Gate} : pc'[q] = pc[q] /\ text'[q] = text[q]
    BY <1>0, <1>2, <2>1 DEF GateStart, Start, Go, PcType, CopyType
  <2>5. CopyAt(Gate)' /\ TextAt(Gate)'
    BY <1>0, <2>4 DEF CopyAt, TextAt
  <2> QED
    BY <2>3, <2>4, <2>5, OneCopies
<1>3. CASE PutOut
  <2>1. /\ text[Gate] \in Status /\ pc[Gate] = "copy" /\ UNCHANGED <<todo, text, buf>>
        /\ pos' = [pos EXCEPT ![Gate] = @ + 1]
        /\ pc' = IF pos[Gate] = text[Gate].len THEN [pc EXCEPT ![Gate] = "unlock"] ELSE pc
    BY <1>0, <1>3 DEF PutOut, TextAt, Go
  <2>2. text[Gate].len \in 1..MaxLen /\ pos[Gate] <= text[Gate].len /\ pos[Gate] \in 1..MaxLen + 2
    BY <1>0, <1>3, <2>1, DatabusAssumption DEF PutOut, CopyAt, CopyType, Status
  <2>3. CopyType'
    BY <1>0, <2>1, <2>2, DatabusAssumption DEF CopyType
  <2>4. /\ pos'[Gate] = pos[Gate] + 1
        /\ pc'[Gate] = IF pos[Gate] = text[Gate].len THEN "unlock" ELSE "copy"
        /\ \A q \in Proc \ {Gate} : pc'[q] = pc[q] /\ pos'[q] = pos[q]
    BY <1>0, <2>1 DEF PcType, CopyType
  <2>5. CopyAt(Gate)' /\ TextAt(Gate)'
    BY <1>0, <2>1, <2>2, <2>4, DatabusAssumption DEF CopyAt, TextAt
  <2> QED
    BY <2>1, <2>3, <2>4, <2>5, OneCopies
<1>4. CASE GetIn
  <2>1. memIn[shmAt[Gate]] \in Area
    BY <1>0, <1>4 DEF GetIn, Reading, AttachedInv, KeyType, MemType, Gen
  <2> QED
    BY <1>4, <2>1, ReadingCopy DEF GetIn
<1>5. CASE GateRmSem
  BY <1>5, ForgetsCopy DEF GateRmSem
<1>6. ASSUME NEW c \in Ctrl, CtrlShm(c) PROVE CopyType' /\ CopyInv'
  <2>1. PICK to \in {"done", "shm"} : Go(c, to) /\ UNCHANGED <<todo, copying>> /\ pc[c] = "off"
    BY <1>6 DEF CtrlShm
  <2> QED
    BY <2>1, MovesCopy
<1>7. ASSUME NEW c \in Ctrl, CtrlSem(c) PROVE CopyType' /\ CopyInv'
  <2>1. PICK to \in {"done", "idle"} : Go(c, to) /\ UNCHANGED <<todo, copying>> /\ pc[c] = "shm"
    BY <1>7 DEF CtrlSem
  <2> QED
    BY <2>1, MovesCopy
<1>8. ASSUME NEW c \in Ctrl, CtrlStart(c) PROVE CopyType' /\ CopyInv'
  BY <1>8, MovesCopy DEF CtrlStart, Start, copying
<1>9. ASSUME NEW c \in Ctrl, PutIn(c) PROVE CopyType' /\ CopyInv'
  <2>1. /\ pc[c] = "copy" /\ Head(todo[c]) = "put_in" /\ UNCHANGED <<todo, text, buf>>
        /\ pos' = [pos EXCEPT ![c] = @ + 1]
        /\ pc' = IF pos[c] = text[c].len + 1 THEN [pc EXCEPT ![c] = "unlock"] ELSE pc
    BY <1>9, Zenon DEF PutIn, LastCell, Go
  <2>2. text[c].len \in 1..MaxLen /\ pos[c] <= text[c].len + 1 /\ pos[c] \in 1..MaxLen + 2
    BY <1>0, <2>1 DEF CopyAt, TextAt, CopyType
  <2>3. CopyType'
    BY <1>0, <2>1, <2>2, DatabusAssumption DEF CopyType
  <2>4. /\ pos'[c] = pos[c] + 1
        /\ pc'[c] = IF pos[c] = text[c].len + 1 THEN "unlock" ELSE "copy"
        /\ \A q \in Proc \ {c} : pc'[q] = pc[q] /\ pos'[q] = pos[q]
    BY <1>0, <2>1 DEF PcType, CopyType
  <2>5. CopyAt(c)' /\ TextAt(c)'
    BY <1>0, <2>1, <2>2, <2>4, DatabusAssumption DEF CopyAt, TextAt
  <2> QED
    BY <2>1, <2>3, <2>4, <2>5, OneCopies
<1>10. ASSUME NEW c \in Ctrl, GetOut(c) PROVE CopyType' /\ CopyInv'
  <2>1. memOut[shmAt[c]] \in Area
    <3>1. shmAt[c] \in Gen
      BY <1>0, <1>10 DEF GetOut, AttachedInv, KeyType, Gen
    <3> QED
      BY <1>0, <3>1 DEF MemType
  <2> QED
    BY <1>10, <2>1, ReadingCopy DEF GetOut
<1>11. ASSUME NEW p \in Proc, Lock(p) PROVE CopyType' /\ CopyInv'
  <2>1. pc[p] = "lock" /\ Go(p, "copy") /\ UNCHANGED <<todo, copying>>
    BY <1>11 DEF Lock
  <2> QED
    BY <1>0, <2>1, MovesCopy DEF CopyAt
<1>12. ASSUME NEW p \in Proc, Unlock(p) PROVE CopyType' /\ CopyInv'
  <2>1. \A c \in Ctrl : c # p => todo'[c] = todo[c]
    BY <1>0, <1>12 DEF Unlock, PcType
  <2> QED
    BY <1>12, <2>1, ForgetsCopy DEF Unlock
<1>13. ASSUME NEW p \in Proc, End(p) PROVE CopyType' /\ CopyInv'
  BY <1>13, ForgetsCopy DEF End
<1>14. CASE UNCHANGED vars
  BY <1>0, <1>14 DEF vars, copying, CopyType, TInv, CopyInv
<1> QED
  BY <1>1, <1>2, <1>3, <1>4, <1>5, <1>6, <1>7, <1>8, <1>9, <1>10, <1>11, <1>12, <1>13, <1>14, Steps

LEMMA MemStep == ASSUME TInv, [Next]_vars PROVE MemType'
<1> USE Names
<1>0. KeyType /\ CopyType /\ MemType /\ AttachedInv /\ \A p \in Proc : CopyAt(p) /\ TextAt(p)
  BY Typed, CopyInvAt DEF TInv
<1>1. CASE UNCHANGED <<memory, history>>
  BY <1>0, <1>1 DEF MemType, memory, history
<1>2. CASE PutOut
  <2>1. text[Gate] \in Status /\ shmAt[Gate] \in Gen
    BY <1>0, <1>2 DEF PutOut, TextAt, KeyType, AttachedInv, Gen
  <2>2. text[Gate].id \in Cell
    BY <2>1 DEF Status, Cell
  <2>3. \A area \in Area : \A i : [area EXCEPT ![i] = text[Gate].id] \in Area
    BY <2>2 DEF Area
  <2>4. memOut' \in [Gen -> Area]
    BY <1>0, <1>2, <2>1, <2>3 DEF PutOut, MemType
  <2>5. shown' \in [Gen -> Status \cup {NoText}]
    BY <1>0, <1>2, <2>1 DEF PutOut, MemType
  <2> QED
    BY <1>0, <1>2, <2>4, <2>5 DEF PutOut, MemType
<1>3. CASE GetIn
  <2>1. UNCHANGED <<memOut, last, shown>>
    BY <1>3 DEF GetIn, Reading
  <2>2. taken' \in Seq(Seq(Cell))
    <3>1. buf[Gate] \in Seq(Cell) /\ taken \in Seq(Seq(Cell))
      BY <1>0 DEF CopyType, MemType
    <3>2. taken' \in {taken, Append(taken, buf[Gate])}
      BY <1>3 DEF GetIn
    <3> QED
      BY <3>1, <3>2
  <2>3. memIn' \in [Gen -> Area]
    <3>1. \A area \in Area : [area EXCEPT ![1] = NUL] \in Area
      BY DEF Area, Cell
    <3>2. memIn' = memIn \/ memIn' = [memIn EXCEPT ![shmAt[Gate]][1] = NUL]
      BY <1>3 DEF GetIn
    <3> QED
      BY <1>0, <3>1, <3>2 DEF MemType
  <2> QED
    BY <1>0, <2>1, <2>2, <2>3 DEF MemType
<1>4. ASSUME NEW c \in Ctrl, PutIn(c) PROVE MemType'
  <2> DEFINE cell == IF LastCell(c) THEN NUL ELSE c
  <2>1. memIn' = [memIn EXCEPT ![shmAt[c]][pos[c]] = cell] /\ last' \in {last, c}
    BY <1>4 DEF PutIn
  <2>2. cell \in Cell
    BY DEF Cell
  <2> HIDE DEF cell
  <2>3. \A area \in Area : \A i : [area EXCEPT ![i] = cell] \in Area
    BY <2>2 DEF Area
  <2>4. memIn' \in [Gen -> Area]
    BY <1>0, <2>1, <2>3 DEF MemType
  <2> QED
    BY <1>0, <1>4, <2>1, <2>4 DEF PutIn, MemType
<1>5. CASE GateShm \/ GateSem \/ GateSetVal \/ GateStart \/ GateRmSem \/ TermGate \/ UNCHANGED vars
  BY <1>1, <1>5 DEF GateShm, GateSem, GateSetVal, GateStart, Start, GateRmSem, TermGate, vars
<1>6. ASSUME NEW p \in Proc, Lock(p) \/ Unlock(p) \/ End(p) PROVE MemType'
  BY <1>1, <1>6 DEF Lock, Unlock, End
<1>7. ASSUME NEW c \in Ctrl, CtrlShm(c) \/ CtrlSem(c) \/ CtrlStart(c) \/ GetOut(c) PROVE MemType'
  BY <1>1, <1>7 DEF CtrlShm, CtrlSem, CtrlStart, Start, GetOut, Reading, memory, history
<1> QED
  BY <1>2, <1>3, <1>4, <1>5, <1>6, <1>7, Steps

LEMMA TStepInv == TInv /\ [Next]_vars => TInv'
<1> SUFFICES ASSUME TInv, [Next]_vars PROVE TInv'
  OBVIOUS
<1>1. PcType' /\ KeyType' /\ SemType' /\ CopyType' /\ MemType' /\ AttachedInv' /\ CopyInv'
  BY PcStep, KeyStep, SemStep, CopyStep, MemStep
<1> QED
  BY <1>1 DEF TInv, TypeOK, PcType, KeyType, SemType, CopyType, MemType

\* No copy leaves its text or the shared memory, and every process is attached to
\* what it uses: whatever is killed, whenever the gateway is terminated, and
\* whatever identifiers the kernel gives out.
THEOREM DatabusTypeCorrect == Spec => []TypeOK
BY TInitInv, TStepInv, PTL DEF Spec, TInv

-----------------------------------------------------------------------------
(* The segment of a running gateway *)

GateUp == pc[Gate] \in {"shm", "sem", "idle", "lock", "copy", "unlock"}

\* A gateway that starts makes a segment and a semaphore of its own, and who is
\* attached to its segment uses its semaphore.
SegmentInv ==
    /\ pc[Gate] \in {"off", "rmsem"} => shmKey = 0
    /\ shmKey \in {0, starts} /\ semKey \in {0, starts}
    /\ GateUp => shmAt[Gate] = starts
    /\ pc[Gate] \in {"sem", "idle", "lock", "copy", "unlock", "rmsem"} => semAt[Gate] = starts
    /\ pc[Gate] # "off" => semval[starts] # Removed
    /\ \A c \in Ctrl : shmAt[c] <= starts /\ semAt[c] <= starts
    /\ \A c \in Ctrl : semAt[c] # 0 => shmAt[c] <= semAt[c]

\* A segment that was not made yet is empty.
BlankInv ==
    \A g \in Gen : g > starts =>
        /\ \A i \in 1..MaxLen + 1 : memIn[g][i] = NUL /\ memOut[g][i] = NUL
        /\ shown[g] = NoText

BInv == LInv /\ TInv /\ SegmentInv /\ BlankInv

LEMMA BInitInv == Init => BInv
<1> SUFFICES ASSUME Init PROVE BInv
  OBVIOUS
<1> USE Names
<1>1. SegmentInv
  BY DEF Init, SegmentInv, GateUp
<1>2. BlankInv
  BY DEF Init, BlankInv
<1> QED
  BY <1>1, <1>2, LInitInv, TInitInv DEF BInv

\* A gateway that nobody kills ends by its own signal handler.
LEMMA StepsOfTheLiving ==
    ASSUME [Next]_vars, "kill_gate" \notin Faults
    PROVE  \/ GateShm \/ GateSem \/ GateSetVal \/ GateStart \/ PutOut \/ GetIn
           \/ GateRmSem \/ TermGate \/ UNCHANGED vars
           \/ \E c \in Ctrl : CtrlShm(c) \/ CtrlSem(c) \/ CtrlStart(c) \/ PutIn(c) \/ GetOut(c) \/ End(c)
           \/ \E p \in Proc : Lock(p) \/ Unlock(p)
BY Names DEF Next, GateStep, CtrlStep, Exit, Kill

\* Nobody but the gateway removes a semaphore.
LEMMA NotRemoved ==
    ASSUME TInv, NEW p \in Proc, Lock(p) \/ Unlock(p) \/ End(p), NEW g \in Gen, semval[g] # Removed
    PROVE  semval'[g] # Removed
<1> USE DEF Removed
<1>1. semval \in [Gen -> Nat \cup {Removed}] /\ semval[g] \in Nat /\ adj[p] \in Int
  BY DEF TInv, TypeOK
<1>2. CASE Lock(p)
  BY <1>1, <1>2 DEF Lock
<1>3. CASE Unlock(p)
  BY <1>1, <1>3 DEF Unlock
<1>4. CASE End(p)
  BY <1>1, <1>4 DEF End, Undone
<1> QED
  BY <1>2, <1>3, <1>4

LEMMA SegmentStep ==
    ASSUME ~ZeroId, "kill_gate" \notin Faults, BInv, [Next]_vars
    PROVE  SegmentInv'
<1> \A g : Usable(g)
  BY DEF Usable
<1>0. PcType /\ KeyType /\ SemType /\ AttachedInv /\ SegmentInv /\ Fresh
  BY Typed DEF BInv, TInv, LInv
<1>g. pc[Gate] # "off" => starts \in Gen
  BY <1>0 DEF AttachedInv, KeyType, Gen
<1> USE Names, DatabusAssumption DEF SegmentInv, GateUp
<1>1. CASE GateShm
  <2>1. /\ starts' = starts + 1 /\ shmKey' = starts + 1 /\ shmAt' = [shmAt EXCEPT ![Gate] = starts + 1]
        /\ starts + 1 \in Gen
    BY <1>0, <1>1 DEF GateShm, KeyType, Gen
  <2>2. semKey = 0 /\ semval[starts + 1] # Removed
    BY <1>0, <1>1, <2>1 DEF GateShm, KeyType, Fresh, Removed
  <2> QED
    BY <1>0, <1>1, <2>1, <2>2 DEF GateShm, KeyType, PcType, Go
<1>2. CASE GateSem
  <2>1. semKey' = starts /\ semAt' = [semAt EXCEPT ![Gate] = starts]
    BY <1>0, <1>2 DEF GateSem, Fresh
  <2> QED
    BY <1>0, <1>2, <2>1 DEF GateSem, KeyType, PcType, Go
<1>3. CASE GateSetVal
  BY <1>0, <1>3 DEF GateSetVal, attached, kernel, KeyType, SemType, PcType, Go, Removed
<1>4. CASE GateStart \/ PutOut \/ GetIn
  <2>1. UNCHANGED <<attached, kernel, semval>> /\ pc[Gate] \in {"idle", "copy"}
        /\ pc'[Gate] \in {"lock", "copy", "unlock"}
    BY <1>0, <1>4 DEF GateStart, Start, PutOut, GetIn, Reading, PcType, Go
  <2> QED
    BY <1>0, <2>1 DEF attached, kernel
<1>5. CASE TermGate
  BY <1>0, <1>5 DEF TermGate, attached, PcType, Go
<1>6. CASE GateRmSem
  BY <1>0, <1>6 DEF GateRmSem, ReleasesSemaphore, KeyType, PcType, Go
<1>7. ASSUME NEW c \in Ctrl, CtrlShm(c) PROVE SegmentInv'
  <2>1. c \in Proc /\ c # Gate /\ semAt[c] = 0
    BY <1>7 DEF CtrlShm, BInv, LInv, Attachment
  <2>2. UNCHANGED <<semAt, kernel, semval>> /\ pc'[Gate] = pc[Gate] /\ shmAt' = [shmAt EXCEPT ![c] = shmKey]
    BY <1>0, <1>7, <2>1 DEF CtrlShm, PcType, Go
  <2> QED
    BY <1>0, <2>1, <2>2 DEF kernel, KeyType
<1>8. ASSUME NEW c \in Ctrl, CtrlSem(c) PROVE SegmentInv'
  <2>1. c \in Proc /\ c # Gate
    OBVIOUS
  <2>2. UNCHANGED <<shmAt, kernel, semval>> /\ pc'[Gate] = pc[Gate] /\ semAt' = [semAt EXCEPT ![c] = semKey]
    BY <1>0, <1>8, <2>1 DEF CtrlSem, PcType, Go
  <2> QED
    BY <1>0, <2>1, <2>2 DEF kernel, KeyType
<1>9. ASSUME NEW c \in Ctrl, CtrlStart(c) \/ PutIn(c) \/ GetOut(c) PROVE SegmentInv'
  <2>1. UNCHANGED <<attached, kernel, semval>> /\ pc'[Gate] = pc[Gate]
    BY <1>0, <1>9 DEF CtrlStart, Start, PutIn, GetOut, Reading, PcType, Go
  <2> QED
    BY <1>0, <2>1 DEF attached, kernel
<1>10. ASSUME NEW c \in Ctrl, End(c) PROVE SegmentInv'
  <2>1. /\ UNCHANGED kernel /\ pc'[Gate] = pc[Gate]
        /\ shmAt' = [shmAt EXCEPT ![c] = 0] /\ semAt' = [semAt EXCEPT ![c] = 0]
    BY <1>0, <1>10 DEF End, PcType, Go
  <2>2. pc[Gate] # "off" => semval'[starts] # Removed
    BY <1>0, <1>g, <1>10, NotRemoved DEF BInv
  <2> QED
    BY <1>0, <2>1, <2>2 DEF kernel, KeyType
<1>11. ASSUME NEW p \in Proc, Lock(p) \/ Unlock(p) PROVE SegmentInv'
  <2>1. /\ UNCHANGED <<attached, kernel>>
        /\ pc'[Gate] = pc[Gate] \/ (p = Gate /\ pc[Gate] \in {"lock", "unlock"} /\ pc'[Gate] \in {"copy", "idle"})
    BY <1>0, <1>11 DEF Lock, Unlock, PcType, Go
  <2>2. pc[Gate] # "off" => semval'[starts] # Removed
    BY <1>0, <1>g, <1>11, NotRemoved DEF BInv
  <2> QED
    BY <1>0, <2>1, <2>2 DEF attached, kernel
<1>12. CASE UNCHANGED vars
  BY <1>0, <1>12 DEF vars, attached, kernel
<1> QED
  BY <1>1, <1>2, <1>3, <1>4, <1>5, <1>6, <1>7, <1>8, <1>9, <1>10, <1>11, <1>12, StepsOfTheLiving

\* Nobody works on a segment that was not made yet.
LEMMA BlankStep ==
    ASSUME ~ZeroId, "kill_gate" \notin Faults, BInv, [Next]_vars
    PROVE  BlankInv'
<1>0. PcType /\ KeyType /\ MemType /\ AttachedInv /\ SegmentInv /\ BlankInv
  BY Typed DEF BInv, TInv
<1> USE Names
<1>1. CASE UNCHANGED <<memory, shown>> /\ starts' \in {starts, starts + 1}
  BY <1>0, <1>1 DEF memory, BlankInv, KeyType, Gen
<1>2. CASE PutOut
  <2>1. shmAt[Gate] = starts
    BY <1>0, <1>2 DEF PutOut, SegmentInv, GateUp
  <2>2. \A g \in Gen : g > starts => memOut'[g] = memOut[g] /\ shown'[g] = shown[g]
    <3>1. /\ memOut' = [memOut EXCEPT ![starts][pos[Gate]] = text[Gate].id]
          /\ shown' = shown \/ shown' = [shown EXCEPT ![starts] = text[Gate]]
      BY <1>2, <2>1 DEF PutOut
    <3>2. \A g \in Gen : g > starts => g # starts
      BY <1>0 DEF KeyType, Gen
    <3> QED
      BY <1>0, <3>1, <3>2 DEF MemType
  <2> QED
    BY <1>0, <1>2, <2>2 DEF PutOut, BlankInv, kernel
<1>3. CASE GetIn
  <2>1. shmAt[Gate] = starts
    BY <1>0, <1>3 DEF GetIn, Reading, SegmentInv, GateUp
  <2>2. \A g \in Gen : g > starts => memIn'[g] = memIn[g]
    <3>1. memIn' = memIn \/ memIn' = [memIn EXCEPT ![starts][1] = NUL]
      BY <1>3, <2>1 DEF GetIn
    <3>2. \A g \in Gen : g > starts => g # starts
      BY <1>0 DEF KeyType, Gen
    <3> QED
      BY <1>0, <3>1, <3>2 DEF MemType
  <2> QED
    BY <1>0, <1>3, <2>2 DEF GetIn, Reading, BlankInv, kernel
<1>4. ASSUME NEW c \in Ctrl, PutIn(c) PROVE BlankInv'
  <2>1. \A g \in Gen : g > starts => g # shmAt[c]
    BY <1>0 DEF SegmentInv, KeyType, Gen
  <2>2. \A g \in Gen : g > starts => memIn'[g] = memIn[g]
    BY <1>0, <1>4, <2>1 DEF PutIn, MemType
  <2> QED
    BY <1>0, <1>4, <2>2 DEF PutIn, BlankInv, kernel
<1>5. CASE GateShm \/ GateSem \/ GateSetVal \/ GateStart \/ GateRmSem \/ TermGate \/ UNCHANGED vars
  BY <1>1, <1>5 DEF GateShm, GateSem, GateSetVal, GateStart, Start, GateRmSem, TermGate, vars, kernel, history
<1>6. ASSUME NEW p \in Proc, Lock(p) \/ Unlock(p) \/ End(p) PROVE BlankInv'
  BY <1>1, <1>6 DEF Lock, Unlock, End, kernel, history
<1>7. ASSUME NEW c \in Ctrl, CtrlShm(c) \/ CtrlSem(c) \/ CtrlStart(c) \/ GetOut(c) PROVE BlankInv'
  BY <1>1, <1>7 DEF CtrlShm, CtrlSem, CtrlStart, Start, GetOut, Reading, memory, kernel, history
<1> QED
  BY <1>2, <1>3, <1>4, <1>5, <1>6, <1>7, Steps

LEMMA BStepInv ==
    ASSUME ~ZeroId, "kill_gate" \notin Faults
    PROVE  BInv /\ [Next]_vars => BInv'
BY LStepInv, TStepInv, SegmentStep, BlankStep DEF BInv

\* Two processes are never inside the lock of the segment of a running gateway.
LEMMA OneInside ==
    ASSUME BInv, GateUp, NEW p \in Proc, NEW q \in Proc,
           Inside(p), Inside(q), shmAt[p] = starts, shmAt[q] = starts
    PROVE  p = q
<1>1. semAt[p] = starts /\ semAt[q] = starts
  <2> SUFFICES ASSUME NEW r \in Proc, Inside(r), shmAt[r] = starts PROVE semAt[r] = starts
    OBVIOUS
  <2>1. semAt[r] # 0 /\ semAt[r] \in Nat /\ starts \in Nat
    BY DEF BInv, TInv, AttachedInv, Inside, TypeOK
  <2>2. CASE r = Gate
    BY <2>2 DEF BInv, SegmentInv, Inside
  <2>3. CASE r # Gate
    BY <2>1, <2>3, Names DEF BInv, SegmentInv
  <2> QED
    BY <2>2, <2>3
<1>2. semval[starts] # Removed /\ starts \in Gen
  BY DEF BInv, SegmentInv, GateUp, TInv, AttachedInv, TypeOK, Gen
<1>3. Live(p) /\ Live(q)
  BY <1>1, <1>2 DEF Live
<1>4. adj[p] = 1 /\ adj[q] = 1
  BY <1>3 DEF BInv, LInv, Held
<1> QED
  BY <1>1, <1>3, <1>4 DEF BInv, LInv, Held

\* The two halves of the gateway's segment.
In  == memIn[starts]
Out == memOut[starts]

-----------------------------------------------------------------------------
(* Commands *)

\* A control program that was killed before its command was complete.
Killed(c) == pc[c] = "done" /\ Unfinished(c)

\* It is between the first byte and the unlock of its command.
Putting(c) == Inside(c) /\ Unfinished(c) /\ shmAt[c] = starts

WholeIn(c) ==
    /\ \A i \in 1..text[c].len : In[i] = c
    /\ In[text[c].len + 1] = NUL

TakenOf(c) == \E i \in DOMAIN taken : taken[i][1] = c

\* What was popped came from a program that will not put any more.
TakenInv ==
    \A i \in DOMAIN taken : \E c \in Ctrl :
        /\ taken[i][1] = c
        /\ Killed(c) \/ (~Unfinished(c) /\ Whole(taken[i], text[c]))

\* What the segment holds.
HeldOf(c) ==
    /\ In[1] = c /\ ~TakenOf(c)
    /\ Killed(c) \/ (~Unfinished(c) /\ WholeIn(c)) \/ Putting(c)

HoldsInv == In[1] # NUL => \E c \in Ctrl : HeldOf(c)

\* How far a program has come with its command.
PuttingInv ==
    \A c \in Ctrl : Putting(c) =>
        /\ pc[c] = "copy" => \A i \in 1..pos[c] - 1 : In[i] = c
        /\ pc[c] = "unlock" => WholeIn(c)

\* How far the gateway has come with a command.
PoppingInv ==
    pc[Gate] = "copy" /\ text[Gate] = NoText =>
        /\ Len(buf[Gate]) = pos[Gate] - 1
        /\ \A i \in 1..pos[Gate] - 1 : In[i] # NUL /\ buf[Gate][i] = In[i]

PoppedOnce == \A i, j \in DOMAIN taken : taken[i][1] = taken[j][1] => i = j

CInv == TakenInv /\ PoppedOnce /\ (GateUp => HoldsInv /\ PuttingInv /\ PoppingInv)

LEMMA CInitInv == Init => CInv
<1> SUFFICES ASSUME Init PROVE CInv
  OBVIOUS
<1>1. ~GateUp
  BY Names DEF Init, GateUp
<1>2. TakenInv /\ PoppedOnce
  BY DEF Init, TakenInv, PoppedOnce
<1> QED
  BY <1>1, <1>2 DEF CInv

LEMMA NotTaken ==
    ASSUME TakenInv, NEW c \in Ctrl, Unfinished(c), pc[c] # "done"
    PROVE  ~TakenOf(c)
BY DEF TakenInv, TakenOf, Killed

\* What a step may do to a program that does not write into the segment.
Progress(c) ==
    /\ text'[c] = text[c]
    /\ Killed(c) => Killed(c)'
    /\ ~Unfinished(c) => ~Unfinished(c)'
    /\ Putting(c)' => \/ Putting(c) /\ pc'[c] = pc[c] /\ pos'[c] = pos[c]
                      \/ pc'[c] = "copy" /\ pos'[c] = 1
    /\ Putting(c) => Putting(c)' \/ Killed(c)' \/ (pc[c] = "unlock" /\ ~Unfinished(c)')

Rests(p) == pc'[p] = pc[p] /\ pos'[p] = pos[p] /\ text'[p] = text[p] /\ shmAt'[p] = shmAt[p]

LEMMA RestsProgress ==
    ASSUME NEW c \in Ctrl, Rests(c), todo'[c] = todo[c], starts' = starts
    PROVE  Progress(c)
BY DEF Rests, Progress, Killed, Putting, Unfinished, Inside

LEMMA Bystander ==
    ASSUME CInv, In' = In, taken' = taken,
           GateUp' => GateUp /\ PoppingInv',
           \A c \in Ctrl : Progress(c)
    PROVE  CInv'
<1>1. TakenInv' /\ PoppedOnce'
  <2>1. TakenInv'
    BY DEF CInv, TakenInv, Progress
  <2>2. PoppedOnce'
    BY DEF CInv, PoppedOnce
  <2> QED
    BY <2>1, <2>2
<1>2. ASSUME GateUp' PROVE HoldsInv' /\ PuttingInv'
  <2>0. HoldsInv /\ PuttingInv
    BY <1>2 DEF CInv
  <2>1. \A c \in Ctrl : /\ WholeIn(c) => WholeIn(c)'
                        /\ TakenOf(c)' => TakenOf(c)
    BY DEF WholeIn, TakenOf, Progress
  <2>2. HoldsInv'
    <3>1. ASSUME NEW c \in Ctrl, HeldOf(c) PROVE HeldOf(c)'
      <4>1. In'[1] = c /\ ~TakenOf(c)'
        BY <2>1, <3>1 DEF HeldOf
      <4>2. Killed(c)' \/ (~Unfinished(c)' /\ WholeIn(c)') \/ Putting(c)'
        BY <2>0, <2>1, <3>1 DEF Progress, PuttingInv, HeldOf
      <4> QED
        BY <4>1, <4>2 DEF HeldOf
    <3> QED
      BY <2>0, <3>1 DEF HoldsInv
  <2>3. PuttingInv'
    <3> SUFFICES ASSUME NEW c \in Ctrl, Putting(c)'
                 PROVE  /\ pc'[c] = "copy" => \A i \in 1..pos'[c] - 1 : In'[i] = c
                        /\ pc'[c] = "unlock" => WholeIn(c)'
      BY DEF PuttingInv
    <3>1. CASE Putting(c) /\ pc'[c] = pc[c] /\ pos'[c] = pos[c]
      BY <2>0, <2>1, <3>1 DEF PuttingInv
    <3>2. CASE pc'[c] = "copy" /\ pos'[c] = 1
      BY <3>2
    <3> QED
      BY <3>1, <3>2 DEF Progress
  <2> QED
    BY <2>2, <2>3
<1> QED
  BY <1>1, <1>2 DEF CInv

\* A step of one program, which the gateway and the other programs do not see.
LEMMA ProgramStep ==
    ASSUME TInv, CInv, NEW c \in Ctrl, NEW to, Go(c, to), UNCHANGED <<memIn, taken, starts>>,
           \A q \in Proc \ {c} : pos'[q] = pos[q] /\ buf'[q] = buf[q] /\ shmAt'[q] = shmAt[q],
           \A d \in Ctrl \ {c} : todo'[d] = todo[d],
           UNCHANGED text,
           Progress(c)
    PROVE  CInv'
<1>1. \A q \in Proc \ {c} : pc'[q] = pc[q]
  BY DEF TInv, TypeOK, Go
<1>2. Gate \in Proc \ {c} /\ \A d \in Ctrl : d # c => d \in Proc \ {c}
  BY Names
<1>3. \A d \in Ctrl : Progress(d)
  BY <1>1, <1>2, RestsProgress DEF Rests
<1>4. GateUp' => GateUp /\ PoppingInv'
  BY <1>1, <1>2 DEF CInv, GateUp, PoppingInv, In
<1> QED
  BY <1>3, <1>4, Bystander DEF In

\* A step of the gateway that the programs do not see.
LEMMA GateCopyStep ==
    ASSUME TInv, CInv, NEW to, Go(Gate, to), UNCHANGED <<memIn, taken, starts, todo>>,
           \A c \in Ctrl : pos'[c] = pos[c] /\ text'[c] = text[c] /\ shmAt'[c] = shmAt[c],
           to \in {"shm", "sem", "idle", "lock", "copy", "unlock"} => GateUp /\ PoppingInv'
    PROVE  CInv'
<1>1. \A c \in Ctrl : Rests(c)
  BY Names DEF TInv, TypeOK, Go, Rests
<1>2. \A c \in Ctrl : Progress(c)
  BY <1>1, RestsProgress
<1>3. GateUp' => GateUp /\ PoppingInv'
  BY Names DEF TInv, TypeOK, Go, GateUp
<1> QED
  BY <1>2, <1>3, Bystander DEF In

\* A text with its terminator is what the gateway reads.
LEMMA ReadWhole ==
    ASSUME TInv, NEW c \in Ctrl, WholeIn(c), PoppingInv, pc[Gate] = "copy", text[Gate] = NoText,
           starts \in Gen,
           IF pos[Gate] \in DOMAIN In THEN In[pos[Gate]] = NUL ELSE TRUE
    PROVE  Whole(buf[Gate], text[c])
<1>1. /\ text[c].len \in 1..MaxLen /\ text[c].id = c /\ c # NUL /\ MaxLen \in Nat
      /\ DOMAIN In = 1..MaxLen + 1 /\ pos[Gate] \in 1..MaxLen + 2
      /\ buf[Gate] \in Seq(Cell)
  BY Names, IdAssumption, DatabusAssumption DEF TInv, TypeOK, CopyInv, In, Area
<1>2. Len(buf[Gate]) = pos[Gate] - 1 /\ \A i \in 1..pos[Gate] - 1 : In[i] # NUL /\ buf[Gate][i] = In[i]
  BY DEF PoppingInv
<1>3. (\A i \in 1..text[c].len : In[i] = c) /\ In[text[c].len + 1] = NUL
  BY DEF WholeIn
<1>4. pos[Gate] - 1 < text[c].len + 1
  BY <1>1, <1>2, <1>3
<1>5. pos[Gate] \in DOMAIN In
  BY <1>1, <1>4
<1>6. pos[Gate] > text[c].len
  BY <1>1, <1>3, <1>5
<1>7. Len(buf[Gate]) = text[c].len
  BY <1>1, <1>2, <1>4, <1>6
<1>8. \A i \in 1..text[c].len : buf[Gate][i] = c
  BY <1>1, <1>2, <1>3, <1>7
<1> QED
  BY <1>1, <1>7, <1>8 DEF Whole

LEMMA GetInC == ASSUME BInv, CInv, GetIn PROVE CInv'
<1> USE Names
<1>0. /\ GateUp /\ shmAt[Gate] = starts /\ starts \in Gen /\ pc[Gate] = "copy" /\ text[Gate] = NoText
      /\ Inside(Gate)
  BY DEF GetIn, Reading, GateUp, BInv, SegmentInv, TInv, AttachedInv, TypeOK, Gen, Inside
<1>1. /\ UNCHANGED <<todo, text, shmAt, starts>>
      /\ \A c \in Ctrl : pc'[c] = pc[c] /\ pos'[c] = pos[c]
  BY DEF GetIn, Reading, attached, kernel, Go, BInv, TInv, TypeOK
<1> DEFINE cell == IF pos[Gate] \in DOMAIN In THEN In[pos[Gate]] ELSE NUL
<1>2. TInv /\ HoldsInv /\ PuttingInv /\ PoppingInv
  BY <1>0 DEF CInv, BInv
<1>3. CASE cell # NUL
  <2>1. /\ buf' = [buf EXCEPT ![Gate] = Append(@, cell)] /\ pos' = [pos EXCEPT ![Gate] = @ + 1] /\ pc' = pc
    BY <1>0, <1>3 DEF GetIn, Reading, In
  <2>2. UNCHANGED <<taken, memIn>>
    BY <2>1 DEF GetIn
  <2>3. cell = In[pos[Gate]]
    BY <1>3
  <2> HIDE DEF cell
  <2>4. PoppingInv'
    <3>1. buf[Gate] \in Seq(Cell) /\ pos[Gate] \in Nat /\ buf'[Gate] = Append(buf[Gate], cell) /\ pos'[Gate] = pos[Gate] + 1
      BY <1>2, <2>1 DEF TInv, TypeOK
    <3>2. Len(buf[Gate]) = pos[Gate] - 1 /\ \A i \in 1..pos[Gate] - 1 : In[i] # NUL /\ buf[Gate][i] = In[i]
      BY <1>0, <1>2 DEF PoppingInv
    <3>3. Len(buf'[Gate]) = pos'[Gate] - 1
      BY <3>1, <3>2
    <3>4. \A i \in 1..pos[Gate] : In[i] # NUL /\ buf'[Gate][i] = In[i]
      BY <1>3, <2>3, <3>1, <3>2
    <3>5. In' = In /\ pos'[Gate] - 1 = pos[Gate]
      BY <1>1, <2>2, <3>1 DEF In
    <3> QED
      BY <3>3, <3>4, <3>5 DEF PoppingInv
  <2>5. \A c \in Ctrl : Progress(c)
    BY <1>1, RestsProgress DEF Rests
  <2> QED
    BY <1>0, <1>1, <2>2, <2>4, <2>5, Bystander DEF In
<1>4. CASE cell = NUL
  <2>1. pc'[Gate] = "unlock" /\ pc' # pc
    BY <1>0, <1>2, <1>4 DEF GetIn, Reading, In, Go, TInv, TypeOK
  <2>2. PoppingInv'
    BY <2>1 DEF PoppingInv
  <2>3. CASE buf[Gate] = << >>
    <3>1. UNCHANGED <<taken, memIn>>
      BY <2>3 DEF GetIn
    <3>2. \A c \in Ctrl : Progress(c)
      BY <1>1, RestsProgress DEF Rests
    <3> QED
      BY <1>0, <1>1, <2>2, <3>1, <3>2, Bystander DEF In
  <2>4. CASE buf[Gate] # << >>
    <3>1. taken' = Append(taken, buf[Gate]) /\ memIn' = [memIn EXCEPT ![starts][1] = NUL]
      BY <1>0, <2>1, <2>4 DEF GetIn
    <3>2. In'[1] = NUL
      BY <1>0, <1>1, <3>1, DatabusAssumption, <1>2 DEF In, TInv, TypeOK, Area
    <3>3. \A c \in Ctrl : ~Putting(c)
      BY <1>0, OneInside DEF Putting
    <3>4. HoldsInv' /\ PuttingInv'
      <4>1. \A c \in Ctrl : ~Putting(c)'
        BY <1>1, <3>3 DEF Putting, Inside, Unfinished
      <4> QED
        BY <3>2, <4>1 DEF HoldsInv, PuttingInv
    <3>5. PICK c \in Ctrl : HeldOf(c) /\ buf[Gate][1] = c
      <4>1. buf[Gate] \in Seq(Cell) /\ Len(buf[Gate]) = pos[Gate] - 1 /\ pos[Gate] \in Nat
        BY <1>0, <1>2 DEF PoppingInv, TInv, TypeOK
      <4>2. 1 \in 1..pos[Gate] - 1
        BY <2>4, <4>1
      <4>3. In[1] # NUL /\ buf[Gate][1] = In[1]
        BY <1>0, <1>2, <4>2 DEF PoppingInv
      <4> QED
        BY <1>2, <4>3 DEF HoldsInv, HeldOf
    <3>6. Killed(c) \/ (~Unfinished(c) /\ Whole(buf[Gate], text[c]))
      <4>1. CASE WholeIn(c)
        BY <1>0, <1>2, <1>4, <3>3, <3>5, <4>1, ReadWhole DEF HeldOf
      <4> QED
        BY <3>3, <3>5, <4>1 DEF HeldOf
    <3>7. taken \in Seq(Seq(Cell)) /\ buf[Gate] \in Seq(Cell)
      BY <1>2 DEF TInv, TypeOK
    <3>8. /\ DOMAIN taken' = 1..Len(taken) + 1 /\ taken'[Len(taken) + 1] = buf[Gate]
          /\ \A i \in DOMAIN taken : i \in 1..Len(taken) /\ taken'[i] = taken[i]
          /\ DOMAIN taken = 1..Len(taken) /\ Len(taken) \in Nat
      BY <3>1, <3>7
    <3>9. \A d \in Ctrl : (Killed(d) => Killed(d)') /\ (~Unfinished(d) => ~Unfinished(d)') /\ text'[d] = text[d]
      BY <1>1 DEF Killed, Unfinished
    <3>10. TakenInv'
      <4> SUFFICES ASSUME NEW i \in DOMAIN taken'
                   PROVE  \E d \in Ctrl : /\ taken'[i][1] = d
                                          /\ Killed(d)' \/ (~Unfinished(d)' /\ Whole(taken'[i], text'[d]))
        BY DEF TakenInv
      <4>1. CASE i = Len(taken) + 1
        BY <3>5, <3>6, <3>8, <3>9, <4>1
      <4>2. CASE i # Len(taken) + 1
        <5>1. i \in DOMAIN taken /\ taken'[i] = taken[i]
          BY <3>8, <4>2
        <5> QED
          BY <3>9, <5>1 DEF CInv, TakenInv
      <4> QED
        BY <4>1, <4>2
    <3>11. PoppedOnce'
      <4> SUFFICES ASSUME NEW i \in DOMAIN taken', NEW j \in DOMAIN taken', taken'[i][1] = taken'[j][1]
                   PROVE  i = j
        BY DEF PoppedOnce
      <4>1. \A k \in DOMAIN taken : taken[k][1] # c
        BY <3>5 DEF HeldOf, TakenOf
      <4>2. \A k \in DOMAIN taken' : k = Len(taken) + 1 \/ (k \in DOMAIN taken /\ taken'[k] = taken[k])
        BY <3>8
      <4> QED
        BY <3>5, <3>8, <4>1, <4>2 DEF CInv, PoppedOnce
    <3> QED
      BY <2>2, <3>4, <3>10, <3>11 DEF CInv
  <2> QED
    BY <2>3, <2>4
<1> QED
  BY <1>3, <1>4

LEMMA PutInC == ASSUME BInv, CInv, NEW c \in Ctrl, PutIn(c) PROVE CInv'
<1> USE Names
<1> DEFINE end == pos[c] = text[c].len + 1
<1>t. PcType /\ KeyType /\ CopyType /\ MemType /\ AttachedInv /\ CopyAt(c) /\ TextAt(c) /\ TInv
  BY Typed, CopyInvAt DEF BInv, TInv
<1>p. pc[c] = "copy" /\ Head(todo[c]) = "put_in" /\ c # NUL /\ MaxLen \in Nat
  BY IdAssumption, DatabusAssumption DEF PutIn
<1>q. /\ todo[c] # << >> /\ text[c].len \in 1..MaxLen /\ pos[c] \in 1..text[c].len + 1
      /\ pos[c] \in 1..MaxLen + 1
  BY <1>t, <1>p DEF CopyAt, TextAt, CopyType
<1>r. shmAt[c] \in Gen
  BY <1>t, <1>p DEF AttachedInv, KeyType, Gen
<1>0. /\ TInv /\ pc[c] = "copy" /\ Head(todo[c]) = "put_in" /\ todo[c] # << >>
      /\ text[c].len \in 1..MaxLen /\ pos[c] \in 1..text[c].len + 1 /\ c # NUL /\ MaxLen \in Nat
      /\ shmAt[c] \in Gen
  BY <1>t, <1>p, <1>q, <1>r
<1>1. /\ memIn' = [memIn EXCEPT ![shmAt[c]][pos[c]] = IF end THEN NUL ELSE c]
      /\ pos' = [pos EXCEPT ![c] = @ + 1]
      /\ pc' = IF end THEN [pc EXCEPT ![c] = "unlock"] ELSE pc
      /\ UNCHANGED <<todo, text, buf, shmAt, starts, taken>>
  BY Zenon DEF PutIn, LastCell, Go, attached, kernel
<1>2. /\ pc'[c] = (IF end THEN "unlock" ELSE "copy") /\ pos'[c] = pos[c] + 1
      /\ \A q \in Proc \ {c} : pc'[q] = pc[q] /\ pos'[q] = pos[q]
  BY <1>0, <1>1 DEF TInv, TypeOK
<1>3. \A d \in Ctrl \ {c} : Progress(d)
  BY <1>1, <1>2, RestsProgress DEF Rests
<1>4. Unfinished(c) /\ Unfinished(c)' /\ Inside(c) /\ Inside(c)' /\ ~Killed(c)
  BY <1>0, <1>1, <1>2 DEF Unfinished, Inside, Killed
<1>5. CASE shmAt[c] # starts
  <2>1. In' = In
    BY <1>0, <1>1, <1>5 DEF In, TInv, TypeOK
  <2>2. Progress(c)
    BY <1>1, <1>4, <1>5 DEF Progress, Putting
  <2>3. GateUp' => GateUp /\ PoppingInv'
    BY <1>1, <1>2, <2>1 DEF CInv, GateUp, PoppingInv
  <2> QED
    BY <1>1, <1>3, <2>1, <2>2, <2>3, Bystander
<1>6. CASE shmAt[c] = starts
  <2>1. TakenInv' /\ PoppedOnce'
    <3>1. \A d \in Ctrl : (Killed(d) => Killed(d)') /\ (~Unfinished(d) => ~Unfinished(d)') /\ text'[d] = text[d]
      BY <1>1, <1>3, <1>4 DEF Progress
    <3>2. TakenInv'
      BY <1>1, <3>1 DEF CInv, TakenInv
    <3> QED
      BY <1>1, <3>2 DEF CInv, PoppedOnce
  <2>2. ASSUME GateUp' PROVE HoldsInv' /\ PuttingInv' /\ PoppingInv'
    <3>1. GateUp /\ PuttingInv /\ Putting(c)
      BY <1>2, <1>4, <1>6, <2>2 DEF GateUp, Putting, CInv
    <3>2. \A q \in Proc : Inside(q) /\ shmAt[q] = starts => q = c
      BY <1>4, <1>6, <3>1, OneInside
    <3>3. pc[Gate] # "copy"
      BY <3>1, <3>2 DEF BInv, SegmentInv, Inside
    <3>4. PoppingInv'
      BY <1>2, <3>3 DEF PoppingInv
    <3>5. /\ In'[pos[c]] = IF end THEN NUL ELSE c
          /\ \A i \in 1..MaxLen + 1 : i # pos[c] => In'[i] = In[i]
      <4> DEFINE cell == IF end THEN NUL ELSE c
      <4>1. memIn' = [memIn EXCEPT ![starts][pos[c]] = cell] /\ starts' = starts /\ starts \in Gen
        BY <1>1, <1>6, <1>r
      <4> HIDE DEF cell
      <4>2. In' = [In EXCEPT ![pos[c]] = cell] /\ DOMAIN In = 1..MaxLen + 1
        BY <1>t, <4>1 DEF In, MemType, Area
      <4>3. In'[pos[c]] = cell /\ \A i \in 1..MaxLen + 1 : i # pos[c] => In'[i] = In[i]
        BY <1>q, <4>2
      <4> QED
        BY <4>3 DEF cell
    <3>6. \A i \in 1..pos[c] - 1 : In[i] = c
      BY <1>0, <3>1 DEF PuttingInv
    <3>7. \A i \in 1..pos[c] - 1 : In'[i] = c
      BY <1>0, <3>5, <3>6
    <3>8. In'[1] = c
      BY <1>0, <3>5, <3>7
    <3>9. ~TakenOf(c)'
      BY <1>0, <1>1, <1>4, NotTaken DEF CInv, TakenOf
    <3>10. Putting(c)'
      BY <1>1, <1>4, <1>6 DEF Putting
    <3>11. HoldsInv'
      BY <3>8, <3>9, <3>10 DEF HoldsInv, HeldOf
    <3>12. PuttingInv'
      <4>1. \A d \in Ctrl \ {c} : ~Putting(d)'
        BY <1>1, <1>2, <3>2 DEF Putting, Inside, Unfinished
      <4>2. ~end => \A i \in 1..pos[c] : In'[i] = c
        BY <1>0, <3>5, <3>7
      <4>3. end => WholeIn(c)'
        BY <1>0, <1>1, <3>5, <3>7 DEF WholeIn
      <4>4. pos'[c] - 1 = pos[c]
        BY <1>0, <1>2
      <4> QED
        BY <1>2, <4>1, <4>2, <4>3, <4>4 DEF PuttingInv
    <3> QED
      BY <3>4, <3>11, <3>12
  <2> QED
    BY <2>1, <2>2 DEF CInv
<1> QED
  BY <1>5, <1>6

LEMMA CStepInv ==
    ASSUME "kill_gate" \notin Faults, BInv, CInv, [Next]_vars
    PROVE  CInv'
<1> USE Names
<1>0. TInv /\ PcType /\ KeyType /\ CopyType
  BY Typed DEF BInv, TInv
<1>1. CASE GateShm
  <2>1. starts' = starts + 1 /\ UNCHANGED <<memIn, taken, todo, text>>
        /\ \A c \in Ctrl : pc'[c] = pc[c] /\ shmAt'[c] = shmAt[c]
    BY <1>0, <1>1 DEF GateShm, copying, memory, history, PcType, KeyType, Go
  <2>2. pc'[Gate] = "shm" /\ starts' \in Gen
    <3>1. pc'[Gate] = "shm"
      BY <1>0, <1>1 DEF GateShm, PcType, Go
    <3>2. starts' \in Gen
      BY <1>0, <1>1, DatabusAssumption DEF GateShm, KeyType, Gen
    <3> QED
      BY <3>1, <3>2
  <2>3. TakenInv' /\ PoppedOnce'
    <3>1. \A d \in Ctrl : (Killed(d) => Killed(d)') /\ (~Unfinished(d) => ~Unfinished(d)') /\ text'[d] = text[d]
      BY <2>1 DEF Killed, Unfinished
    <3> QED
      BY <2>1, <3>1 DEF CInv, TakenInv, PoppedOnce
  <2>4. HoldsInv'
    BY <1>0, <2>1, <2>2, DatabusAssumption DEF BInv, BlankInv, HoldsInv, In, KeyType
  <2>5. PuttingInv'
    BY <1>0, <2>1 DEF BInv, SegmentInv, PuttingInv, Putting, KeyType
  <2>6. PoppingInv'
    BY <2>2 DEF PoppingInv
  <2> QED
    BY <2>3, <2>4, <2>5, <2>6 DEF CInv
<1>2. CASE GateSem \/ GateSetVal
  <2>1. PICK to \in {"sem", "idle"} : Go(Gate, to) /\ UNCHANGED <<memIn, taken, starts, todo, copying, shmAt>>
    BY <1>2 DEF GateSem, GateSetVal, kernel, attached, memory, history
  <2>2. GateUp
    BY <1>2 DEF GateSem, GateSetVal, GateUp
  <2>3. pc'[Gate] = to
    BY <1>0, <2>1 DEF PcType, Go
  <2>4. PoppingInv'
    BY <2>1, <2>3 DEF PoppingInv
  <2> QED
    BY <1>0, <2>1, <2>2, <2>4, GateCopyStep DEF copying
<1>3. CASE GateStart
  <2>1. /\ Go(Gate, "lock") /\ UNCHANGED <<memIn, taken, starts, todo, pos, shmAt>>
        /\ \A c \in Ctrl : text'[c] = text[c]
    BY <1>0, <1>3 DEF GateStart, Start, kernel, attached, memory, history, CopyType
  <2>2. GateUp /\ pc'[Gate] = "lock"
    BY <1>0, <1>3, <2>1 DEF GateStart, Start, GateUp, PcType, Go
  <2>3. PoppingInv'
    BY <2>2 DEF PoppingInv
  <2> QED
    BY <1>0, <2>1, <2>2, <2>3, GateCopyStep
<1>4. CASE PutOut
  <2>1. /\ UNCHANGED <<memIn, taken, starts, todo, text, shmAt>> /\ text[Gate] # NoText
        /\ \A c \in Ctrl : pos'[c] = pos[c]
    BY <1>0, <1>4 DEF PutOut, kernel, attached, CopyType
  <2>2. PICK to \in {"copy", "unlock"} : Go(Gate, to)
    <3>1. pc' = pc /\ pc[Gate] = "copy" => Go(Gate, "copy")
      BY <1>0 DEF Go, PcType
    <3> QED
      BY <1>4, <3>1 DEF PutOut
  <2>3. GateUp
    BY <1>4 DEF PutOut, GateUp
  <2>4. PoppingInv'
    BY <2>1 DEF PoppingInv
  <2> QED
    BY <1>0, <2>1, <2>2, <2>3, <2>4, GateCopyStep
<1>5. CASE GetIn
  BY <1>5, GetInC
<1>6. CASE TermGate
  BY <1>0, <1>6, GateCopyStep DEF TermGate, attached, copying, memory, history
<1>7. CASE GateRmSem
  <2>1. /\ UNCHANGED <<memIn, taken, starts, todo>> /\ Go(Gate, "off")
        /\ \A c \in Ctrl : pos'[c] = pos[c] /\ text'[c] = text[c] /\ shmAt'[c] = shmAt[c]
    BY <1>0, <1>7 DEF GateRmSem, Forget, memory, history, CopyType, KeyType
  <2> QED
    BY <1>0, <2>1, GateCopyStep
<1>8. ASSUME NEW c \in Ctrl, CtrlShm(c) \/ CtrlSem(c) \/ CtrlStart(c) PROVE CInv'
  <2>1. PICK to \in {"done", "shm", "idle", "lock"} : Go(c, to)
    BY <1>8 DEF CtrlShm, CtrlSem, CtrlStart, Start
  <2>2. /\ UNCHANGED <<memIn, taken, starts, todo, pos, buf, text>>
        /\ pc[c] \in {"off", "shm", "idle"} /\ \A q \in Proc \ {c} : shmAt'[q] = shmAt[q]
    BY <1>0, <1>8 DEF CtrlShm, CtrlSem, CtrlStart, Start, copying, kernel, attached, memory, history, KeyType
  <2>3. pc'[c] = to
    BY <1>0, <2>1 DEF PcType, Go
  <2>4. Progress(c)
    BY <2>2, <2>3 DEF Progress, Killed, Unfinished, Putting, Inside
  <2> QED
    BY <1>0, <2>1, <2>2, <2>4, ProgramStep
<1>9. ASSUME NEW c \in Ctrl, PutIn(c) PROVE CInv'
  BY <1>9, PutInC
<1>10. ASSUME NEW c \in Ctrl, GetOut(c) PROVE CInv'
  <2>1. UNCHANGED <<memIn, taken, starts, todo, text, shmAt>>
        /\ \A q \in Proc \ {c} : pos'[q] = pos[q] /\ buf'[q] = buf[q]
    BY <1>0, <1>10 DEF GetOut, Reading, kernel, attached, CopyType
  <2>2. PICK to \in {"copy", "unlock"} : Go(c, to)
    <3>1. pc' = pc /\ pc[c] = "copy" => Go(c, "copy")
      BY <1>0 DEF Go, PcType
    <3> QED
      BY <1>10, <3>1 DEF GetOut, Reading
  <2>3. ~Unfinished(c) /\ ~Unfinished(c)' /\ ~Putting(c) /\ ~Putting(c)'
    BY <1>10, <2>1 DEF GetOut, Unfinished, Putting
  <2>4. Progress(c)
    BY <2>1, <2>3 DEF Progress, Killed
  <2> QED
    BY <1>0, <2>1, <2>2, <2>4, ProgramStep
<1>11. ASSUME NEW c \in Ctrl, End(c) PROVE CInv'
  <2>1. /\ UNCHANGED <<memIn, taken, starts, todo, text>> /\ Go(c, "done") /\ pc'[c] = "done"
        /\ \A q \in Proc \ {c} : pos'[q] = pos[q] /\ buf'[q] = buf[q] /\ shmAt'[q] = shmAt[q]
    BY <1>0, <1>11 DEF End, Forget, kernel, memory, history, CopyType, KeyType, PcType, Go
  <2>2. Progress(c)
    BY <2>1 DEF Progress, Killed, Unfinished, Putting, Inside
  <2> QED
    BY <1>0, <2>1, <2>2, ProgramStep
<1>12. CASE Lock(Gate) \/ Unlock(Gate)
  <2>1. PICK to \in {"copy", "idle"} : Go(Gate, to) /\ (to = "copy" => pc[Gate] = "lock" /\ UNCHANGED copying)
    BY <1>12 DEF Lock, Unlock
  <2>2. /\ UNCHANGED <<memIn, taken, starts, todo, shmAt>> /\ GateUp
        /\ \A c \in Ctrl : pos'[c] = pos[c] /\ text'[c] = text[c]
    BY <1>0, <1>12 DEF Lock, Unlock, Forget, kernel, attached, copying, memory, history, CopyType, GateUp
  <2>3. pc'[Gate] = to
    BY <1>0, <2>1 DEF PcType, Go
  <2>4. to = "copy" => pos'[Gate] = 1 /\ buf'[Gate] = << >>
    BY <1>0, <2>1 DEF TInv, CopyInv, copying
  <2>5. PoppingInv'
    BY <2>3, <2>4 DEF PoppingInv
  <2> QED
    BY <1>0, <2>1, <2>2, <2>5, GateCopyStep
<1>13. ASSUME NEW c \in Ctrl, Lock(c) PROVE CInv'
  <2>1. UNCHANGED <<memIn, taken, starts, todo, pos, buf, text, shmAt>> /\ Go(c, "copy") /\ pc[c] = "lock"
    BY <1>13 DEF Lock, kernel, attached, copying, memory, history
  <2>2. pc'[c] = "copy" /\ pos'[c] = 1
    BY <1>0, <2>1 DEF PcType, Go, TInv, CopyInv
  <2>3. Progress(c)
    BY <2>1, <2>2 DEF Progress, Killed, Unfinished, Putting, Inside
  <2> QED
    BY <1>0, <2>1, <2>3, ProgramStep
<1>14. ASSUME NEW c \in Ctrl, Unlock(c) PROVE CInv'
  <2>1. /\ UNCHANGED <<memIn, taken, starts, text, shmAt>> /\ Go(c, "idle") /\ pc[c] = "unlock" /\ pc'[c] = "idle"
        /\ \A q \in Proc \ {c} : pos'[q] = pos[q] /\ buf'[q] = buf[q]
    BY <1>0, <1>14 DEF Unlock, Forget, kernel, attached, memory, history, CopyType, PcType, Go
  <2>2. todo' = [todo EXCEPT ![c] = Tail(@)] /\ todo[c] # << >>
    BY <1>0, <1>14 DEF Unlock, TInv, CopyInv
  <2>3. ~Unfinished(c)'
    <3>1. todo'[c] = Tail(todo[c])
      BY <1>0, <2>2 DEF PcType
    <3>2. todo[c] \in {<<"put_in", "get_out">>, <<"get_out">>, << >>}
      BY <1>0 DEF PcType
    <3>3. Tail(todo[c]) = << >> \/ Head(Tail(todo[c])) = "get_out"
      BY <2>2, <3>2, Todo
    <3> QED
      BY <3>1, <3>3 DEF Unfinished
  <2>4. Progress(c)
    BY <2>1, <2>3 DEF Progress, Killed, Putting, Inside
  <2>5. \A d \in Ctrl \ {c} : todo'[d] = todo[d]
    BY <1>0, <2>2 DEF PcType
  <2> QED
    BY <1>0, <2>1, <2>4, <2>5, ProgramStep
<1>15. CASE UNCHANGED vars
  <2>1. \A c \in Ctrl : Progress(c)
    BY <1>15, RestsProgress DEF vars, copying, attached, kernel, Rests
  <2>2. GateUp' => GateUp /\ PoppingInv'
    BY <1>15 DEF vars, copying, kernel, memory, CInv, GateUp, PoppingInv, In
  <2> QED
    BY <1>15, <2>1, <2>2, Bystander DEF vars, kernel, memory, history, In
<1> QED
  BY <1>1, <1>2, <1>3, <1>4, <1>5, <1>6, <1>7, <1>8, <1>9, <1>10, <1>11, <1>12, <1>13, <1>14,
     <1>15, StepsOfTheLiving

\* The gateway pops every command as a whole and at most once, however many control
\* programs put theirs, are killed or wait, and however often the gateway is
\* terminated and started again; what it pops of a program that was killed in the
\* middle is torn.
THEOREM CommandsAreWhole ==
    ASSUME ~ZeroId, "kill_gate" \notin Faults
    PROVE  Spec => []CommandsWhole
<1>1. BInv /\ [Next]_vars => BInv'
  BY BStepInv
<1>2. BInv /\ CInv /\ [Next]_vars => CInv'
  BY CStepInv
<1>3. CInv => CommandsWhole
  BY DEF CInv, TakenInv, PoppedOnce, CommandsWhole, Killed
<1> QED
  BY BInitInv, CInitInv, <1>1, <1>2, <1>3, PTL DEF Spec

-----------------------------------------------------------------------------
(* One start of the gateway *)

\* A gateway that is neither killed nor terminated starts once.
OneStart == IF starts = 0 THEN pc[Gate] = "off" /\ last = NUL
                          ELSE starts = 1 /\ GateUp

\* A program has put its command last when it unlocks.
LastPutter ==
    /\ \A c \in Ctrl : Putting(c) /\ pc[c] = "unlock" => last = c
    /\ \A c \in Ctrl : last = c => ~Unfinished(c) \/ pc[c] \in {"unlock", "done"}

LastIsKept ==
    last # NUL =>
        \/ \E i \in DOMAIN taken : Whole(taken[i], text[last])
        \/ WholeIn(last)
        \/ \E c \in Ctrl \ {last} : Unfinished(c) /\ (In[1] = c \/ TakenOf(c))

KInv == LastPutter /\ LastIsKept

LEMMA OneStartInit == Init => OneStart
BY Names DEF Init, OneStart

\* Who is attached is attached to that one segment.
LEMMA OneSegment ==
    ASSUME BInv, OneStart, NEW c \in Ctrl, pc[c] \notin {"off", "done"}
    PROVE  shmAt[c] = starts /\ starts = 1 /\ GateUp
<1>1. shmAt[c] # 0 /\ shmAt[c] \in 0..MaxStarts /\ starts \in Nat /\ shmAt[c] <= starts
  BY Names DEF BInv, TInv, TypeOK, AttachedInv, SegmentInv
<1> QED
  BY <1>1 DEF OneStart

LEMMA OneStartStep ==
    ASSUME Faults \subseteq {"kill_ctrl"}, BInv, OneStart, [Next]_vars
    PROVE  OneStart'
<1> USE Names DEF OneStart, GateUp
<1>0. PcType /\ KeyType /\ AttachedInv
  BY Typed DEF BInv, TInv
<1>1. CASE GateShm
  <2>1. pc'[Gate] = "shm" /\ starts' = 1
    BY <1>0, <1>1 DEF GateShm, PcType, Go
  <2> QED
    BY <2>1
<1>2. CASE GateSem \/ GateSetVal \/ GateStart \/ PutOut \/ GetIn
  <2>1. /\ starts' = starts /\ last' = last /\ pc[Gate] # "off"
        /\ pc'[Gate] \in {"sem", "idle", "lock", "copy", "unlock"}
    BY <1>0, <1>2 DEF GateSem, GateSetVal, GateStart, Start, PutOut, GetIn, Reading, kernel, history, PcType, Go
  <2> QED
    BY <2>1
<1>3. ~GateRmSem /\ ~TermGate
  BY DEF GateRmSem, TermGate
<1>4. ASSUME NEW c \in Ctrl, CtrlShm(c) \/ CtrlSem(c) \/ CtrlStart(c) \/ GetOut(c) \/ End(c) PROVE OneStart'
  <2>1. starts' = starts /\ last' = last /\ pc'[Gate] = pc[Gate]
    BY <1>0, <1>4 DEF CtrlShm, CtrlSem, CtrlStart, Start, GetOut, Reading, End, kernel, history, PcType, Go
  <2> QED
    BY <2>1
<1>5. ASSUME NEW c \in Ctrl, PutIn(c) PROVE OneStart'
  <2>1. starts' = starts /\ pc'[Gate] = pc[Gate]
    BY <1>0, <1>5 DEF PutIn, kernel, PcType, Go
  <2>2. pc[c] = "copy"
    BY <1>5 DEF PutIn
  <2> QED
    BY <2>1, <2>2, OneSegment
<1>6. ASSUME NEW p \in Proc, Lock(p) \/ Unlock(p) PROVE OneStart'
  <2>1. /\ starts' = starts /\ last' = last
        /\ pc'[Gate] = pc[Gate] \/ (pc[Gate] \in {"lock", "unlock"} /\ pc'[Gate] \in {"copy", "idle"})
    BY <1>0, <1>6 DEF Lock, Unlock, kernel, history, PcType, Go
  <2> QED
    BY <2>1
<1>7. CASE UNCHANGED vars
  BY <1>7 DEF vars, kernel, history
<1> QED
  BY <1>1, <1>2, <1>3, <1>4, <1>5, <1>6, <1>7, StepsOfTheLiving

\* What a step may do to a program that puts no byte.
Keeps(c) ==
    /\ text'[c] = text[c]
    /\ Unfinished(c) => Unfinished(c)' \/ last = c
    /\ Unfinished(c)' => Unfinished(c)
    /\ Putting(c)' /\ pc'[c] = "unlock" => Putting(c) /\ pc[c] = "unlock"
    /\ pc[c] \in {"unlock", "done"} /\ Unfinished(c)' => pc'[c] \in {"unlock", "done"}

LEMMA RestsKeeps ==
    ASSUME NEW c \in Ctrl, Rests(c), todo'[c] = todo[c], starts' = starts
    PROVE  Keeps(c)
BY DEF Rests, Keeps, Putting, Unfinished, Inside

LEMMA KeepsLast ==
    ASSUME TInv, KInv, \A c \in Ctrl : Keeps(c), In' = In, taken' = taken, last' = last
    PROVE  KInv'
<1>1. LastPutter'
  BY DEF KInv, LastPutter, Keeps
<1>2. LastIsKept'
  <2>1. last # NUL => last \in Ctrl /\ text'[last] = text[last]
    BY DEF TInv, TypeOK, Keeps
  <2> QED
    BY <2>1 DEF KInv, LastIsKept, WholeIn, TakenOf, Keeps
<1> QED
  BY <1>1, <1>2 DEF KInv

\* A program that puts a byte of its command either completes it or tears the last
\* one.
LEMMA PutInK ==
    ASSUME BInv, OneStart, KInv, CInv', NEW c \in Ctrl, PutIn(c)
    PROVE  KInv'
<1> USE Names
<1>0. /\ PcType /\ CopyType /\ pc[c] = "copy" /\ Unfinished(c)
      /\ shmAt[c] = starts /\ starts = 1 /\ GateUp
  <2>1. pc[c] = "copy" /\ Head(todo[c]) = "put_in" /\ todo[c] # << >>
    BY DEF PutIn, BInv, TInv, CopyInv
  <2> QED
    BY <2>1, OneSegment, Typed DEF BInv, TInv, Unfinished
<1>1. /\ pos' = [pos EXCEPT ![c] = @ + 1]
      /\ UNCHANGED <<todo, text, shmAt, starts, taken>>
      /\ \A q \in Proc \ {c} : pc'[q] = pc[q]
  BY <1>0, Zenon DEF PutIn, Go, PcType, attached, kernel
<1>2. \A d \in Ctrl \ {c} : ~Putting(d) /\ ~Putting(d)' /\ pc'[d] = pc[d] /\ (Unfinished(d)' <=> Unfinished(d))
  BY <1>0, <1>1, OneInside DEF Putting, Inside, Unfinished
<1>3. pos'[c] \in Nat /\ pos'[c] >= 2
  BY <1>0, <1>1 DEF CopyType
<1>4. pc'[c] \in {"copy", "unlock"} => Putting(c)' /\ HoldsInv' /\ PuttingInv' /\ Unfinished(c)'
  BY <1>0, <1>1 DEF Putting, Inside, Unfinished, CInv, GateUp
<1>5. CASE LastCell(c)
  <2>1. pc'[c] = "unlock" /\ last' = c
    BY <1>0, <1>5 DEF PutIn, Go, PcType
  <2>2. WholeIn(c)'
    BY <1>4, <2>1 DEF PuttingInv
  <2>3. LastPutter'
    BY <1>2, <2>1 DEF LastPutter
  <2>4. LastIsKept'
    BY <2>1, <2>2 DEF LastIsKept, WholeIn
  <2> QED
    BY <2>3, <2>4 DEF KInv
<1>6. CASE ~LastCell(c)
  <2>1. pc'[c] = "copy" /\ last' = last
    BY <1>0, <1>6 DEF PutIn
  <2>2. In'[1] = c /\ Unfinished(c)'
    <3>1. 1 \in 1..pos'[c] - 1
      BY <1>3
    <3> QED
      BY <1>4, <2>1, <3>1 DEF PuttingInv
  <2>3. last # c
    BY <1>0 DEF KInv, LastPutter
  <2>4. LastPutter'
    BY <1>2, <2>1, <2>3 DEF KInv, LastPutter
  <2>5. LastIsKept'
    BY <2>1, <2>2, <2>3 DEF LastIsKept
  <2> QED
    BY <2>4, <2>5 DEF KInv
<1> QED
  BY <1>5, <1>6

\* The gateway pops what it read under the lock.
LEMMA GetInK ==
    ASSUME BInv, CInv, KInv, GetIn
    PROVE  KInv'
<1> USE Names
<1>0. /\ TInv /\ pc[Gate] = "copy" /\ text[Gate] = NoText /\ starts \in Gen /\ PoppingInv
      /\ shmAt[Gate] = starts
  BY DEF GetIn, Reading, GateUp, BInv, SegmentInv, TInv, AttachedInv, TypeOK, Gen, CInv
<1>1. /\ UNCHANGED <<todo, text, shmAt, starts, last>>
      /\ \A c \in Ctrl : pc'[c] = pc[c] /\ pos'[c] = pos[c]
  BY DEF GetIn, Reading, attached, kernel, Go, BInv, TInv, TypeOK
<1>2. \A c \in Ctrl : Keeps(c)
  BY <1>1, RestsKeeps DEF Rests
<1>3. CASE UNCHANGED <<taken, memIn>>
  BY <1>0, <1>1, <1>2, <1>3, KeepsLast DEF In
<1>4. CASE ~UNCHANGED <<taken, memIn>>
  <2>1. taken' = Append(taken, buf[Gate]) /\ buf[Gate] # << >> /\ pc' # pc
    BY <1>4 DEF GetIn
  <2>2. taken \in Seq(Seq(Cell)) /\ buf[Gate] \in Seq(Cell) /\ pos[Gate] \in Nat
    BY <1>0 DEF TInv, TypeOK
  <2>3. /\ Len(taken) + 1 \in DOMAIN taken' /\ taken'[Len(taken) + 1] = buf[Gate]
        /\ \A i \in DOMAIN taken : i \in DOMAIN taken' /\ taken'[i] = taken[i]
    BY <2>1, <2>2
  <2>4. LastPutter'
    BY <1>1, <1>2 DEF KInv, LastPutter, Keeps
  <2>5. LastIsKept'
    <3> SUFFICES ASSUME last # NUL
                 PROVE  \/ \E i \in DOMAIN taken' : Whole(taken'[i], text[last])
                        \/ \E c \in Ctrl \ {last} : Unfinished(c)' /\ TakenOf(c)'
      BY <1>1 DEF LastIsKept
    <3>1. CASE \E i \in DOMAIN taken : Whole(taken[i], text[last])
      BY <2>3, <3>1
    <3>2. CASE WholeIn(last)
      <4>1. last \in Ctrl
        BY <1>0 DEF TInv, TypeOK
      <4>2. IF pos[Gate] \in DOMAIN In THEN In[pos[Gate]] = NUL ELSE TRUE
        BY <1>0, <2>1 DEF GetIn, Reading, In
      <4>3. Whole(buf[Gate], text[last])
        BY <1>0, <3>2, <4>1, <4>2, ReadWhole
      <4> QED
        BY <2>3, <4>3
    <3>3. ASSUME NEW c \in Ctrl \ {last}, Unfinished(c), In[1] = c \/ TakenOf(c)
          PROVE  Unfinished(c)' /\ TakenOf(c)'
      <4>1. Unfinished(c)'
        BY <1>1, <3>3 DEF Unfinished
      <4>2. CASE TakenOf(c)
        BY <2>3, <4>1, <4>2 DEF TakenOf
      <4>3. CASE In[1] = c
        <5>1. Len(buf[Gate]) = pos[Gate] - 1 /\ 1 \in 1..pos[Gate] - 1
          BY <1>0, <2>1, <2>2 DEF PoppingInv
        <5>2. buf[Gate][1] = c
          BY <1>0, <4>3, <5>1 DEF PoppingInv
        <5> QED
          BY <2>3, <4>1, <5>2 DEF TakenOf
      <4> QED
        BY <3>3, <4>2, <4>3
    <3> QED
      BY <3>1, <3>2, <3>3 DEF KInv, LastIsKept
  <2> QED
    BY <2>4, <2>5 DEF KInv
<1> QED
  BY <1>3, <1>4

LEMMA KStepInv ==
    ASSUME ~ZeroId, Faults \subseteq {"kill_ctrl"}, BInv, CInv, OneStart, KInv, [Next]_vars
    PROVE  KInv'
<1> USE Names
<1>0. TInv /\ PcType /\ KeyType /\ CopyType
  BY Typed DEF BInv, TInv
<1>1. CASE GateShm
  <2>1. /\ starts = 0 /\ starts' = 1 /\ last' = NUL
        /\ \A c \in Ctrl : pc'[c] = pc[c]
    BY <1>0, <1>1 DEF GateShm, OneStart, GateUp, history, PcType, Go
  <2>2. \A c \in Ctrl : pc[c] \in {"off", "done"}
    BY <2>1, OneSegment
  <2>3. LastPutter' /\ LastIsKept'
    BY <2>1, <2>2, IdAssumption DEF LastPutter, LastIsKept, Putting, Inside
  <2> QED
    BY <2>3 DEF KInv
<1>2. CASE GateSem \/ GateSetVal \/ GateStart \/ PutOut
  <2>1. /\ UNCHANGED <<memIn, taken, last, starts, todo>>
        /\ \A c \in Ctrl : pc'[c] = pc[c] /\ pos'[c] = pos[c] /\ text'[c] = text[c] /\ shmAt'[c] = shmAt[c]
    BY <1>0, <1>2 DEF GateSem, GateSetVal, GateStart, Start, PutOut, kernel, attached, copying, memory,
                      history, PcType, CopyType, Go
  <2>2. \A c \in Ctrl : Keeps(c)
    BY <2>1, RestsKeeps DEF Rests
  <2> QED
    BY <1>0, <2>1, <2>2, KeepsLast DEF In
<1>3. CASE GetIn
  BY <1>3, GetInK
<1>4. ~GateRmSem /\ ~TermGate
  BY DEF GateRmSem, TermGate, OneStart, GateUp
<1>5. ASSUME NEW c \in Ctrl, CtrlShm(c) \/ CtrlSem(c) \/ CtrlStart(c) \/ GetOut(c) \/ End(c) \/ Lock(c) \/ Unlock(c)
      PROVE  KInv'
  <2>1. /\ UNCHANGED <<memIn, taken, last, starts, text>>
        /\ \A d \in Ctrl \ {c} : pc'[d] = pc[d] /\ pos'[d] = pos[d] /\ shmAt'[d] = shmAt[d] /\ todo'[d] = todo[d]
    BY <1>0, <1>5 DEF CtrlShm, CtrlSem, CtrlStart, Start, GetOut, Reading, End, Lock, Unlock, Forget, kernel,
                      attached, copying, memory, history, PcType, KeyType, CopyType, Go
  <2>2. \A d \in Ctrl \ {c} : Keeps(d)
    BY <2>1, RestsKeeps DEF Rests
  <2>3. Keeps(c)
    <3>1. CASE CtrlShm(c) \/ CtrlSem(c) \/ CtrlStart(c) \/ Lock(c)
      <4>1. /\ UNCHANGED <<todo, text>> /\ pc[c] \in {"off", "shm", "idle", "lock"}
            /\ pc'[c] \in {"done", "shm", "idle", "lock", "copy"}
        BY <1>0, <3>1 DEF CtrlShm, CtrlSem, CtrlStart, Start, Lock, copying, PcType, Go
      <4> QED
        BY <4>1 DEF Keeps, Unfinished
    <3>2. CASE GetOut(c)
      <4>1. UNCHANGED <<todo, text>> /\ pc[c] = "copy" /\ ~Unfinished(c)
        BY <3>2 DEF GetOut, Reading, Unfinished
      <4> QED
        BY <4>1 DEF Keeps, Unfinished, Putting
    <3>3. CASE End(c)
      <4>1. UNCHANGED <<todo, text>> /\ pc'[c] = "done"
        BY <1>0, <3>3 DEF End, Forget, PcType, Go
      <4> QED
        BY <4>1 DEF Keeps, Unfinished
    <3>4. CASE Unlock(c)
      <4>1. /\ text' = text /\ pc[c] = "unlock" /\ pc'[c] = "idle" /\ todo'[c] = Tail(todo[c])
            /\ todo[c] # << >>
        BY <1>0, <3>4 DEF Unlock, Forget, PcType, Go, TInv, CopyInv
      <4>2. ~Unfinished(c)'
        <5>1. Tail(todo[c]) = << >> \/ Head(Tail(todo[c])) = "get_out"
          BY <1>0, <4>1, Todo DEF PcType
        <5> QED
          BY <4>1, <5>1 DEF Unfinished
      <4>3. Unfinished(c) => last = c
        BY <4>1, OneSegment DEF KInv, LastPutter, Putting, Inside
      <4> QED
        BY <4>1, <4>2, <4>3 DEF Keeps
    <3> QED
      BY <1>5, <3>1, <3>2, <3>3, <3>4
  <2> QED
    BY <1>0, <2>1, <2>2, <2>3, KeepsLast DEF In
<1>6. ASSUME NEW c \in Ctrl, PutIn(c) PROVE KInv'
  BY <1>6, PutInK, CStepInv
<1>7. CASE Lock(Gate) \/ Unlock(Gate)
  <2>1. /\ UNCHANGED <<memIn, taken, last, starts, todo>>
        /\ \A c \in Ctrl : pc'[c] = pc[c] /\ pos'[c] = pos[c] /\ text'[c] = text[c] /\ shmAt'[c] = shmAt[c]
    BY <1>0, <1>7 DEF Lock, Unlock, Forget, kernel, attached, copying, memory, history, PcType, CopyType, Go
  <2>2. \A c \in Ctrl : Keeps(c)
    BY <2>1, RestsKeeps DEF Rests
  <2> QED
    BY <1>0, <2>1, <2>2, KeepsLast DEF In
<1>8. CASE UNCHANGED vars
  <2>1. UNCHANGED <<pc, pos, text, shmAt, todo, starts, memIn, taken, last>>
    BY <1>8 DEF vars, kernel, attached, copying, memory, history
  <2>2. \A c \in Ctrl : Keeps(c)
    BY <2>1, RestsKeeps DEF Rests
  <2> QED
    BY <1>0, <2>1, <2>2, KeepsLast DEF In
<1> QED
  BY <1>1, <1>2, <1>3, <1>4, <1>5, <1>6, <1>7, <1>8, StepsOfTheLiving

\* The cells of a text in an area.
LEMMA WholeCells ==
    ASSUME NEW area \in Area, NEW n \in 1..MaxLen, NEW id, \A i \in 1..n : area[i] = id
    PROVE  SubSeq(area, 1, n) = [i \in 1..n |-> id]
<1>1. area \in Seq(Cell) /\ Len(area) = MaxLen + 1 /\ MaxLen \in Nat
  BY DatabusAssumption DEF Area
<1>2. SubSeq(area, 1, n) = [i \in 1..n |-> area[i]]
  BY <1>1
<1> QED
  BY <1>2

\* The last command that was put is popped whole or is still there: popping clears
\* what was read under the same lock, and only another program tears it.
THEOREM LastCommandIsKept ==
    ASSUME ~ZeroId, Faults \subseteq {"kill_ctrl"}
    PROVE  Spec => []LastCommandKept
<1>1. BInv /\ [Next]_vars => BInv'
  BY BStepInv
<1>2. BInv /\ CInv /\ [Next]_vars => CInv'
  BY CStepInv
<1>3. BInv /\ OneStart /\ [Next]_vars => OneStart'
  BY OneStartStep
<1>4. BInv /\ CInv /\ OneStart /\ KInv /\ [Next]_vars => KInv'
  BY KStepInv
<1>5. Init => KInv
  BY Names, IdAssumption DEF Init, KInv, LastPutter, LastIsKept, Putting, Inside
<1>6. BInv /\ OneStart /\ KInv => LastCommandKept
  <2> SUFFICES ASSUME BInv, OneStart, KInv, last # NUL PROVE LastCommandKept
    BY DEF LastCommandKept
  <2>1. starts \in Gen /\ last \in Ctrl /\ memIn[starts] \in Area
    BY DatabusAssumption DEF OneStart, BInv, TInv, TypeOK, Gen
  <2>2. text[last].id = last /\ text[last].len \in 1..MaxLen
    BY <2>1 DEF BInv, TInv, CopyInv
  <2>3. WholeIn(last) => Whole(SubSeq(memIn[starts], 1, text[last].len), text[last])
    BY <2>1, <2>2, WholeCells DEF WholeIn, In, Whole
  <2> QED
    BY <2>1, <2>3 DEF KInv, LastIsKept, LastCommandKept, In, TakenOf
<1> QED
  BY BInitInv, CInitInv, OneStartInit, <1>1, <1>2, <1>3, <1>4, <1>5, <1>6, PTL DEF Spec

-----------------------------------------------------------------------------
(* The status *)

\* Where the gateway is in the half that it writes.
ShownInv ==
    IF pc[Gate] = "copy" /\ text[Gate] # NoText
    THEN \A i \in 1..pos[Gate] - 1 : Out[i] = text[Gate].id
    ELSE IF shown[starts] = NoText
         THEN \A i \in 1..MaxLen + 1 : Out[i] = NUL
         ELSE \A i \in 1..shown[starts].len : Out[i] = shown[starts].id

Getting(c) == Inside(c) /\ Head(todo[c]) = "get_out" /\ shmAt[c] = starts

\* How far a control program has come with the status.
GettingInv ==
    \A c \in Ctrl : Getting(c) =>
        /\ Len(buf[c]) = pos[c] - 1
        /\ \A i \in 1..pos[c] - 1 : Out[i] # NUL /\ buf[c][i] = Out[i]
        /\ pc[c] = "unlock" => pos[c] = MaxLen + 2 \/ Out[pos[c]] = NUL

SInv == GateUp => ShownInv /\ GettingInv

\* A program reads on or not at all, or it begins.
ReadsOn(c) ==
    Getting(c)' => \/ /\ Getting(c) /\ pos'[c] = pos[c] /\ buf'[c] = buf[c]
                      /\ pc'[c] = "unlock" => pc[c] = "unlock"
                   \/ pc'[c] = "copy" /\ pos'[c] = 1 /\ buf'[c] = << >>

LEMMA RestsReads ==
    ASSUME NEW c \in Ctrl, Rests(c), buf'[c] = buf[c], todo'[c] = todo[c], starts' = starts
    PROVE  ReadsOn(c)
BY DEF Rests, ReadsOn, Getting, Inside

LEMMA ReadsOnGetting ==
    ASSUME GettingInv, Out' = Out, \A c \in Ctrl : ReadsOn(c)
    PROVE  GettingInv'
<1> SUFFICES ASSUME NEW c \in Ctrl, Getting(c)'
             PROVE  /\ Len(buf'[c]) = pos'[c] - 1
                    /\ \A i \in 1..pos'[c] - 1 : Out'[i] # NUL /\ buf'[c][i] = Out'[i]
                    /\ pc'[c] = "unlock" => pos'[c] = MaxLen + 2 \/ Out'[pos'[c]] = NUL
  BY DEF GettingInv
<1>1. CASE Getting(c) /\ pos'[c] = pos[c] /\ buf'[c] = buf[c] /\ (pc'[c] = "unlock" => pc[c] = "unlock")
  BY <1>1 DEF GettingInv
<1>2. CASE pc'[c] = "copy" /\ pos'[c] = 1 /\ buf'[c] = << >>
  BY <1>2
<1> QED
  BY <1>1, <1>2 DEF ReadsOn

\* What the gateway writes is the whole status when the copy ends, and no program
\* reads meanwhile.
LEMMA PutOutS == ASSUME BInv, SInv, PutOut PROVE SInv'
<1> USE Names
<1>t. PcType /\ KeyType /\ CopyType /\ MemType /\ CopyAt(Gate) /\ TextAt(Gate) /\ AttachedInv
  BY Typed, CopyInvAt DEF BInv, TInv
<1>0. /\ pc[Gate] = "copy" /\ text[Gate] \in Status /\ text[Gate] # NoText /\ GateUp /\ shmAt[Gate] = starts
      /\ starts \in Gen
  BY <1>t DEF PutOut, GateUp, BInv, SegmentInv, KeyType, AttachedInv, TextAt, Gen
<1>1. /\ text[Gate].len \in 1..MaxLen /\ pos[Gate] \in 1..text[Gate].len /\ MaxLen \in Nat
      /\ text[Gate].id # NUL
  <2>1. text[Gate].len \in 1..MaxLen /\ text[Gate].id \in StatusId
    BY <1>0, DatabusAssumption DEF Status
  <2> QED
    BY <1>t, <1>0, <2>1, DatabusAssumption, IdAssumption DEF CopyAt, CopyType
<1> DEFINE id == text[Gate].id
<1>2. /\ UNCHANGED <<text, todo, shmAt, starts>>
      /\ \A c \in Ctrl : pc'[c] = pc[c]
      /\ pos'[Gate] = pos[Gate] + 1
  BY <1>t, <1>0 DEF PutOut, attached, kernel, PcType, CopyType, Go
<1>3. /\ Out'[pos[Gate]] = id
      /\ \A i \in 1..MaxLen + 1 : i # pos[Gate] => Out'[i] = Out[i]
  <2>1. memOut' = [memOut EXCEPT ![starts][pos[Gate]] = id] /\ starts' = starts /\ starts \in Gen
    BY <1>0, <1>2 DEF PutOut
  <2> HIDE DEF id
  <2>2. Out' = [Out EXCEPT ![pos[Gate]] = id] /\ DOMAIN Out = 1..MaxLen + 1
    BY <1>t, <2>1 DEF Out, MemType, Area
  <2> QED
    BY <1>1, <2>2
<1>4. \A i \in 1..pos[Gate] : Out'[i] = id
  <2>1. \A i \in 1..pos[Gate] - 1 : Out[i] = id
    BY <1>0 DEF SInv, ShownInv
  <2> QED
    BY <1>1, <1>3, <2>1
<1>5. ShownInv'
  <2>1. CASE pos[Gate] = text[Gate].len
    <3>1. pc'[Gate] = "unlock" /\ shown'[starts] = text[Gate]
      BY <1>t, <1>0, <2>1 DEF PutOut, PcType, MemType, Go
    <3> QED
      BY <1>0, <1>2, <1>4, <2>1, <3>1 DEF ShownInv
  <2>2. CASE pos[Gate] # text[Gate].len
    <3>1. pc'[Gate] = "copy" /\ pos'[Gate] - 1 = pos[Gate]
      BY <1>0, <1>1, <1>2, <2>2 DEF PutOut
    <3> QED
      BY <1>0, <1>2, <1>4, <3>1 DEF ShownInv
  <2> QED
    BY <2>1, <2>2
<1>6. GettingInv'
  <2>1. \A c \in Ctrl : ~Getting(c)
    BY <1>0, OneInside DEF Getting, Inside
  <2> QED
    BY <1>2, <2>1 DEF GettingInv, Getting, Inside
<1> QED
  BY <1>5, <1>6 DEF SInv

\* A program reads up to the first terminator.
LEMMA GetOutS == ASSUME BInv, SInv, NEW c \in Ctrl, GetOut(c) PROVE SInv'
<1> USE Names
<1>t. PcType /\ KeyType /\ CopyType /\ MemType
  BY Typed DEF BInv, TInv
<1>1. /\ UNCHANGED <<text, todo, shmAt, starts, memOut, shown>> /\ pc[c] = "copy" /\ Head(todo[c]) = "get_out"
      /\ \A q \in Proc \ {c} : pc'[q] = pc[q] /\ pos'[q] = pos[q] /\ buf'[q] = buf[q]
  BY <1>t DEF GetOut, Reading, attached, kernel, Go, PcType, CopyType
<1>2. GateUp' <=> GateUp
  BY <1>1 DEF GateUp
<1>3. ASSUME GateUp PROVE ShownInv' /\ GettingInv'
  <2>1. ShownInv'
    BY <1>1, <1>3 DEF SInv, ShownInv, Out
  <2>2. CASE shmAt[c] # starts
    <3>1. \A d \in Ctrl : ReadsOn(d)
      BY <1>1, <2>2, RestsReads DEF Rests, ReadsOn, Getting
    <3> QED
      BY <1>1, <1>3, <2>1, <3>1, ReadsOnGetting DEF SInv, Out
  <2>3. CASE shmAt[c] = starts
    <3> DEFINE cell == IF pos[c] \in DOMAIN Out THEN Out[pos[c]] ELSE NUL
    <3>0. Getting(c) /\ starts \in Gen
      BY <1>t, <1>1, <2>3 DEF Getting, Inside, BInv, TInv, AttachedInv, KeyType, Gen
    <3>1. Len(buf[c]) = pos[c] - 1 /\ \A i \in 1..pos[c] - 1 : Out[i] # NUL /\ buf[c][i] = Out[i]
      BY <1>3, <3>0 DEF SInv, GettingInv
    <3>2. /\ pos[c] \in 1..MaxLen + 2 /\ buf[c] \in Seq(Cell) /\ DOMAIN Out = 1..MaxLen + 1
          /\ MaxLen \in Nat
      BY <1>t, <3>0, DatabusAssumption DEF CopyType, MemType, Out, Area
    <3>3. CASE cell = NUL
      <4>1. pc'[c] = "unlock" /\ pos'[c] = pos[c] /\ buf'[c] = buf[c]
        BY <1>t, <2>3, <3>3 DEF GetOut, Reading, Out, Go, PcType
      <4>2. pos[c] = MaxLen + 2 \/ Out[pos[c]] = NUL
        BY <3>2, <3>3
      <4>3. \A d \in Ctrl \ {c} : ReadsOn(d)
        BY <1>1, RestsReads DEF Rests
      <4>4. Out' = Out
        BY <1>1 DEF Out
      <4> QED
        BY <1>3, <2>1, <3>1, <4>1, <4>2, <4>3, <4>4 DEF SInv, GettingInv, ReadsOn
    <3>4. CASE cell # NUL
      <4>1. pc' = pc /\ pos'[c] = pos[c] + 1 /\ buf'[c] = Append(buf[c], cell)
        <5>1. /\ buf' = [buf EXCEPT ![c] = Append(@, cell)]
              /\ pos' = [pos EXCEPT ![c] = @ + 1] /\ pc' = pc
          BY <2>3, <3>4 DEF GetOut, Reading, Out
        <5> HIDE DEF cell
        <5> QED
          BY <1>t, <5>1 DEF CopyType
      <4>2. cell = Out[pos[c]] /\ Out[pos[c]] # NUL
        BY <3>4
      <4> HIDE DEF cell
      <4>3. Len(buf'[c]) = pos'[c] - 1 /\ pos'[c] - 1 = pos[c]
        BY <3>1, <3>2, <4>1
      <4>4. \A i \in 1..pos[c] : Out[i] # NUL /\ buf'[c][i] = Out[i]
        BY <3>1, <3>2, <4>1, <4>2
      <4>5. \A d \in Ctrl \ {c} : ReadsOn(d)
        BY <1>1, RestsReads DEF Rests
      <4>6. Out' = Out /\ pc'[c] = "copy"
        BY <1>1, <4>1 DEF Out
      <4> QED
        BY <1>3, <2>1, <4>3, <4>4, <4>5, <4>6 DEF SInv, GettingInv, ReadsOn
    <3> QED
      BY <3>3, <3>4
  <2> QED
    BY <2>2, <2>3
<1> QED
  BY <1>2, <1>3 DEF SInv

\* The gateway is not in the middle of a status, or stays where it is.
LEMMA ReadsOnShown ==
    ASSUME SInv, UNCHANGED <<memOut, shown, starts>>, \A c \in Ctrl : ReadsOn(c),
           GateUp' =>
              /\ GateUp
              /\ \/ pc'[Gate] = pc[Gate] /\ text'[Gate] = text[Gate] /\ pos'[Gate] = pos[Gate]
                 \/ /\ ~(pc[Gate] = "copy" /\ text[Gate] # NoText)
                    /\ pc'[Gate] = "copy" => pos'[Gate] = 1 \/ text'[Gate] = NoText
    PROVE  SInv'
<1> SUFFICES ASSUME GateUp' PROVE ShownInv' /\ GettingInv'
  BY DEF SInv
<1>1. ShownInv'
  BY DEF SInv, ShownInv, Out
<1>2. GettingInv'
  BY ReadsOnGetting DEF SInv, Out
<1> QED
  BY <1>1, <1>2

LEMMA SStepInv ==
    ASSUME ~ZeroId, "kill_gate" \notin Faults, BInv, SInv, [Next]_vars
    PROVE  SInv'
<1> USE Names
<1>0. TInv /\ PcType /\ KeyType /\ CopyType
  BY Typed DEF BInv, TInv
<1>1. CASE GateShm
  <2>1. starts' = starts + 1 /\ starts + 1 \in Gen /\ starts \in Nat /\ starts + 1 > starts
    BY <1>0, <1>1, DatabusAssumption DEF GateShm, KeyType, Gen
  <2>2. /\ UNCHANGED <<memOut, shown>> /\ pc'[Gate] = "shm"
        /\ \A c \in Ctrl : pc'[c] = pc[c] /\ shmAt'[c] = shmAt[c]
    BY <1>0, <1>1 DEF GateShm, memory, history, PcType, KeyType, Go
  <2>3. ShownInv'
    <3>1. shown[starts + 1] = NoText /\ \A i \in 1..MaxLen + 1 : memOut[starts + 1][i] = NUL
      BY <2>1 DEF BInv, BlankInv
    <3> QED
      BY <2>1, <2>2, <3>1 DEF ShownInv, Out
  <2>4. GettingInv'
    <3>1. \A c \in Ctrl : shmAt[c] <= starts /\ shmAt[c] \in Int
      BY <1>0 DEF BInv, SegmentInv, KeyType
    <3>2. \A c \in Ctrl : ~Getting(c)'
      BY <2>1, <2>2, <3>1 DEF Getting
    <3> QED
      BY <3>2 DEF GettingInv
  <2> QED
    BY <2>3, <2>4 DEF SInv
<1>2. CASE GateSem \/ GateSetVal \/ GateStart \/ GetIn
  <2>1. /\ UNCHANGED <<memOut, shown, starts, todo>> /\ GateUp
        /\ \A c \in Ctrl : pc'[c] = pc[c] /\ pos'[c] = pos[c] /\ text'[c] = text[c] /\ shmAt'[c] = shmAt[c]
                           /\ buf'[c] = buf[c]
    BY <1>0, <1>2 DEF GateSem, GateSetVal, GateStart, Start, GetIn, Reading, kernel, attached, copying, memory,
                      history, PcType, CopyType, KeyType, Go, GateUp
  <2>2. \A c \in Ctrl : ReadsOn(c)
    BY <2>1, RestsReads DEF Rests
  <2>3. /\ ~(pc[Gate] = "copy" /\ text[Gate] # NoText)
        /\ pc'[Gate] = "copy" => pos'[Gate] = 1 \/ text'[Gate] = NoText
    BY <1>0, <1>2 DEF GateSem, GateSetVal, GateStart, Start, GetIn, Reading, PcType, Go
  <2> QED
    BY <2>1, <2>2, <2>3, ReadsOnShown
<1>3. CASE PutOut
  BY <1>3, PutOutS
<1>4. CASE GateRmSem \/ TermGate
  <2>1. pc'[Gate] \in {"off", "rmsem"}
    BY <1>0, <1>4 DEF GateRmSem, TermGate, PcType, Go
  <2> QED
    BY <2>1 DEF SInv, GateUp
<1>5. ASSUME NEW c \in Ctrl,
             CtrlShm(c) \/ CtrlSem(c) \/ CtrlStart(c) \/ PutIn(c) \/ End(c) \/ Lock(c) \/ Unlock(c)
      PROVE  SInv'
  <2>1. /\ UNCHANGED <<memOut, shown, starts, text>>
        /\ \A q \in Proc \ {c} : pc'[q] = pc[q] /\ pos'[q] = pos[q] /\ buf'[q] = buf[q] /\ shmAt'[q] = shmAt[q]
        /\ \A d \in Ctrl \ {c} : todo'[d] = todo[d]
    <3>1. CASE PutIn(c)
      <4>1. pos' = [pos EXCEPT ![c] = @ + 1] /\ UNCHANGED <<memOut, shown, starts, text, todo, buf, shmAt>>
        BY <3>1, Zenon DEF PutIn, kernel, attached
      <4>2. \A q \in Proc \ {c} : pc'[q] = pc[q]
        BY <1>0, <3>1 DEF PutIn, PcType, Go
      <4> QED
        BY <1>0, <4>1, <4>2 DEF CopyType
    <3> QED
      BY <1>0, <1>5, <3>1 DEF CtrlShm, CtrlSem, CtrlStart, Start, End, Lock, Unlock, Forget, kernel,
                              attached, copying, memory, history, PcType, KeyType, CopyType, Go
  <2>2. \A d \in Ctrl \ {c} : ReadsOn(d)
    BY <2>1, RestsReads DEF Rests
  <2>3. ReadsOn(c)
    <3>1. CASE CtrlShm(c) \/ CtrlSem(c) \/ CtrlStart(c) \/ End(c) \/ Unlock(c)
      <4>1. pc'[c] \in {"done", "shm", "idle", "lock"}
        BY <1>0, <3>1 DEF CtrlShm, CtrlSem, CtrlStart, Start, End, Unlock, PcType, Go
      <4> QED
        BY <4>1 DEF ReadsOn, Getting, Inside
    <3>2. CASE Lock(c)
      <4>1. pc'[c] = "copy" /\ pos'[c] = 1 /\ buf'[c] = << >>
        BY <1>0, <3>2 DEF Lock, copying, PcType, Go, TInv, CopyInv
      <4> QED
        BY <4>1 DEF ReadsOn
    <3>3. CASE PutIn(c)
      <4>1. Head(todo'[c]) = "put_in"
        BY <3>3 DEF PutIn
      <4> QED
        BY <4>1 DEF ReadsOn, Getting
    <3> QED
      BY <1>5, <3>1, <3>2, <3>3
  <2>4. pc'[Gate] = pc[Gate] /\ text'[Gate] = text[Gate] /\ pos'[Gate] = pos[Gate]
    BY <2>1
  <2> QED
    BY <2>1, <2>2, <2>3, <2>4, ReadsOnShown DEF GateUp
<1>6. ASSUME NEW c \in Ctrl, GetOut(c) PROVE SInv'
  BY <1>6, GetOutS
<1>7. CASE Lock(Gate) \/ Unlock(Gate)
  <2>1. /\ UNCHANGED <<memOut, shown, starts>> /\ GateUp
        /\ \A c \in Ctrl : pc'[c] = pc[c] /\ pos'[c] = pos[c] /\ text'[c] = text[c] /\ shmAt'[c] = shmAt[c]
                           /\ buf'[c] = buf[c] /\ todo'[c] = todo[c]
    BY <1>0, <1>7 DEF Lock, Unlock, Forget, kernel, attached, copying, memory, history, PcType, CopyType, Go, GateUp
  <2>2. \A c \in Ctrl : ReadsOn(c)
    BY <2>1, RestsReads DEF Rests
  <2>3. pc[Gate] # "copy" /\ (pc'[Gate] = "copy" => pos'[Gate] = 1)
    BY <1>0, <1>7 DEF Lock, Unlock, copying, PcType, Go, TInv, CopyInv
  <2> QED
    BY <2>1, <2>2, <2>3, ReadsOnShown
<1>8. CASE UNCHANGED vars
  <2>1. UNCHANGED <<pc, pos, text, buf, shmAt, todo, starts, memOut, shown>>
    BY <1>8 DEF vars, kernel, attached, copying, memory, history
  <2>2. \A c \in Ctrl : ReadsOn(c)
    BY <2>1, RestsReads DEF Rests
  <2> QED
    BY <2>1, <2>2, ReadsOnShown DEF GateUp
<1> QED
  BY <1>1, <1>2, <1>3, <1>4, <1>5, <1>6, <1>7, <1>8, StepsOfTheLiving

\* A control program prints the whole status that was put last: no status is written
\* while it reads, and what it reads does not end before the status does.
THEOREM StatusIsWhole ==
    ASSUME ~ZeroId, Faults \subseteq {"kill_ctrl"}
    PROVE  Spec => []StatusWhole
<1>1. BInv /\ [Next]_vars => BInv'
  BY BStepInv
<1>2. BInv /\ OneStart /\ [Next]_vars => OneStart'
  BY OneStartStep
<1>3. BInv /\ SInv /\ [Next]_vars => SInv'
  BY SStepInv
<1>4. Init => SInv
  BY Names DEF Init, SInv, GateUp
<1>5. BInv /\ OneStart /\ SInv => StatusWhole
  <2> USE Names
  <2> SUFFICES ASSUME BInv, OneStart, SInv,
                      NEW c \in Ctrl, pc[c] = "unlock", Head(todo[c]) = "get_out"
               PROVE  LET t == shown[shmAt[c]]
                      IN  IF t = NoText THEN buf[c] = << >>
                          ELSE Len(buf[c]) >= t.len /\ Whole(SubSeq(buf[c], 1, t.len), t)
    BY DEF StatusWhole
  <2>1. Getting(c) /\ Inside(c) /\ GateUp /\ shmAt[c] = starts /\ starts \in Gen
    <3>1. shmAt[c] = starts /\ starts = 1 /\ GateUp
      BY OneSegment
    <3> QED
      BY <3>1, DatabusAssumption DEF Getting, Inside, Gen
  <2>2. pc[Gate] # "copy"
    BY <2>1, OneInside DEF Inside, BInv, SegmentInv
  <2>3. /\ Len(buf[c]) = pos[c] - 1 /\ \A i \in 1..pos[c] - 1 : Out[i] # NUL /\ buf[c][i] = Out[i]
        /\ pos[c] = MaxLen + 2 \/ Out[pos[c]] = NUL
    BY <2>1 DEF SInv, GettingInv
  <2>4. buf[c] \in Seq(Cell) /\ pos[c] \in 1..MaxLen + 2 /\ MaxLen \in Nat \ {0}
    BY DatabusAssumption DEF BInv, TInv, TypeOK
  <2>5. CASE shown[starts] = NoText
    <3>1. \A i \in 1..MaxLen + 1 : Out[i] = NUL
      BY <2>1, <2>2, <2>5 DEF SInv, ShownInv
    <3>2. pos[c] = 1
      BY <2>3, <2>4, <3>1
    <3> QED
      BY <2>1, <2>3, <2>4, <2>5, <3>2
  <2>6. CASE shown[starts] # NoText
    <3> DEFINE t == shown[starts]
    <3>1. t \in Status
      BY <2>1, <2>6 DEF BInv, TInv, TypeOK
    <3>2. t.len \in 1..MaxLen /\ t.id # NUL
      BY <3>1, DatabusAssumption, IdAssumption DEF Status
    <3>3. \A i \in 1..t.len : Out[i] = t.id
      BY <2>1, <2>2, <2>6 DEF SInv, ShownInv
    <3> HIDE DEF t
    <3>4. pos[c] > t.len
      BY <2>3, <2>4, <3>2, <3>3
    <3>5. Len(buf[c]) >= t.len /\ \A i \in 1..t.len : buf[c][i] = t.id
      BY <2>3, <2>4, <3>2, <3>3, <3>4
    <3>6. SubSeq(buf[c], 1, t.len) = [i \in 1..t.len |-> buf[c][i]]
      BY <2>4, <3>2, <3>5
    <3>7. Whole(SubSeq(buf[c], 1, t.len), t)
      BY <3>5, <3>6 DEF Whole
    <3> QED
      BY <2>1, <2>6, <3>5, <3>7 DEF t
  <2> QED
    BY <2>5, <2>6
<1> QED
  BY BInitInv, OneStartInit, <1>1, <1>2, <1>3, <1>4, <1>5, PTL DEF Spec

-----------------------------------------------------------------------------
(* The mailbox *)

Letter == IF starts = 0 THEN NUL ELSE memIn[starts][1]
MayPuts == {c \in Ctrl : MayPut(c)}
Firsts == [i \in DOMAIN taken |-> taken[i][1]]

\* The mailbox's variables by their names here.
MailStep ==
    \/ UNCHANGED <<Letter, MayPuts, Firsts, starts>>
    \/ Letter # NUL /\ Firsts' = Append(Firsts, Letter) /\ Letter' = NUL /\ UNCHANGED <<MayPuts, starts>>
    \/ starts' = starts + 1 /\ Letter' = NUL /\ UNCHANGED <<MayPuts, Firsts>>
    \/ \E c \in MayPuts : /\ MayPuts' = MayPuts \ {c} /\ Letter' \in {Letter, c}
                          /\ UNCHANGED <<Firsts, starts>>

LEMMA MailStepIsNext == MailStep => [Mail!Next]_(Mail!vars)
<1> SUFFICES ASSUME MailStep PROVE Mail!Next \/ UNCHANGED Mail!vars
  OBVIOUS
<1>1. CASE UNCHANGED <<Letter, MayPuts, Firsts, starts>>
  BY <1>1 DEF Letter, MayPuts, Firsts, Mail!vars
<1>2. CASE Letter # NUL /\ Firsts' = Append(Firsts, Letter) /\ Letter' = NUL /\ UNCHANGED <<MayPuts, starts>>
  BY <1>2 DEF Letter, MayPuts, Firsts, Mail!Next, Mail!Pop
<1>3. CASE starts' = starts + 1 /\ Letter' = NUL /\ UNCHANGED <<MayPuts, Firsts>>
  BY <1>3 DEF Letter, MayPuts, Firsts, Mail!Next, Mail!StartGateway
<1>4. ASSUME NEW c \in MayPuts, MayPuts' = MayPuts \ {c}, Letter' \in {Letter, c}, UNCHANGED <<Firsts, starts>>
      PROVE  Mail!Next
  <2>1. c \in Ctrl
    BY DEF MayPuts
  <2>2. Mail!Put(c) \/ Mail!Leave(c)
    BY <1>4 DEF Letter, MayPuts, Firsts, Mail!Put, Mail!Leave
  <2> QED
    BY <2>1, <2>2 DEF Mail!Next
<1> QED
  BY <1>1, <1>2, <1>3, <1>4 DEF MailStep

Same(c) == pc'[c] = pc[c] /\ pos'[c] = pos[c] /\ todo'[c] = todo[c]

LEMMA SameMayPut == ASSUME NEW c \in Ctrl, Same(c) PROVE MayPut(c)' <=> MayPut(c)
BY DEF Same, MayPut, Unfinished, Inside

\* A step of one program that leaves the commands alone: it may cease to be one that
\* will put.
LEMMA QuietStep ==
    ASSUME UNCHANGED <<memIn, taken, starts>>, NEW c \in Ctrl,
           \A d \in Ctrl \ {c} : Same(d), MayPut(c)' => MayPut(c)
    PROVE  MailStep
<1>1. UNCHANGED <<Letter, Firsts, starts>>
  BY DEF Letter, Firsts
<1>2. \A d \in Ctrl \ {c} : MayPut(d)' <=> MayPut(d)
  BY SameMayPut
<1>3. MayPuts' = MayPuts \/ (c \in MayPuts /\ MayPuts' = MayPuts \ {c})
  BY <1>2 DEF MayPuts
<1> QED
  BY <1>1, <1>3 DEF MailStep

LEMMA QuietGateStep ==
    ASSUME UNCHANGED <<memIn, taken, starts>>, \A c \in Ctrl : Same(c)
    PROVE  MailStep
<1>1. UNCHANGED <<Letter, Firsts, starts>>
  BY DEF Letter, Firsts
<1>2. MayPuts' = MayPuts
  BY SameMayPut DEF MayPuts
<1> QED
  BY <1>1, <1>2 DEF MailStep

\* The first byte of a command replaces what lies in the segment of a running
\* gateway; the other bytes leave the first one alone.
LEMMA PutInMail == ASSUME BInv, NEW c \in Ctrl, PutIn(c) PROVE MailStep
<1> USE Names
<1> DEFINE end == pos[c] = text[c].len + 1
<1>t. PcType /\ KeyType /\ CopyType /\ MemType /\ AttachedInv /\ CopyAt(c) /\ TextAt(c)
  BY Typed, CopyInvAt DEF BInv, TInv
<1>p. pc[c] = "copy" /\ Head(todo[c]) = "put_in" /\ MaxLen \in Nat
  BY DatabusAssumption DEF PutIn
<1>q. todo[c] # << >> /\ text[c].len \in 1..MaxLen /\ pos[c] \in 1..text[c].len + 1
  BY <1>t, <1>p DEF CopyAt, TextAt, CopyType
<1>r. shmAt[c] \in Gen /\ starts \in Gen
  BY <1>t, <1>p DEF AttachedInv, KeyType, Gen, BInv, SegmentInv
<1>1. /\ memIn' = [memIn EXCEPT ![shmAt[c]][pos[c]] = IF end THEN NUL ELSE c]
      /\ pos' = [pos EXCEPT ![c] = @ + 1]
      /\ pc' = IF end THEN [pc EXCEPT ![c] = "unlock"] ELSE pc
      /\ UNCHANGED <<todo, starts, taken>>
  BY Zenon DEF PutIn, LastCell, Go, kernel
<1>2. /\ pc'[c] \in {"copy", "unlock"} /\ pos'[c] = pos[c] + 1
      /\ \A d \in Ctrl \ {c} : Same(d)
  <2>1. pc' = pc \/ pc' = [pc EXCEPT ![c] = "unlock"]
    BY <1>1
  <2>2. pc'[c] \in {"copy", "unlock"} /\ \A d \in Ctrl \ {c} : pc'[d] = pc[d]
    BY <1>t, <1>p, <2>1 DEF PcType
  <2>3. pos'[c] = pos[c] + 1 /\ \A d \in Ctrl \ {c} : pos'[d] = pos[d]
    BY <1>t, <1>1 DEF CopyType
  <2> QED
    BY <1>1, <2>2, <2>3 DEF Same
<1>3. UNCHANGED <<Firsts, starts>> /\ Letter = memIn[starts][1] /\ Letter' = memIn'[starts][1]
  BY <1>1, <1>r DEF Firsts, Letter, Gen
<1>4. Unfinished(c) /\ ~MayPut(c)' /\ (MayPut(c) <=> pos[c] = 1)
  BY <1>p, <1>q, <1>1, <1>2 DEF Unfinished, MayPut, Inside
<1>5. \A d \in Ctrl \ {c} : MayPut(d)' <=> MayPut(d)
  BY <1>2, SameMayPut
<1>6. CASE pos[c] = 1
  <2>1. ~end
    BY <1>q, <1>6
  <2>2. Letter' \in {Letter, c}
    <3>1. memIn' = [memIn EXCEPT ![shmAt[c]][1] = c]
      BY <1>1, <1>6, <2>1
    <3>2. memIn[starts] \in Area /\ 1 \in 1..MaxLen + 1
      BY <1>t, <1>p, <1>r DEF MemType
    <3> QED
      BY <1>t, <1>r, <1>3, <3>1, <3>2 DEF MemType, Area
  <2>3. c \in MayPuts /\ MayPuts' = MayPuts \ {c}
    BY <1>4, <1>5, <1>6 DEF MayPuts
  <2> QED
    BY <1>3, <2>2, <2>3 DEF MailStep
<1>7. CASE pos[c] # 1
  <2>1. Letter' = Letter
    BY <1>t, <1>r, <1>1, <1>3, <1>7 DEF MemType, Area
  <2>2. MayPuts' = MayPuts
    BY <1>4, <1>5, <1>7 DEF MayPuts
  <2> QED
    BY <1>3, <2>1, <2>2 DEF MailStep
<1> QED
  BY <1>6, <1>7

\* What the gateway read begins with what lies in its segment.
LEMMA GetInMail == ASSUME BInv, CInv, GetIn PROVE MailStep
<1> USE Names
<1>0. /\ GateUp /\ shmAt[Gate] = starts /\ starts \in Gen /\ pc[Gate] = "copy" /\ text[Gate] = NoText
      /\ TypeOK
  BY DEF GetIn, Reading, GateUp, BInv, SegmentInv, TInv, AttachedInv, TypeOK, Gen
<1>1. UNCHANGED <<todo, starts>> /\ \A c \in Ctrl : Same(c)
  BY <1>0 DEF GetIn, Reading, kernel, Go, TypeOK, Same
<1>2. CASE UNCHANGED <<taken, memIn>>
  BY <1>1, <1>2, QuietGateStep
<1>3. CASE /\ buf[Gate] # << >> /\ taken' = Append(taken, buf[Gate])
           /\ memIn' = [memIn EXCEPT ![shmAt[Gate]][1] = NUL]
  <2>1. Letter = In[1] /\ Letter' = NUL
    BY <1>0, <1>1, <1>3, DatabusAssumption DEF Letter, In, Gen, TypeOK, Area
  <2>2. buf[Gate][1] = Letter /\ Letter # NUL
    <3>1. buf[Gate] \in Seq(Cell) /\ Len(buf[Gate]) = pos[Gate] - 1 /\ pos[Gate] \in Nat
      BY <1>0 DEF CInv, PoppingInv, TypeOK
    <3>2. 1 \in 1..pos[Gate] - 1
      BY <1>3, <3>1
    <3> QED
      BY <1>0, <2>1, <3>2 DEF CInv, PoppingInv
  <2>3. Firsts' = Append(Firsts, Letter)
    <3>1. taken \in Seq(Seq(Cell)) /\ buf[Gate] \in Seq(Cell)
      BY <1>0 DEF TypeOK
    <3>2. /\ DOMAIN taken = 1..Len(taken) /\ Len(taken) \in Nat /\ DOMAIN taken' = 1..Len(taken) + 1
          /\ taken'[Len(taken) + 1] = buf[Gate] /\ \A i \in 1..Len(taken) : taken'[i] = taken[i]
      BY <1>3, <3>1
    <3> DEFINE f == [i \in 1..Len(taken) |-> taken[i][1]]
    <3>3. Firsts = f /\ Firsts' = [i \in 1..Len(taken) + 1 |-> IF i = Len(taken) + 1 THEN Letter ELSE f[i]]
      BY <2>2, <3>2 DEF Firsts
    <3> DEFINE S == {f[i] : i \in 1..Len(taken)} \cup {Letter}
    <3>4. Firsts \in Seq(S) /\ Len(Firsts) = Len(taken) /\ Letter \in S
      BY <3>2, <3>3
    <3>5. Firsts' \in Seq(S) /\ Len(Firsts') = Len(taken) + 1
      BY <3>2, <3>3
    <3>6. Firsts'[Len(taken) + 1] = Letter /\ \A i \in 1..Len(taken) : Firsts'[i] = Firsts[i]
      BY <3>2, <3>3
    <3> HIDE DEF S
    <3> QED
      BY <3>2, <3>4, <3>5, <3>6, AppendProperties, SeqEqual
  <2>4. MayPuts' = MayPuts
    BY <1>1, SameMayPut DEF MayPuts
  <2> QED
    BY <1>1, <2>1, <2>2, <2>3, <2>4 DEF MailStep
<1> QED
  BY <1>2, <1>3 DEF GetIn

LEMMA StepIsMailStep ==
    ASSUME "kill_gate" \notin Faults, BInv, CInv, [Next]_vars
    PROVE  MailStep
<1> USE Names
<1>0. TInv /\ PcType /\ KeyType /\ CopyType
  BY Typed DEF BInv, TInv
<1>1. CASE GateShm
  <2>1. starts' = starts + 1 /\ UNCHANGED <<memIn, taken, todo>> /\ \A c \in Ctrl : Same(c)
    BY <1>0, <1>1 DEF GateShm, copying, memory, history, PcType, Go, Same
  <2>2. starts' \in Gen /\ starts' > starts /\ starts' # 0
    BY <1>0, <1>1, DatabusAssumption DEF GateShm, KeyType, Gen
  <2>3. Letter' = NUL
    BY <2>1, <2>2, DatabusAssumption DEF Letter, BInv, BlankInv
  <2>4. UNCHANGED <<Firsts, MayPuts>>
    BY <2>1, SameMayPut DEF Firsts, MayPuts
  <2> QED
    BY <2>1, <2>3, <2>4 DEF MailStep
<1>2. CASE GetIn
  BY <1>2, GetInMail
<1>3. ASSUME NEW c \in Ctrl, PutIn(c) PROVE MailStep
  BY <1>3, PutInMail DEF BInv
<1>4. CASE GateSem \/ GateSetVal \/ GateStart \/ PutOut \/ GateRmSem \/ TermGate \/ UNCHANGED vars
          \/ Lock(Gate) \/ Unlock(Gate)
  <2>1. UNCHANGED <<memIn, taken, starts, todo>>
    BY <1>4 DEF GateSem, GateSetVal, GateStart, Start, PutOut, GateRmSem, TermGate, vars, Lock, Unlock,
       kernel, memory, history
  <2>2. \A c \in Ctrl : pc'[c] = pc[c] /\ pos'[c] = pos[c]
    BY <1>0, <1>4 DEF GateSem, GateSetVal, GateStart, Start, PutOut, GateRmSem, TermGate, vars, Lock,
       Unlock, Forget, Go, copying, PcType, CopyType
  <2> QED
    BY <2>1, <2>2, QuietGateStep DEF Same
<1>5. ASSUME NEW c \in Ctrl, CtrlShm(c) \/ CtrlSem(c) \/ CtrlStart(c) \/ GetOut(c) \/ Lock(c) \/ Unlock(c) \/ End(c)
      PROVE  MailStep
  <2>1. UNCHANGED <<memIn, taken, starts>>
    BY <1>5 DEF CtrlShm, CtrlSem, CtrlStart, Start, GetOut, Reading, Lock, Unlock, End, kernel, memory, history
  <2>2. \A d \in Ctrl \ {c} : Same(d)
    BY <1>0, <1>5 DEF CtrlShm, CtrlSem, CtrlStart, Start, GetOut, Reading, Lock, Unlock, End, Forget, Go,
       copying, PcType, CopyType, Same
  <2>3. MayPut(c)' => MayPut(c)
    <3>1. CASE CtrlShm(c) \/ CtrlSem(c) \/ CtrlStart(c) \/ Lock(c)
      <4>1. todo' = todo /\ pc[c] \in {"off", "shm", "idle", "lock"}
        BY <3>1 DEF CtrlShm, CtrlSem, CtrlStart, Start, Lock
      <4> QED
        BY <4>1 DEF MayPut, Unfinished, Inside
    <3>2. CASE GetOut(c)
      BY <3>2 DEF GetOut, Reading, MayPut, Unfinished
    <3>3. CASE Unlock(c)
      <4>1. todo'[c] = Tail(todo[c]) /\ todo[c] # << >>
            /\ todo[c] \in {<<"put_in", "get_out">>, <<"get_out">>, << >>}
        BY <1>0, <3>3 DEF Unlock, TInv, CopyInv, PcType
      <4>2. Tail(todo[c]) = << >> \/ Head(Tail(todo[c])) = "get_out"
        BY <4>1, Todo
      <4> QED
        BY <4>1, <4>2 DEF MayPut, Unfinished
    <3>4. CASE End(c)
      BY <1>0, <3>4 DEF End, Go, PcType, MayPut
    <3> QED
      BY <1>5, <3>1, <3>2, <3>3, <3>4
  <2> QED
    BY <2>1, <2>2, <2>3, QuietStep
<1> QED
  BY <1>1, <1>2, <1>3, <1>4, <1>5, StepsOfTheLiving

LEMMA MailInit == Init => Mail!Init
<1> SUFFICES ASSUME Init PROVE Mail!Init
  OBVIOUS
<1>1. [i \in DOMAIN taken |-> taken[i][1]] = << >>
  BY DEF Init
<1> QED
  BY <1>1 DEF Init, Mail!Init

\* Copied byte by byte, by control programs that are killed in the middle and around
\* gateways that are terminated and started again, the memory implements the mailbox:
\* what is popped is what was put last, once, and nothing else takes it away but the
\* start of a gateway.
THEOREM DatabusIsMailbox ==
    ASSUME ~ZeroId, "kill_gate" \notin Faults
    PROVE  Spec => IsMailbox
<1>1. BInv /\ [Next]_vars => BInv'
  BY BStepInv
<1>2. BInv /\ CInv /\ [Next]_vars => CInv'
  BY CStepInv
<1>3. BInv /\ CInv /\ [Next]_vars => [Mail!Next]_(Mail!vars)
  BY StepIsMailStep, MailStepIsNext
<1> QED
  BY BInitInv, CInitInv, MailInit, <1>1, <1>2, <1>3, PTL DEF Spec, IsMailbox, Mail!Spec
=============================================================================
