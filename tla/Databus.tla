------------------------------ MODULE Databus -------------------------------
(***************************************************************************)
(* The shared memory of src/iracc/databus.c between the gateway program,   *)
(* its master, and the control programs, which come and go: each of those  *)
(* may put a command in and then gets the status out.  One System V        *)
(* semaphore, taken with SEM_UNDO, protects both halves of the memory.     *)
(*                                                                         *)
(* The kernel's side is modelled after semop(2) and semctl(2): SETVAL      *)
(* clears the undo values of all processes, an operation on a removed      *)
(* semaphore fails, and a segment that is removed lives on for those who   *)
(* are attached to it.                                                     *)
(***************************************************************************)
EXTENDS Integers, Sequences

CONSTANTS
    Ctrl,       \* the runs of the control program
    StatusId,   \* what tells apart the status texts of the gateway
    MaxLen,     \* bound: cells of a text
    StatusLen,  \* the lengths that a status text may have
    MaxStarts,  \* bound: starts of the gateway
    ZeroId,     \* TRUE: the first identifiers that the kernel gives out are 0
    Faults      \* "kill_ctrl", "kill_gate" and "term_gate"

ASSUME DatabusAssumption ==
    /\ MaxLen \in Nat \ {0} /\ MaxStarts \in Nat \ {0}
    /\ StatusLen \subseteq 1..MaxLen
    /\ ZeroId \in BOOLEAN
    /\ Faults \subseteq {"kill_ctrl", "kill_gate", "term_gate"}

Gate == "gate"
ASSUME GateAssumption == Gate \notin Ctrl

Proc == Ctrl \cup {Gate}
NUL == "nul"
\* No byte of a text is the terminator.
ASSUME IdAssumption == NUL \notin Ctrl \cup StatusId

Cell == Ctrl \cup StatusId \cup {NUL}

\* A text fills its cells with its id, a command with the program that puts it.
Text == [id : Ctrl \cup StatusId, len : 1..MaxLen]
Status == [id : StatusId, len : StatusLen]
NoText == [id |-> NUL, len |-> 0]
Area == [1..MaxLen + 1 -> Cell]

Gen == 1..MaxStarts
Removed == -1

VARIABLES
    pc,       \* where each process is
    todo,     \* the operations of a control program, the current one first
    shmAt,    \* databus.shmId: the generation of the segment, 0 for none
    semAt,    \* databus.semId
    adj,      \* the undo value that the kernel keeps for the process
    text,     \* what a process puts; the gateway gets when it has no text
    buf,      \* what a process got so far
    pos,      \* the cell that is copied next
    shmKey,   \* the segment that the key leads to, 0 for none
    semKey,   \* the semaphore that the key leads to
    semval,   \* the value of each semaphore
    memIn, memOut,
    starts,   \* starts of the gateway so far
    taken,    \* the texts that the gateway popped
    last,     \* the control program whose command was put last
    shown     \* the status that was put last into each segment

attached == <<shmAt, semAt>>
copying  == <<text, buf, pos>>
kernel   == <<shmKey, semKey, starts>>
memory   == <<memIn, memOut>>
history  == <<taken, last, shown>>
vars == <<pc, todo, attached, adj, copying, kernel, semval, memory, history>>

Init ==
    /\ pc = [p \in Proc |-> "off"]
    /\ todo \in [Ctrl -> {<<"put_in", "get_out">>, <<"get_out">>}]
    /\ shmAt = [p \in Proc |-> 0] /\ semAt = [p \in Proc |-> 0]
    /\ adj = [p \in Proc |-> 0]
    /\ \E n \in [Ctrl -> 1..MaxLen] :
          text = [p \in Proc |-> IF p = Gate THEN NoText ELSE [id |-> p, len |-> n[p]]]
    /\ buf = [p \in Proc |-> << >>] /\ pos = [p \in Proc |-> 1]
    /\ shmKey = 0 /\ semKey = 0
    /\ semval = [g \in Gen |-> 0]
    /\ memIn = [g \in Gen |-> [i \in 1..MaxLen + 1 |-> NUL]]
    /\ memOut = memIn
    /\ starts = 0 /\ taken = << >> /\ last = NUL
    /\ shown = [g \in Gen |-> NoText]

Go(p, to) == pc' = [pc EXCEPT ![p] = to]

\* The locals of an operation go with it.
Forget(p) ==
    /\ buf' = [buf EXCEPT ![p] = << >>]
    /\ pos' = [pos EXCEPT ![p] = 1]
    /\ text' = IF p = Gate THEN [text EXCEPT ![Gate] = NoText] ELSE text

-----------------------------------------------------------------------------
(* databus_init *)

\* The identifiers are tested as if 0 meant none, which is a valid one.
Usable(g) == ~(ZeroId /\ g = 1)

\* A segment comes zeroed.
GateShm ==
    /\ pc[Gate] = "off" /\ starts < MaxStarts
    /\ starts' = starts + 1
    /\ shmKey' = IF shmKey = 0 THEN starts' ELSE shmKey
    /\ shmAt' = [shmAt EXCEPT ![Gate] = shmKey']
    /\ Go(Gate, "shm")
    /\ UNCHANGED <<todo, semAt, adj, copying, semKey, semval, memory, history>>

GateSem ==
    /\ pc[Gate] = "shm"
    /\ semKey' = IF semKey = 0 THEN starts ELSE semKey
    /\ semAt' = [semAt EXCEPT ![Gate] = semKey']
    /\ Go(Gate, "sem")
    /\ UNCHANGED <<todo, shmAt, adj, copying, shmKey, starts, semval, memory, history>>

\* Also when the semaphore was there already, and in use.
GateSetVal ==
    /\ pc[Gate] = "sem"
    /\ semval' = [semval EXCEPT ![semAt[Gate]] = 1]
    /\ adj' = [p \in Proc |-> IF semAt[p] = semAt[Gate] THEN 0 ELSE adj[p]]
    /\ Go(Gate, "idle")
    /\ UNCHANGED <<todo, attached, copying, kernel, memory, history>>

\* A control program exits when there is nothing to attach to.
CtrlShm(c) ==
    /\ pc[c] = "off"
    /\ shmAt' = [shmAt EXCEPT ![c] = shmKey]
    /\ Go(c, IF shmKey = 0 THEN "done" ELSE "shm")
    /\ UNCHANGED <<todo, semAt, adj, copying, kernel, semval, memory, history>>

CtrlSem(c) ==
    /\ pc[c] = "shm"
    /\ semAt' = [semAt EXCEPT ![c] = semKey]
    /\ Go(c, IF semKey = 0 THEN "done" ELSE "idle")
    /\ UNCHANGED <<todo, shmAt, adj, copying, kernel, semval, memory, history>>

-----------------------------------------------------------------------------
(* The operations *)

Start(p) ==
    /\ pc[p] = "idle"
    /\ Go(p, "lock")
    /\ UNCHANGED <<todo, attached, adj, buf, pos, kernel, semval, memory, history>>

\* The write task pops a command, the read task puts the status.
GateStart ==
    /\ Start(Gate)
    /\ \E t \in {NoText} \cup Status : text' = [text EXCEPT ![Gate] = t]

CtrlStart(c) ==
    /\ Start(c)
    /\ todo[c] # << >>
    /\ UNCHANGED text

\* Mutant: the semaphore is ignored.
Lock_Skipped(p) ==
    /\ pc[p] = "lock"
    /\ Go(p, "copy")
    /\ UNCHANGED <<todo, attached, adj, copying, kernel, semval, memory, history>>

\* _databus_sem_op(-1): waits, unless the semaphore is gone or not used at all.
Lock(p) ==
    /\ pc[p] = "lock"
    /\ \/ /\ Usable(semAt[p]) /\ semval[semAt[p]] > 0
          /\ semval' = [semval EXCEPT ![semAt[p]] = @ - 1]
          /\ adj' = [adj EXCEPT ![p] = @ + 1]
       \/ /\ ~Usable(semAt[p]) \/ semval[semAt[p]] = Removed
          /\ UNCHANGED <<semval, adj>>
    /\ Go(p, "copy")
    /\ UNCHANGED <<todo, attached, copying, kernel, memory, history>>

\* Mutant: a byte too many.
LastCell_OffByOne(c) == pos[c] = text[c].len + 2

LastCell(c) == pos[c] = text[c].len + 1

\* databus_put_in copies the command with its terminator.
PutIn(c) ==
    /\ pc[c] = "copy" /\ Head(todo[c]) = "put_in"
    /\ LET end == LastCell(c)
       IN  /\ memIn' = [memIn EXCEPT ![shmAt[c]][pos[c]] = IF end THEN NUL ELSE c]
           /\ IF end THEN Go(c, "unlock") /\ last' = c
                     ELSE UNCHANGED <<pc, last>>
    /\ pos' = [pos EXCEPT ![c] = @ + 1]
    /\ UNCHANGED <<todo, attached, adj, text, buf, kernel, semval, memOut, taken, shown>>

\* databus_put_out copies the status without one.
PutOut ==
    /\ pc[Gate] = "copy" /\ text[Gate] # NoText
    /\ memOut' = [memOut EXCEPT ![shmAt[Gate]][pos[Gate]] = text[Gate].id]
    /\ IF pos[Gate] = text[Gate].len
         THEN Go(Gate, "unlock") /\ shown' = [shown EXCEPT ![shmAt[Gate]] = text[Gate]]
         ELSE UNCHANGED <<pc, shown>>
    /\ pos' = [pos EXCEPT ![Gate] = @ + 1]
    /\ UNCHANGED <<todo, attached, adj, text, buf, kernel, semval, memIn, taken, last>>

\* Both texts are read as strings, up to the terminator.
Reading(p, area) ==
    /\ pc[p] = "copy"
    /\ LET cell == IF pos[p] \in DOMAIN area THEN area[pos[p]] ELSE NUL
       IN  IF cell = NUL THEN Go(p, "unlock") /\ UNCHANGED <<buf, pos>>
           ELSE /\ buf' = [buf EXCEPT ![p] = Append(@, cell)]
                /\ pos' = [pos EXCEPT ![p] = @ + 1]
                /\ UNCHANGED pc
    /\ UNCHANGED <<todo, attached, adj, text, kernel, semval, memOut, last, shown>>

\* databus_get_in: a command that was read is popped by clearing its first byte.  The
\* gateway holds the lock from the terminator to the clearing, and a signal that
\* ends it between the two leaves what one before the terminator does.
GetIn ==
    /\ text[Gate] = NoText
    /\ Reading(Gate, memIn[shmAt[Gate]])
    /\ IF pc' # pc /\ buf[Gate] # << >>
         THEN /\ taken' = Append(taken, buf[Gate])
              /\ memIn' = [memIn EXCEPT ![shmAt[Gate]][1] = NUL]
         ELSE UNCHANGED <<taken, memIn>>

GetOut(c) ==
    /\ pc[c] = "copy" /\ Head(todo[c]) = "get_out"
    /\ Reading(c, memOut[shmAt[c]])
    /\ UNCHANGED <<taken, memIn>>

\* _databus_sem_op(1)
Unlock(p) ==
    /\ pc[p] = "unlock"
    /\ IF Usable(semAt[p]) /\ semval[semAt[p]] # Removed
         THEN /\ semval' = [semval EXCEPT ![semAt[p]] = @ + 1]
              /\ adj' = [adj EXCEPT ![p] = @ - 1]
         ELSE UNCHANGED <<semval, adj>>
    /\ todo' = IF p = Gate THEN todo ELSE [todo EXCEPT ![p] = Tail(@)]
    /\ Forget(p)
    /\ Go(p, "idle")
    /\ UNCHANGED <<attached, kernel, memory, history>>

-----------------------------------------------------------------------------
(* Ends of processes *)

\* Mutant: without SEM_UNDO.
Undone_Nothing(p) == semval

\* What SEM_UNDO leaves when a process ends, never less than 0.
Undone(p) ==
    [g \in Gen |-> IF g = semAt[p] /\ semval[g] # Removed
                     THEN IF semval[g] + adj[p] < 0 THEN 0 ELSE semval[g] + adj[p]
                     ELSE semval[g]]

End(p) ==
    /\ semval' = Undone(p)
    /\ adj' = [adj EXCEPT ![p] = 0]
    /\ shmAt' = [shmAt EXCEPT ![p] = 0] /\ semAt' = [semAt EXCEPT ![p] = 0]
    /\ Forget(p)
    /\ Go(p, IF p = Gate THEN "off" ELSE "done")
    /\ UNCHANGED <<todo, kernel, memory, history>>

Exit(c) == pc[c] = "idle" /\ todo[c] = << >> /\ End(c)

Kill(p) ==
    /\ pc[p] \notin {"off", "done"}
    /\ (IF p = Gate THEN "kill_gate" ELSE "kill_ctrl") \in Faults
    /\ End(p)

\* signal_handler may run anywhere once it is registered, which is after the shared
\* memory is set up: databus_shutdown removes the segment ...
TermGate ==
    /\ "term_gate" \in Faults
    /\ pc[Gate] \in {"idle", "lock", "copy", "unlock"}
    /\ shmKey' = IF Usable(shmAt[Gate]) THEN 0 ELSE shmKey
    /\ Go(Gate, "rmsem")
    /\ UNCHANGED <<todo, attached, adj, copying, semKey, semval, starts, memory, history>>

\* Mutant: the semaphore is left to the next gateway.
ReleasesSemaphore_Never == FALSE

ReleasesSemaphore == Usable(semAt[Gate])

\* ... and the semaphore, then the process exits.
GateRmSem ==
    /\ pc[Gate] = "rmsem"
    /\ IF ReleasesSemaphore
         THEN /\ semKey' = 0
              /\ semval' = [semval EXCEPT ![semAt[Gate]] = Removed]
         ELSE /\ UNCHANGED semKey
              /\ semval' = Undone(Gate)
    /\ adj' = [adj EXCEPT ![Gate] = 0]
    /\ shmAt' = [shmAt EXCEPT ![Gate] = 0] /\ semAt' = [semAt EXCEPT ![Gate] = 0]
    /\ Forget(Gate)
    /\ Go(Gate, "off")
    /\ UNCHANGED <<todo, shmKey, starts, memory, history>>

GateStep == GateShm \/ GateSem \/ GateSetVal \/ GateStart \/ PutOut \/ GetIn
            \/ Unlock(Gate) \/ GateRmSem

CtrlStep(c) == CtrlShm(c) \/ CtrlSem(c) \/ CtrlStart(c) \/ PutIn(c) \/ GetOut(c)
               \/ Unlock(c) \/ Exit(c)

Next == \/ GateStep \/ TermGate
        \/ \E c \in Ctrl : CtrlStep(c)
        \/ \E p \in Proc : Lock(p) \/ Kill(p)

Spec == Init /\ [][Next]_vars

\* Processes keep running, and semop serves those who wait in their order.
FairSpec == /\ Spec
            /\ WF_vars(GateStep)
            /\ \A c \in Ctrl : WF_vars(CtrlStep(c))
            /\ \A p \in Proc : SF_vars(Lock(p))

-----------------------------------------------------------------------------
(* Properties *)

TypeOK ==
    /\ pc \in [Proc -> {"off", "shm", "sem", "idle", "lock", "copy", "unlock", "rmsem", "done"}]
    /\ todo \in [Ctrl -> {<<"put_in", "get_out">>, <<"get_out">>, << >>}]
    /\ shmAt \in [Proc -> 0..MaxStarts] /\ semAt \in [Proc -> 0..MaxStarts]
    /\ adj \in [Proc -> Int]
    /\ text \in [Proc -> Text \cup {NoText}]
    /\ buf \in [Proc -> Seq(Cell)]
    /\ pos \in [Proc -> 1..MaxLen + 2]
    /\ shmKey \in 0..MaxStarts /\ semKey \in 0..MaxStarts /\ starts \in 0..MaxStarts
    /\ semval \in [Gen -> Nat \cup {Removed}]
    /\ memIn \in [Gen -> Area] /\ memOut \in [Gen -> Area]
    /\ taken \in Seq(Seq(Cell)) /\ last \in Ctrl \cup {NUL}
    /\ shown \in [Gen -> Status \cup {NoText}]

Inside(p) == pc[p] \in {"copy", "unlock"}

\* Two processes are never inside the lock of one semaphore, whoever is killed
\* there, and however often a gateway is terminated and started again.
MutualExclusion ==
    \A p, q \in Proc : p # q /\ Inside(p) /\ Inside(q) /\ semAt[p] = semAt[q]
                          => semval[semAt[p]] = Removed

Whole(cells, t) == cells = [i \in 1..t.len |-> t.id]

\* Its command was not put yet, or it was killed before it was.
Unfinished(c) == todo[c] # << >> /\ Head(todo[c]) = "put_in"

\* The gateway pops the commands as they were put, each at most once, although a
\* command may replace another one that was not popped yet.  Only a control
\* program that is killed in the middle leaves a torn command.
CommandsWhole ==
    /\ \A i \in DOMAIN taken : \E c \in Ctrl :
          /\ taken[i][1] = c
          /\ Whole(taken[i], text[c]) \/ (pc[c] = "done" /\ Unfinished(c))
    /\ \A i, j \in DOMAIN taken : taken[i][1] = taken[j][1] => i = j

\* Popping never clears a command that was put after the popped one was read: the
\* last command is popped or still there, unless another program began to replace
\* it.
LastCommandKept ==
    last # NUL =>
        \/ \E i \in DOMAIN taken : Whole(taken[i], text[last])
        \/ \E g \in Gen : Whole(SubSeq(memIn[g], 1, text[last].len), text[last])
        \/ \E c \in Ctrl \ {last} : /\ Unfinished(c)
                                    /\ \/ \E g \in Gen : memIn[g][1] = c
                                       \/ \E i \in DOMAIN taken : taken[i][1] = c

\* What a control program reads (databus_get_out) begins with the whole status that was
\* put last.  A status has no terminator: the end of an older, longer one may follow
\* it (databus.c:186).  Of what it read it prints 128 bytes (iracc_ctrl.c:109).
StatusWhole ==
    \A c \in Ctrl : pc[c] = "unlock" /\ Head(todo[c]) = "get_out"
        => LET t == shown[shmAt[c]]
           IN  IF t = NoText THEN buf[c] = << >>
               ELSE Len(buf[c]) >= t.len /\ Whole(SubSeq(buf[c], 1, t.len), t)

\* A control program whose first byte was not written yet, by which it replaces what
\* lies there.
MayPut(c) ==
    Unfinished(c) /\ pc[c] # "done" /\ ~(Inside(c) /\ pos[c] > 1)

Mail == INSTANCE Mailbox WITH
    Sender <- Ctrl, NONE <- NUL,
    mail <- IF starts = 0 THEN NUL ELSE memIn[starts][1],
    senders <- {c \in Ctrl : MayPut(c)},
    popped <- [i \in DOMAIN taken |-> taken[i][1]]

\* Copied byte by byte, by programs that may die in the middle and around gateways that
\* are terminated and started again, the memory is a place for one command: what is
\* popped is what was put last, once, and nothing else takes it away but the start of
\* a gateway.
IsMailbox == Mail!Spec

\* A control program that started ends, also when the gateway is terminated or a
\* process inside the lock is killed.
CtrlEnds == \A c \in Ctrl : pc[c] # "off" ~> pc[c] = "done"

\* databus.c:250 "increase to 1 to unlock".
UnlockedIsOne == \A g \in Gen : semval[g] <= 1

\* databus.c:247 "decrease to 0 to lock".
LockedIsZero ==
    \A p \in Proc : Inside(p) => semval[semAt[p]] \in {0, Removed}
=============================================================================
