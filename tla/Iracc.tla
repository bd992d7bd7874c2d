------------------------------- MODULE Iracc --------------------------------
(***************************************************************************)
(* The gateway program of src/iracc/iracc.c on top of the Modbus master:   *)
(* opening and initialising the port, the task that polls the status of    *)
(* the internal units, the task that writes the commands that the control  *)
(* program left in the shared memory, and receiveCallback.                 *)
(*                                                                         *)
(* The tasks run in the "tasks" part of the main loop of Modbus.tla.  All  *)
(* the times are kept as ages in seconds that stop growing once they       *)
(* exceed what they are compared with.                                     *)
(***************************************************************************)
EXTENDS Modbus

CONSTANTS
    MaxUnit,           \* largest unit id, connectedUnitStatus has MaxUnit + 1 slots (63)
    UnitLists,         \* the lists of connected units that the gateway may report
    GatewayFaults,     \* "open_fails" and "negative"
    MaxErr,            \* MAX_IO_ERROR_COUNT (10)
    ReopenWait,        \* seconds before the port is opened again (10)
    ReadInterval,      \* readIntervalSeconds (8)
    ReadWaitTimeout,   \* readWaitTimeoutSeconds (1)
    WriteWaitTimeout,  \* writeWaitTimeoutSeconds (1)
    CmdCap,            \* size of writeCommands (64)
    Batches            \* the texts that the control program writes

\* A text: the units of its well-formed lines, in order, and whether its last
\* line is one of them.
Batch == [good : Seq(0..MaxUnit), lastGood : BOOLEAN]
NoBatch == [good |-> << >>, lastGood |-> FALSE]

REG_GW_STATUS == 0
REG_IU_CONNECTION == 1
REG_START == 2000    \* 0x07D0, of the status and of the preset registers

STATUS_REG(u) == REG_START + 6 * u
PRESET_REG(u) == REG_START + 3 * u
UNIT_ID(reg) == ((reg - REG_START) \div 6) % 256
WRITE_UNIT_ID(reg) == ((reg - REG_START) \div 3) % 256

Units == 0..MaxUnit

IraccRegs == {REG_GW_STATUS, REG_IU_CONNECTION}
             \cup {STATUS_REG(u) : u \in Units} \cup {PRESET_REG(u) : u \in Units}

ASSUME IraccAssumption ==
    /\ MaxUnit \in 0..63
    /\ \A l \in UnitLists : l \in Seq(Units) /\ Len(l) <= MaxUnit + 1
    /\ GatewayFaults \subseteq {"open_fails", "negative"}
    /\ MaxErr \in Nat \ {0}
    /\ ReopenWait \in Nat /\ ReadInterval \in Nat
    /\ ReadWaitTimeout \in Nat /\ WriteWaitTimeout \in Nat
    /\ CmdCap \in Nat \ {0}
    /\ Reg = IraccRegs

\* iracc_cmd_parse is only called with a text that is not empty, and succeeds
\* when its last line is well-formed.
ASSUME BatchAssumption ==
    \A b \in Batches : /\ b \in Batch /\ b # NoBatch
                       /\ b.lastGood => b.good # << >>

VARIABLES
    crashed,       \* a null pointer was dereferenced
    state,         \* iracc.state
    initState,
    errcount,
    reopenAge,     \* since last_reopen
    units,         \* connectedUnitIDs, connectedUnitCount
    slots,         \* connectedUnitStatus
    task,          \* which task of a ready gateway is next
    readingState, readingUnitIndex,
    readAge,       \* since lastReadRequestTime, while waiting
    pollAge,       \* since lastReadTaskTime
    writingState, writingCommandIndex,
    writeAge,      \* since lastWriteRequestTime, while waiting
    cmds,          \* writeCommands, writeCommandCount
    mailbox,       \* memIn of the databus
    published      \* memOut of the databus

readVars  == <<readingState, readingUnitIndex, readAge, pollAge>>
writeVars == <<writingState, writingCommandIndex, writeAge, cmds>>
portVars  == <<state, initState, errcount, reopenAge>>
busVars   == <<mailbox, published>>
iraccVars == <<crashed, portVars, units, slots, task, readVars, writeVars, busVars>>
vars == <<modbusVars, iraccVars>>

\* The state of the master that the tasks leave alone.
masterButQueue == <<fdOpen, masterVars, readerVars, line>>

NoData == -1
NoStatus == [unitId |-> 255, data |-> NoData]

Init ==
    /\ crashed = FALSE
    \* iracc_init zeroes everything and tries to open the port.
    /\ \E open \in BOOLEAN :
          /\ open \/ "open_fails" \in GatewayFaults
          /\ MInit(open)
          /\ state = IF open THEN "open" ELSE "close"
    /\ initState = "check_status"
    /\ errcount = 0 /\ reopenAge = 0
    /\ units = << >>
    /\ slots = [i \in Units |-> [unitId |-> 0, data |-> NoData]]
    /\ task = "write"
    /\ readingState = "init" /\ readingUnitIndex = 0 /\ readAge = 0
    /\ pollAge = ReadInterval
    /\ writingState = "init" /\ writingCommandIndex = 0 /\ writeAge = 0
    /\ cmds = << >>
    /\ mailbox = NoBatch /\ published = << >>

-----------------------------------------------------------------------------
(* receiveCallback *)

\* _iracc_close, the part that is not modbus_close: the position of the read
\* task, the commands and the write task stay as they are.
ClosePort ==
    /\ state' = "close"
    /\ initState' = "check_status"
    /\ errcount' = 0
    /\ readingState' = "init" /\ readAge' = 0
    /\ UNCHANGED <<reopenAge, readingUnitIndex, pollAge>>

\* Mutant: one error more.
TooManyErrors_OffByOne == errcount + 1 > MaxErr

TooManyErrors == errcount + 1 >= MaxErr

\* _modbus_receive_error: the port is closed after too many errors.
ReceiveError(closes, init) ==
    /\ closes = TooManyErrors
    /\ IF closes THEN ClosePort
       ELSE /\ errcount' = errcount + 1
            /\ initState' = init
            /\ UNCHANGED <<state, reopenAge, readVars>>

\* An initialising gateway looks at the request of the verdict, a closed one at
\* the response, without a check.
DereferencesNull == \/ state = "open" /\ lastRequest = NoRequest
                    \/ state = "close"

\* Mutant: a failed query is not noticed.
FailedState_Ignored == initState

\* The initialisation ends when the answer to one of its two queries fails.
FailedState == IF lastRequest.reg \in {REG_GW_STATUS, REG_IU_CONNECTION}
                 THEN "failure" ELSE initState

\* _modbus_received(lastRequest, NULL): a timeout or an input error.
NullVerdict(closes) ==
    /\ ~DereferencesNull
    /\ ReceiveError(closes, IF state = "open" THEN FailedState ELSE initState)
    /\ UNCHANGED <<crashed, units, slots, task, writeVars, busVars>>

\* What the payload lengths 2, 8 and 12 tell apart.
Kind(reg) == CASE reg = REG_GW_STATUS -> "gateway"
               [] reg = REG_IU_CONNECTION -> "connection"
               [] OTHER -> "status"

InitialResponse(closes) ==
    /\ state = "open"
    /\ \/ /\ lastRequest.reg = buffer.to.reg /\ buffer.to.reg = REG_GW_STATUS
          /\ ~closes
          /\ initState' = "check_connection"
          /\ UNCHANGED <<state, errcount, reopenAge, units, slots, readVars>>
       \/ /\ lastRequest.reg = buffer.to.reg /\ buffer.to.reg = REG_IU_CONNECTION
          /\ ~closes
          /\ units' \in UnitLists
          /\ slots' = [i \in Units |-> NoStatus]
          /\ initState' = "success"
          /\ UNCHANGED <<state, errcount, reopenAge, readVars>>
       \/ \* the gateway is not ready, or the length is not the expected one
          /\ \/ lastRequest.reg # buffer.to.reg
             \/ buffer.to.reg = REG_GW_STATUS /\ "negative" \in GatewayFaults
          /\ ReceiveError(closes, FailedState)
          /\ UNCHANGED <<units, slots>>
    /\ UNCHANGED <<writeVars, crashed>>

\* The payload of a status response is stored in the slot of the unit that was
\* asked last.
StoredStatus ==
    IF /\ state = "ready" /\ lastRequest.code = "READ" /\ lastRequest.reg >= REG_START
       /\ Kind(buffer.to.reg) = "status"
    THEN LET u == UNIT_ID(lastRequest.reg)
         IN  [slots EXCEPT ![u] = [unitId |-> u, data |-> UNIT_ID(buffer.to.reg)]]
    ELSE slots

\* IRACC_CURRENT_COMMAND (iracc.c:153): with a command in the array it is the slot at
\* writingCommandIndex, whatever the index.
CurrentSlots == IF cmds # << >> THEN {writingCommandIndex + 1} ELSE {}

(***************************************************************************)
(* The acknowledgement of a preset counts for the current command when the *)
(* unit is the same.  After the last command the current slot is the one   *)
(* behind it, which a late acknowledgement compares and may mark.  That    *)
(* mark is no state: a push overwrites the slot (iracc.c:247).  Behind the *)
(* last slot of the array the byte that is compared is writeCommandCount,  *)
(* and the one that may be marked is in lastWriteTaskTime, which nothing   *)
(* reads.                                                                  *)
(***************************************************************************)
AcknowledgedCommands ==
    IF state = "ready" /\ lastRequest.code = "PRESET"
    THEN [i \in DOMAIN cmds |->
             IF i \in CurrentSlots /\ cmds[i].unit = WRITE_UNIT_ID(buffer.to.reg)
             THEN [cmds[i] EXCEPT !.received = TRUE] ELSE cmds[i]]
    ELSE cmds

\* A ready gateway; a closed one, "illegal iracc.state", only logs.
TaskResponse(closes) ==
    /\ state # "open" /\ ~closes
    /\ slots' = StoredStatus
    /\ cmds' = AcknowledgedCommands
    /\ UNCHANGED <<portVars, units, readVars, crashed, writingState, writingCommandIndex, writeAge>>

\* _modbus_received(lastRequest, response)
Response(closes) ==
    /\ InitialResponse(closes) \/ TaskResponse(closes)
    /\ UNCHANGED <<task, busVars>>

Crash ==
    /\ TimeoutDue \/ IoErrorDue
    /\ DereferencesNull
    /\ crashed' = TRUE
    /\ UNCHANGED <<modbusVars, portVars, units, slots, task, readVars, writeVars, busVars>>

ModbusStep ==
    \/ /\ \/ NothingToDo \/ NotOpen \/ Send \/ NoFlush \/ Discard \/ Mismatch
          \/ NoInput \/ ReadAnswer \/ ReadGarbled
       /\ UNCHANGED iraccVars
    \/ \E closes \in BOOLEAN :
          \/ Timeout(closes) /\ NullVerdict(closes)
          \/ IoError(closes) /\ NullVerdict(closes)
          \/ Match(closes) /\ Response(closes)
    \/ Crash

-----------------------------------------------------------------------------
(* iracc_run after modbus_run: a closed or an initialising gateway *)

Unready == /\ pc = "tasks"
           /\ pc' = "io_run"
           /\ UNCHANGED <<crashed, units, slots, task, pollAge, readingUnitIndex, writeVars, busVars>>

\* Mutant: the state is not looked at.
ReopenDue_AnyState == reopenAge > ReopenWait

ReopenDue == state = "close" /\ reopenAge > ReopenWait

\* The port is closed: it is opened again after a while.
Reopen ==
    /\ Unready
    /\ ReopenDue
    /\ reopenAge' = 0
    /\ \/ Open /\ state' = "open"
       \/ /\ "open_fails" \in GatewayFaults
          /\ UNCHANGED <<state, queue, masterButQueue>>
    /\ UNCHANGED <<initState, errcount, readingState, readAge>>

StayClosed ==
    /\ Unready
    /\ state = "close" /\ reopenAge <= ReopenWait
    /\ UNCHANGED <<portVars, queue, masterButQueue, readingState, readAge>>

\* One of the two queries; the port is closed later when the queue is full.
Query(from, reg, to) ==
    /\ initState = from
    /\ IF QueueFull
         THEN initState' = "failure" /\ UNCHANGED queue
         ELSE initState' = to /\ Enqueue([code |-> "READ", reg |-> reg])
    /\ UNCHANGED <<state, errcount, reopenAge, masterButQueue, readingState, readAge>>

\* _iracc_task_initialize
Initialize ==
    /\ Unready
    /\ state = "open"
    /\ \/ Query("check_status", REG_GW_STATUS, "check_status_wait")
       \/ Query("check_connection", REG_IU_CONNECTION, "check_connection_wait")
       \/ /\ initState \in {"check_status_wait", "check_connection_wait"}
          /\ UNCHANGED <<portVars, queue, masterButQueue, readingState, readAge>>
       \/ /\ initState = "success"
          /\ state' = "ready"
          /\ UNCHANGED <<initState, errcount, reopenAge, queue, masterButQueue, readingState, readAge>>
       \/ /\ initState = "failure"
          /\ Close /\ UNCHANGED <<lastRequest, queue, line>>
          /\ ClosePort

-----------------------------------------------------------------------------
(* A ready gateway: the write task *)

ReadIdle  == readingState = "init" /\ readingUnitIndex = 0
WriteIdle == writingState = "init" /\ writingCommandIndex = 0

\* The write task is the first of the two, the read task follows at once.
InWriteTask ==
    /\ pc = "tasks" /\ state = "ready" /\ task = "write"
    /\ task' = "read"
    /\ UNCHANGED <<pc, masterButQueue, portVars, units, slots, readVars, published>>

\* iracc_cmd_parse pushes one command per well-formed line while there is room.
Parsed(b) == cmds \o [i \in 1..Least(Len(b.good), CmdCap - Len(cmds)) |->
                         [unit |-> b.good[i], received |-> FALSE]]

ParseOK(b) == b.lastGood /\ Len(cmds) + Len(b.good) <= CmdCap

\* Not connected, reading, or nothing to write.
WriteReturns ==
    /\ InWriteTask
    /\ \/ units = << >>
       \/ ~ReadIdle
       \/ WriteIdle /\ mailbox = NoBatch
    /\ UNCHANGED <<crashed, queue, writeVars, mailbox>>

MayWrite == units # << >> /\ ReadIdle

\* The text is popped and its commands pushed, but its last line fails: the task
\* gives up and leaves the commands where they are.
BadBatch ==
    /\ InWriteTask
    /\ MayWrite /\ WriteIdle /\ mailbox # NoBatch /\ ~ParseOK(mailbox)
    /\ cmds' = Parsed(mailbox)
    /\ mailbox' = NoBatch
    /\ UNCHANGED <<crashed, queue, writingState, writingCommandIndex, writeAge>>

AllWritten(commands) == writingCommandIndex > 0 /\ writingCommandIndex >= Len(commands)

\* write_state_init: the current command becomes a request, or is skipped when
\* the queue is full.  CommandAvailable says that there is a current command.
WriteCommand(commands) ==
    /\ ~AllWritten(commands) /\ commands # << >>
    /\ cmds' = commands
    /\ LET u == commands[writingCommandIndex + 1].unit
       IN  \/ /\ Enqueue([code |-> "PRESET", reg |-> PRESET_REG(u)])
              /\ writingState' = "start"
              /\ UNCHANGED writingCommandIndex
           \/ /\ QueueFull
              /\ writingCommandIndex' = writingCommandIndex + 1
              /\ UNCHANGED <<queue, writingState>>
    /\ writeAge' = 0
    /\ UNCHANGED crashed

\* A batch starts: its first command is written in the same call.
StartBatch ==
    /\ InWriteTask
    /\ MayWrite /\ WriteIdle /\ mailbox # NoBatch /\ ParseOK(mailbox)
    /\ mailbox' = NoBatch
    /\ WriteCommand(Parsed(mailbox))

Writing == InWriteTask /\ MayWrite /\ ~WriteIdle /\ UNCHANGED mailbox

WriteNext == Writing /\ writingState = "init" /\ WriteCommand(cmds)

WriteDone ==
    /\ Writing
    /\ writingState \in {"init", "start"} /\ AllWritten(cmds)
    /\ writingState' = "complete"
    /\ writeAge' = 0
    /\ UNCHANGED <<crashed, queue, writingCommandIndex, cmds>>

\* Mutant: only the acknowledgement counts.
CommandOver_NoTimeout == cmds[writingCommandIndex + 1].received

CommandOver == cmds[writingCommandIndex + 1].received \/ writeAge > WriteWaitTimeout

\* write_state_start: on to the next command when this one was acknowledged or
\* its time is over.
WriteAwait ==
    /\ Writing /\ writingState = "start" /\ ~AllWritten(cmds) /\ cmds # << >>
    /\ IF CommandOver
         THEN /\ writingCommandIndex' = writingCommandIndex + 1
              /\ writingState' = "init"
              /\ writeAge' = 0
         ELSE UNCHANGED <<writingCommandIndex, writingState, writeAge>>
    /\ UNCHANGED <<crashed, queue, cmds>>

\* Mutant: the index keeps pointing behind the written commands.
ResetWriting_KeepsIndex == writingState' = "init" /\ UNCHANGED writingCommandIndex

ResetWriting == writingState' = "init" /\ writingCommandIndex' = 0

WriteComplete ==
    /\ Writing /\ writingState = "complete"
    /\ ResetWriting
    /\ cmds' = << >>
    /\ UNCHANGED <<crashed, queue, writeAge>>

WriteTask == \/ WriteReturns \/ BadBatch \/ StartBatch \/ WriteNext
             \/ WriteDone \/ WriteAwait \/ WriteComplete

-----------------------------------------------------------------------------
(* A ready gateway: the read task *)

InReadTask ==
    /\ pc = "tasks" /\ state = "ready" /\ task = "read"
    /\ task' = "write"
    /\ pc' = "io_run"
    /\ UNCHANGED <<crashed, masterButQueue, portVars, units, slots, writeVars, mailbox>>

\* Mutant: the write task may be at work.
MayRead_WhileWriting == units # << >> /\ ~(ReadIdle /\ pollAge < ReadInterval)

MayRead == /\ units # << >> /\ WriteIdle
           /\ ~(ReadIdle /\ pollAge < ReadInterval)

\* Not connected, writing, or polled a moment ago.
ReadReturns ==
    /\ InReadTask
    /\ ~MayRead
    /\ UNCHANGED <<queue, readVars, published>>

CurrentUnit == units[readingUnitIndex + 1]

\* read_state_init: the current unit is asked, or skipped when the queue is full.
ReadUnit ==
    /\ InReadTask /\ MayRead
    /\ readingState = "init" /\ readingUnitIndex < Len(units)
    /\ \/ /\ Enqueue([code |-> "READ", reg |-> STATUS_REG(CurrentUnit)])
          /\ readingState' = "start"
          /\ UNCHANGED readingUnitIndex
       \/ /\ QueueFull
          /\ readingUnitIndex' = readingUnitIndex + 1
          /\ UNCHANGED <<queue, readingState>>
    /\ readAge' = 0
    /\ UNCHANGED <<pollAge, published>>

\* "Data received": the slot at the position of the unit in the list of the
\* connected units holds the id of the unit.
Received == slots[readingUnitIndex].unitId = CurrentUnit

\* Mutant: only the answer counts.
UnitOver_NoTimeout == Received

UnitOver == Received \/ readAge > ReadWaitTimeout

ReadAwait ==
    /\ InReadTask /\ MayRead
    /\ readingState = "start" /\ readingUnitIndex < Len(units)
    /\ IF UnitOver
         THEN /\ readingUnitIndex' = readingUnitIndex + 1
              /\ readingState' = "init"
              /\ readAge' = 0
         ELSE UNCHANGED <<readingUnitIndex, readingState, readAge>>
    /\ UNCHANGED <<pollAge, queue, published>>

ReadDone ==
    /\ InReadTask /\ MayRead
    /\ readingState \in {"init", "start"} /\ readingUnitIndex >= Len(units)
    /\ readingState' = "complete"
    /\ readAge' = 0
    /\ UNCHANGED <<readingUnitIndex, pollAge, queue, published>>

\* Mutant: the index keeps pointing behind the polled units.
ResetReading_KeepsIndex == readingState' = "init" /\ UNCHANGED readingUnitIndex

ResetReading == readingState' = "init" /\ readingUnitIndex' = 0

\* The status of every connected unit is put into the shared memory.
ReadComplete ==
    /\ InReadTask /\ MayRead
    /\ readingState = "complete"
    /\ published' = [k \in DOMAIN units |-> slots[units[k]]]
    /\ ResetReading
    /\ pollAge' = 0
    /\ UNCHANGED <<readAge, queue>>

ReadTask == ReadReturns \/ ReadUnit \/ ReadAwait \/ ReadDone \/ ReadComplete

-----------------------------------------------------------------------------
(* The environment *)

\* databus_put_in of the control program: the text replaces one not yet popped.
CtrlPut ==
    /\ \E b \in Batches : mailbox' = b
    /\ UNCHANGED <<modbusVars, crashed, portVars, units, slots, task, readVars, writeVars, published>>

Older(age, limit) == Least(age + 1, limit)

Tick ==
    /\ MTick
    /\ reopenAge' = Older(reopenAge, ReopenWait + 1)
    /\ pollAge' = Older(pollAge, ReadInterval)
    /\ readAge' = IF readingState = "start" THEN Older(readAge, ReadWaitTimeout + 1) ELSE 0
    /\ writeAge' = IF writingState = "start" THEN Older(writeAge, WriteWaitTimeout + 1) ELSE 0
    /\ UNCHANGED <<crashed, state, initState, errcount, units, slots, task,
                   readingState, readingUnitIndex, writingState, writingCommandIndex, cmds, busVars>>

Quiet == MQuiet /\ UNCHANGED iraccVars

Loop == ModbusStep \/ Reopen \/ StayClosed \/ Initialize \/ WriteTask \/ ReadTask

Next == ~crashed /\ (Loop \/ Tick \/ Quiet \/ CtrlPut)

Spec == Init /\ [][Next]_vars

\* The thread keeps running and the clock advances.
FairSpec == Spec /\ WF_vars(~crashed /\ Loop) /\ WF_vars(~crashed /\ Tick)

-----------------------------------------------------------------------------
(* Properties *)

Command == [unit : Units, received : BOOLEAN]
Status == [unitId : 0..255, data : Units \cup {NoData}]

TypeOK ==
    /\ MTypeOK
    /\ crashed \in BOOLEAN
    /\ state \in {"close", "open", "ready"}
    /\ initState \in {"check_status", "check_status_wait", "check_connection",
                      "check_connection_wait", "success", "failure"}
    /\ errcount \in 0..MaxErr - 1
    /\ reopenAge \in 0..ReopenWait + 1
    /\ units \in Seq(Units) /\ Len(units) <= MaxUnit + 1
    /\ slots \in [Units -> Status]
    /\ task \in {"write", "read"}
    /\ readingState \in {"init", "start", "complete"}
    /\ readingUnitIndex \in 0..MaxUnit + 1
    /\ readAge \in 0..ReadWaitTimeout + 1
    /\ pollAge \in 0..ReadInterval
    /\ writingState \in {"init", "start", "complete"}
    /\ writingCommandIndex \in 0..CmdCap
    /\ writeAge \in 0..WriteWaitTimeout + 1
    /\ cmds \in Seq(Command) /\ Len(cmds) <= CmdCap
    /\ mailbox \in Batches \cup {NoBatch}
    /\ published \in Seq(Status)

\* Each task waits until the other one is idle (iracc.c:364 and 455); they never
\* wait for each other.
TasksExclude == ReadIdle \/ WriteIdle

\* iracc.c:412 "assert cmd is not NULL": a write task at work has a command, also
\* after a bad batch, a full queue, and a port closed in the middle.  The slot that a
\* late acknowledgement looks at (iracc.c:303) is that of a command, or the one right
\* behind the last: index 64 of 64 is the furthest that it reaches.
CommandAvailable ==
    /\ ~WriteIdle => CurrentSlots # {}
    /\ CurrentSlots \subseteq 1..Len(cmds) + 1

\* The port and the state agree, so that a closed gateway gets no verdict, whose
\* response it would dereference (iracc.c:308).
PortAgrees == fdOpen <=> state # "close"

Pending(r) == lastRequest = r \/ \E i \in DOMAIN queue : queue[i] = r

\* The mismatch of a response leaves the master waiting without a request.
Abandoned == mbState = "WaitForResponse" /\ lastRequest = NoRequest

\* An initialising gateway that waits for an answer has asked for it, and will get
\* a verdict: no error in between leaves it waiting for nothing.
InitQueryPending ==
    state = "open" =>
        /\ initState = "check_status_wait" =>
              Abandoned \/ Pending([code |-> "READ", reg |-> REG_GW_STATUS])
        /\ initState = "check_connection_wait" =>
              Abandoned \/ Pending([code |-> "READ", reg |-> REG_IU_CONNECTION])

\* The status that is published for a unit was read from that unit.
StatusIsOwn == \A k \in DOMAIN published :
                   published[k].data \in {NoData, published[k].unitId}

\* The composed program is a Modbus master whose callers are these tasks.
UsesModbus == MSpec

\* A null pointer is only dereferenced while the gateway initialises, and only in two
\* ways: the timeout of a master whose request a mismatch freed, and an input error
\* before a query was sent.  The read of a missing response at iracc.c:308 never
\* happens, and a gateway that is ready survives every fault.
OnlyInitialisingCrashes ==
    crashed => state = "open" /\ lastRequest = NoRequest /\ (Abandoned \/ pc = "io_run")

\* iracc.c:597-598: a handler of a query is called with "the response or NULL if modbus
\* wait timeout".  After an exception response the timeout has no request, and
\* iracc.c:269 reads the register of it before any handler is called.
TimeoutReachesHandler == crashed => pc # "modbus_run"

\* The initialisation of an open port ends, whether the gateway answers that it is
\* ready or not, with an exception, or not at all.  It ends ready, closed, or in the
\* crash that OnlyInitialisingCrashes describes.
InitializationEnds == state = "open" ~> state # "open" \/ crashed

\* A round of polling ends unless the port is closed: lost answers, a full queue
\* and waiting commands only skip units.  Without connected units both tasks
\* return at once, for good, even in the middle of a round.
RoundEnds == state = "ready" /\ ~ReadIdle /\ units # << >> ~> ReadIdle \/ state # "ready"

\* So does a batch of commands, although it waits for the read task.
BatchEnds == state = "ready" /\ ~WriteIdle /\ units # << >> ~> WriteIdle \/ state # "ready"

\* A text in the shared memory is taken by a ready gateway with connected units:
\* polling does not starve the write task (iracc.c:224-231).
CommandsTaken == state = "ready" /\ units # << >> /\ mailbox # NoBatch
                    ~> mailbox = NoBatch \/ state # "ready"

\* iracc.c:491-493 takes a filled slot for the answer to the request that was just
\* made.  The slots are only emptied when the port is opened: from the second
\* round on the request is still pending when the unit counts as read.
ReceivedMeansAnswered ==
    readingState = "start" /\ readingUnitIndex < Len(units) /\ Received
        => ~Pending([code |-> "READ", reg |-> STATUS_REG(CurrentUnit)])
=============================================================================
