---------------------------- MODULE IraccProofs -----------------------------
(***************************************************************************)
(* Proofs about Iracc for all capacities, timeouts, intervals, faults,     *)
(* lists of connected units and texts of the control program.              *)
(***************************************************************************)
EXTENDS Iracc, ModbusProofs

\* What CommandAvailable says of the index.
CommandThere == (~WriteIdle => cmds # << >>) /\ writingCommandIndex <= Len(cmds)

TaskInv == TasksExclude /\ CommandThere

IInv == TypeOK /\ MInv /\ PortAgrees /\ TaskInv

-----------------------------------------------------------------------------
(* What the registers and the parsed commands are *)

LEMMA RegistersExist ==
    /\ [code |-> "READ", reg |-> REG_GW_STATUS] \in Request
    /\ [code |-> "READ", reg |-> REG_IU_CONNECTION] \in Request
    /\ \A u \in Units : /\ [code |-> "READ", reg |-> STATUS_REG(u)] \in Request
                        /\ [code |-> "PRESET", reg |-> PRESET_REG(u)] \in Request
BY IraccAssumption DEF Request, IraccRegs

LEMMA UnitIdType ==
    ASSUME NEW reg \in Reg, reg >= REG_START
    PROVE  UNIT_ID(reg) \in Units /\ UNIT_ID(reg) \in 0..255
<1> USE IraccAssumption DEF Units, REG_START, UNIT_ID
<1>1. CASE \E u \in Units : reg = STATUS_REG(u)
  BY <1>1 DEF STATUS_REG
<1>2. CASE \E u \in Units : reg = PRESET_REG(u)
  BY <1>2 DEF PRESET_REG
<1> QED
  BY <1>1, <1>2 DEF IraccRegs, REG_GW_STATUS, REG_IU_CONNECTION

LEMMA ParsedType ==
    ASSUME TypeOK, mailbox # NoBatch
    PROVE  /\ Parsed(mailbox) \in Seq(Command)
           /\ Len(Parsed(mailbox)) <= CmdCap
           /\ ParseOK(mailbox) => Parsed(mailbox) # << >>
           /\ cmds # << >> => Parsed(mailbox) # << >>
<1> DEFINE n == Least(Len(mailbox.good), CmdCap - Len(cmds))
           new == [i \in 1..n |-> [unit |-> mailbox.good[i], received |-> FALSE]]
<1>1. mailbox \in Batch /\ (mailbox.lastGood => mailbox.good # << >>)
  BY BatchAssumption DEF TypeOK
<1>2. /\ mailbox.good \in Seq(Units) /\ Len(mailbox.good) \in Nat
      /\ cmds \in Seq(Command) /\ Len(cmds) \in Nat /\ Len(cmds) <= CmdCap /\ CmdCap \in Nat
  BY <1>1, IraccAssumption DEF TypeOK, Batch, Units
<1>3. n \in Nat /\ n <= Len(mailbox.good) /\ n <= CmdCap - Len(cmds)
  BY <1>2 DEF Least
<1>4. new \in Seq(Command) /\ Len(new) = n
  <2>1. \A i \in 1..n : mailbox.good[i] \in Units
    BY <1>2, <1>3
  <2>2. new \in [1..n -> Command]
    BY <2>1 DEF Command
  <2>3. n \in Nat /\ DOMAIN new = 1..n
    BY <1>3
  <2> HIDE DEF new, n
  <2>4. \A s, m : m \in Nat /\ s \in [1..m -> Command] => s \in Seq(Command) /\ Len(s) = m
    OBVIOUS
  <2> QED
    BY <2>2, <2>3, <2>4
<1>5. Parsed(mailbox) = cmds \o new
  BY DEF Parsed
<1> HIDE DEF new, n
<1>6. /\ cmds \o new \in Seq(Command)
      /\ Len(cmds \o new) = Len(cmds) + n
  BY <1>2, <1>4
<1>7. ParseOK(mailbox) => n > 0
  BY <1>1, <1>2, IraccAssumption DEF ParseOK, n, Least
<1>8. \A s \in Seq(Command) : Len(s) > 0 <=> s # << >>
  OBVIOUS
<1> QED
  BY <1>2, <1>3, <1>5, <1>6, <1>7, <1>8

-----------------------------------------------------------------------------
(* The steps of the program are steps of a Modbus master *)

LEMMA CallbackUses == ModbusStep => MNext \/ UNCHANGED modbusVars
BY DEF ModbusStep, MNext, MLoop, Crash

LEMMA UnreadyUses ==
    IInv /\ (Reopen \/ StayClosed \/ Initialize) => MNext
<1> SUFFICES ASSUME IInv, Reopen \/ StayClosed \/ Initialize PROVE CallerStep
  BY DEF MNext, MLoop
<1>0. pc = "tasks" /\ pc' = "io_run"
  BY DEF ReopenDue, Reopen, StayClosed, Initialize, Unready
<1> USE DEF CallerStep, masterButQueue, masterVars, readerVars
<1>1. CASE Reopen
  BY <1>0, <1>1 DEF ReopenDue, Reopen, IInv, PortAgrees
<1>2. CASE StayClosed
  BY <1>0, <1>2 DEF StayClosed
<1>3. CASE Initialize
  <2>1. CASE Query("check_status", REG_GW_STATUS, "check_status_wait")
    BY <1>0, <2>1, RegistersExist DEF Query
  <2>2. CASE Query("check_connection", REG_IU_CONNECTION, "check_connection_wait")
    BY <1>0, <2>2, RegistersExist DEF Query
  <2>3. CASE Close /\ UNCHANGED <<lastRequest, queue, line>>
    BY <1>0, <1>3, <2>3 DEF Initialize, IInv, PortAgrees
  <2>4. CASE UNCHANGED <<queue, masterButQueue>>
    BY <1>0, <2>4
  <2> QED
    BY <1>3, <2>1, <2>2, <2>3, <2>4 DEF Initialize
<1> QED
  BY <1>1, <1>2, <1>3

\* A task step leaves the queue alone or enqueues one request.
LEMMA TaskUses ==
    IInv /\ (WriteTask \/ ReadTask) => MNext
<1> SUFFICES ASSUME IInv, WriteTask \/ ReadTask PROVE CallerStep
  BY DEF MNext, MLoop
<1>0. pc = "tasks" /\ pc' \in {"tasks", "io_run"} /\ UNCHANGED masterButQueue
  BY DEF WriteTask, ReadTask, WriteReturns, BadBatch, StartBatch, WriteNext, WriteDone,
     WriteAwait, WriteComplete, ResetWriting, Writing, InWriteTask, ReadReturns, ReadUnit, ReadAwait,
     ReadDone, ReadComplete, InReadTask
<1> SUFFICES queue' = queue \/ \E r \in Request : Enqueue(r)
  BY <1>0 DEF CallerStep, masterButQueue, masterVars, readerVars
<1>1. ASSUME NEW commands \in Seq(Command), WriteCommand(commands)
      PROVE  queue' = queue \/ \E r \in Request : Enqueue(r)
  <2>1. writingCommandIndex + 1 \in 1..Len(commands)
    BY <1>1 DEF WriteCommand, AllWritten, IInv, TypeOK
  <2>2. commands[writingCommandIndex + 1] \in Command
    BY <1>1, <2>1
  <2>3. commands[writingCommandIndex + 1].unit \in Units
    BY <2>2 DEF Command
  <2> QED
    BY <1>1, <2>3, RegistersExist DEF WriteCommand
<1>2. CASE StartBatch
  BY <1>1, <1>2, ParsedType DEF StartBatch, IInv
<1>3. CASE WriteNext
  BY <1>1, <1>3 DEF WriteNext, IInv, TypeOK
<1>4. CASE ReadUnit
  <2>1. CurrentUnit \in Units
    BY <1>4 DEF ReadUnit, CurrentUnit, IInv, TypeOK
  <2> QED
    BY <1>4, <2>1, RegistersExist DEF ReadUnit
<1>5. CASE WriteReturns \/ BadBatch \/ WriteDone \/ WriteAwait \/ WriteComplete
  BY <1>5 DEF WriteReturns, BadBatch, WriteDone, WriteAwait, WriteComplete
<1>6. CASE ReadReturns \/ ReadAwait \/ ReadDone \/ ReadComplete
  BY <1>6 DEF ReadReturns, ReadAwait, ReadDone, ReadComplete
<1> QED
  BY <1>2, <1>3, <1>4, <1>5, <1>6 DEF WriteTask, ReadTask

LEMMA StepUses == IInv /\ [Next]_vars => [MNext]_modbusVars
<1> SUFFICES ASSUME IInv, [Next]_vars PROVE MNext \/ UNCHANGED modbusVars
  OBVIOUS
<1>1. CASE Tick \/ Quiet
  BY <1>1 DEF Tick, Quiet, MNext
<1>2. CASE CtrlPut \/ UNCHANGED vars
  BY <1>2 DEF CtrlPut, vars
<1>3. CASE Loop
  BY <1>3, CallbackUses, UnreadyUses, TaskUses DEF Loop
<1> QED
  BY <1>1, <1>2, <1>3 DEF Next

-----------------------------------------------------------------------------
(* The inductive invariant: types *)

LEMMA IInitInv == Init => IInv
<1> SUFFICES ASSUME Init PROVE IInv
  OBVIOUS
<1>1. MInv
  BY MInitInv DEF Init, MInit0
<1>2. PortAgrees
  BY DEF Init, MInit, PortAgrees
<1>3. TypeOK
  <2>1. state \in {"close", "open", "ready"}
    BY DEF Init
  <2>2. slots \in [Units -> Status]
    BY IraccAssumption DEF Init, Status, Units
  <2>3. crashed \in BOOLEAN
    BY Zenon DEF Init
  <2>4. /\ initState = "check_status" /\ errcount = 0 /\ reopenAge = 0
        /\ units = << >> /\ task = "write"
        /\ readingState = "init" /\ readingUnitIndex = 0 /\ readAge = 0
        /\ pollAge = ReadInterval
        /\ writingState = "init" /\ writingCommandIndex = 0 /\ writeAge = 0
        /\ cmds = << >> /\ mailbox = NoBatch /\ published = << >>
    BY DEF Init
  <2> QED
    BY <1>1, <2>1, <2>2, <2>3, <2>4, IraccAssumption DEF TypeOK, MInv
<1>4. TaskInv
  BY DEF Init, TaskInv, TasksExclude, CommandThere, ReadIdle, WriteIdle
<1> QED
  BY <1>1, <1>2, <1>3, <1>4 DEF IInv

LEMMA AcknowledgedType ==
    ASSUME TypeOK
    PROVE  /\ AcknowledgedCommands \in Seq(Command)
           /\ Len(AcknowledgedCommands) = Len(cmds)
<1>1. cmds \in Seq(Command) /\ Len(cmds) \in Nat /\ DOMAIN cmds = 1..Len(cmds)
  BY DEF TypeOK
<1>2. CASE AcknowledgedCommands = cmds
  BY <1>1, <1>2
<1>3. CASE AcknowledgedCommands # cmds
  <2> DEFINE marked(i) == [cmds[i] EXCEPT !.received = TRUE]
             counts(i) == i \in CurrentSlots /\ cmds[i].unit = WRITE_UNIT_ID(buffer.to.reg)
             new == [i \in DOMAIN cmds |-> IF counts(i) THEN marked(i) ELSE cmds[i]]
  <2>1. AcknowledgedCommands = new
    BY <1>3 DEF AcknowledgedCommands
  <2>2. ASSUME NEW i \in 1..Len(cmds)
        PROVE  cmds[i] \in Command /\ marked(i) \in Command
    <3>1. cmds[i] \in Command
      BY <1>1, <2>2
    <3> QED
      BY <3>1 DEF Command
  <2> HIDE DEF marked, counts
  <2>3. new \in [1..Len(cmds) -> Command]
    BY <1>1, <2>2
  <2> HIDE DEF new
  <2>4. \A s, m : m \in Nat /\ s \in [1..m -> Command] => s \in Seq(Command) /\ Len(s) = m
    OBVIOUS
  <2> QED
    BY <1>1, <2>1, <2>3, <2>4
<1> QED
  BY <1>2, <1>3

LEMMA StoredType ==
    ASSUME TypeOK, MatchDue
    PROVE  StoredStatus \in [Units -> Status]
<1>1. CASE StoredStatus = slots
  BY <1>1 DEF TypeOK
<1>2. CASE StoredStatus # slots
  <2> DEFINE u == UNIT_ID(lastRequest.reg)
             d == UNIT_ID(buffer.to.reg)
  <2>1. /\ lastRequest.code = "READ" /\ lastRequest.reg >= REG_START
        /\ Kind(buffer.to.reg) = "status"
        /\ StoredStatus = [slots EXCEPT ![u] = [unitId |-> u, data |-> d]]
    BY <1>2 DEF StoredStatus
  <2>2. lastRequest.reg \in Reg
    BY <2>1 DEF TypeOK, MTypeOK, Request, NoRequest
  <2>3. buffer.to.reg \in Reg
    BY DEF MatchDue, Answered, Frame, Request
  <2>4. buffer.to.reg >= REG_START
    <3>1. buffer.to.reg # REG_GW_STATUS /\ buffer.to.reg # REG_IU_CONNECTION
      BY <2>1 DEF Kind, REG_GW_STATUS, REG_IU_CONNECTION
    <3> QED
      BY <2>3, <3>1, IraccAssumption DEF IraccRegs, REG_START, STATUS_REG, PRESET_REG, Units
  <2>5. u \in Units /\ u \in 0..255 /\ d \in Units
    BY <2>1, <2>2, <2>3, <2>4, UnitIdType
  <2> HIDE DEF u, d
  <2>6. [unitId |-> u, data |-> d] \in Status
    BY <2>5 DEF Status
  <2> QED
    BY <2>1, <2>5, <2>6 DEF TypeOK
<1> QED
  BY <1>1, <1>2

LEMMA ReceiveErrorType ==
    ASSUME TypeOK, NEW closes \in BOOLEAN, NEW i, ReceiveError(closes, i),
           i \in {"check_status", "check_status_wait", "check_connection",
                  "check_connection_wait", "success", "failure"}
    PROVE  /\ state' \in {"close", "open", "ready"}
           /\ initState' \in {"check_status", "check_status_wait", "check_connection",
                              "check_connection_wait", "success", "failure"}
           /\ errcount' \in 0..MaxErr - 1
           /\ reopenAge' = reopenAge
           /\ readingState' \in {"init", "start", "complete"}
           /\ readingUnitIndex' = readingUnitIndex
           /\ readAge' \in 0..ReadWaitTimeout + 1
           /\ pollAge' = pollAge
<1>1. CASE closes
  <2>1. ClosePort
    BY <1>1 DEF ReceiveError, TooManyErrors
  <2> QED
    BY <2>1, IraccAssumption DEF ClosePort, TypeOK
<1>2. CASE ~closes
  <2>1. ~(errcount + 1 >= MaxErr)
    BY <1>2, Zenon DEF ReceiveError, TooManyErrors
  <2>2. errcount' = errcount + 1 /\ initState' = i /\ UNCHANGED <<state, reopenAge, readVars>>
    BY <1>2 DEF ReceiveError, TooManyErrors
  <2> QED
    BY <2>1, <2>2, IraccAssumption DEF TypeOK, readVars
<1> QED
  BY <1>1, <1>2

LEMMA CallbackType ==
    ASSUME TypeOK, MTypeOK', ModbusStep
    PROVE  TypeOK'
<1>1. CASE UNCHANGED iraccVars
  BY <1>1 DEF TypeOK, iraccVars, portVars, readVars, writeVars, busVars
<1>2. CASE Crash
  <2>1. crashed' \in BOOLEAN
    BY <1>2 DEF Crash
  <2> QED
    BY <1>2, <2>1 DEF Crash, TypeOK, portVars, readVars, writeVars, busVars
<1>3. ASSUME NEW closes \in BOOLEAN, NullVerdict(closes)
      PROVE  TypeOK'
  <2>1. PICK i : /\ ReceiveError(closes, i)
                 /\ i \in {"check_status", "check_status_wait", "check_connection",
                           "check_connection_wait", "success", "failure"}
    BY <1>3 DEF NullVerdict, FailedState, TypeOK
  <2> QED
    BY <1>3, <2>1, ReceiveErrorType DEF NullVerdict, TypeOK, writeVars, busVars
<1>4. ASSUME NEW closes \in BOOLEAN, Match(closes), Response(closes)
      PROVE  TypeOK'
  <2>1. CASE InitialResponse(closes)
    <3>1. ASSUME UNCHANGED <<state, errcount, reopenAge, units, slots, readVars>>,
                 initState' = "check_connection"
          PROVE  TypeOK'
      BY <1>4, <2>1, <3>1 DEF Response, InitialResponse, TypeOK, readVars, writeVars, busVars
    <3>2. ASSUME UNCHANGED <<state, errcount, reopenAge, readVars>>,
                 units' \in UnitLists, slots' = [j \in Units |-> NoStatus],
                 initState' = "success"
          PROVE  TypeOK'
      <4>1. units' \in Seq(Units) /\ Len(units') <= MaxUnit + 1
        BY <3>2, IraccAssumption
      <4>2. slots' \in [Units -> Status]
        BY <3>2 DEF Status, NoStatus
      <4> QED
        BY <1>4, <2>1, <3>2, <4>1, <4>2
           DEF Response, InitialResponse, TypeOK, readVars, writeVars, busVars
    <3>3. ASSUME ReceiveError(closes, FailedState), UNCHANGED <<units, slots>>
          PROVE  TypeOK'
      <4>1. FailedState \in {"check_status", "check_status_wait", "check_connection",
                             "check_connection_wait", "success", "failure"}
        BY DEF FailedState, TypeOK
      <4> QED
        BY <1>4, <2>1, <3>3, <4>1, ReceiveErrorType
           DEF Response, InitialResponse, TypeOK, writeVars, busVars
    <3> QED
      BY <2>1, <3>1, <3>2, <3>3 DEF InitialResponse
  <2>2. CASE TaskResponse(closes)
    <3>1. slots' \in [Units -> Status]
      BY <1>4, <2>2, StoredType DEF Match, TaskResponse
    <3>2. cmds' \in Seq(Command) /\ Len(cmds') <= CmdCap
      BY <2>2, AcknowledgedType DEF TaskResponse, TypeOK
    <3> QED
      BY <1>4, <2>2, <3>1, <3>2
         DEF Response, TaskResponse, TypeOK, portVars, readVars, busVars
  <2> QED
    BY <1>4, <2>1, <2>2 DEF Response
<1> QED
  BY <1>1, <1>2, <1>3, <1>4 DEF ModbusStep

LEMMA UnreadyType ==
    ASSUME TypeOK, MTypeOK', Reopen \/ StayClosed \/ Initialize
    PROVE  TypeOK'
<1> USE DEF TypeOK, Unready, writeVars, busVars, portVars
<1>1. CASE Reopen
  BY <1>1, IraccAssumption DEF ReopenDue, Reopen
<1>2. CASE StayClosed
  BY <1>2 DEF StayClosed
<1>3. CASE Initialize
  <2>1. CASE Query("check_status", REG_GW_STATUS, "check_status_wait")
    BY <1>3, <2>1 DEF Initialize, Query
  <2>2. CASE Query("check_connection", REG_IU_CONNECTION, "check_connection_wait")
    BY <1>3, <2>2 DEF Initialize, Query
  <2>3. CASE UNCHANGED <<portVars, readingState, readAge>>
    BY <1>3, <2>3 DEF Initialize
  <2>4. CASE state' = "ready" /\ UNCHANGED <<initState, errcount, reopenAge, readingState, readAge>>
    BY <1>3, <2>4 DEF Initialize
  <2>5. CASE ClosePort
    BY <1>3, <2>5, IraccAssumption DEF Initialize, ClosePort
  <2> QED
    BY <1>3, <2>1, <2>2, <2>3, <2>4, <2>5 DEF Initialize
<1> QED
  BY <1>1, <1>2, <1>3

\* What WriteCommand does to the variables of the write task.
LEMMA WriteCommandType ==
    ASSUME TypeOK, NEW commands \in Seq(Command), Len(commands) <= CmdCap,
           WriteCommand(commands)
    PROVE  /\ cmds' \in Seq(Command) /\ Len(cmds') <= CmdCap /\ cmds' # << >>
           /\ writingState' \in {"init", "start", "complete"}
           /\ writingCommandIndex' \in 0..CmdCap
           /\ writeAge' \in 0..WriteWaitTimeout + 1
           /\ crashed' = crashed
<1>1. Len(commands) \in Nat /\ Len(commands) > 0 /\ CmdCap \in Nat
  BY IraccAssumption DEF WriteCommand
<1>2. writingCommandIndex + 1 <= CmdCap
  BY <1>1 DEF WriteCommand, AllWritten, TypeOK
<1> QED
  BY <1>1, <1>2, IraccAssumption DEF WriteCommand, TypeOK

LEMMA WriteTaskType ==
    ASSUME TypeOK, MTypeOK', WriteTask
    PROVE  TypeOK'
<1> USE DEF portVars, readVars
<1>1. CASE WriteReturns
  BY <1>1 DEF WriteReturns, InWriteTask, TypeOK, writeVars
<1>2. CASE BadBatch
  <2>1. cmds' \in Seq(Command) /\ Len(cmds') <= CmdCap
    BY <1>2, ParsedType DEF BadBatch
  <2> QED
    BY <1>2, <2>1 DEF BadBatch, InWriteTask, TypeOK
<1>3. CASE StartBatch
  <2>1. Parsed(mailbox) \in Seq(Command) /\ Len(Parsed(mailbox)) <= CmdCap
    BY <1>3, ParsedType DEF StartBatch
  <2> QED
    BY <1>3, <2>1, WriteCommandType DEF StartBatch, InWriteTask, TypeOK
<1>4. CASE WriteNext
  BY <1>4, WriteCommandType DEF WriteNext, Writing, InWriteTask, TypeOK
<1>5. CASE WriteDone
  BY <1>5, IraccAssumption DEF WriteDone, Writing, InWriteTask, TypeOK
<1>6. CASE WriteAwait
  <2>1. writingCommandIndex' \in 0..CmdCap
    <3>1. Len(cmds) \in Nat /\ Len(cmds) > 0 /\ CmdCap \in Nat
      BY <1>6, IraccAssumption DEF WriteAwait, TypeOK
    <3>2. writingCommandIndex + 1 <= CmdCap
      BY <1>6, <3>1 DEF WriteAwait, AllWritten, TypeOK
    <3> QED
      BY <1>6, <3>1, <3>2 DEF WriteAwait, TypeOK
  <2> QED
    BY <1>6, <2>1, IraccAssumption DEF WriteAwait, Writing, InWriteTask, TypeOK
<1>7. CASE WriteComplete
  BY <1>7, IraccAssumption DEF WriteComplete, ResetWriting, Writing, InWriteTask, TypeOK
<1> QED
  BY <1>1, <1>2, <1>3, <1>4, <1>5, <1>6, <1>7 DEF WriteTask

LEMMA ReadTaskType ==
    ASSUME TypeOK, MTypeOK', ReadTask
    PROVE  TypeOK'
<1> USE IraccAssumption DEF portVars, writeVars, InReadTask
<1>1. CASE ReadReturns
  BY <1>1 DEF ReadReturns, TypeOK, readVars
<1>2. CASE ReadUnit
  BY <1>2 DEF ReadUnit, TypeOK
<1>3. CASE ReadAwait
  BY <1>3 DEF ReadAwait, TypeOK
<1>4. CASE ReadDone
  BY <1>4 DEF ReadDone, TypeOK
<1>5. CASE ReadComplete
  <2>1. \A k \in DOMAIN units : slots[units[k]] \in Status
    BY DEF TypeOK
  <2>2. published' \in Seq(Status)
    BY <1>5, <2>1 DEF ReadComplete, ResetReading, TypeOK
  <2> QED
    BY <1>5, <2>2 DEF ReadComplete, ResetReading, TypeOK
<1> QED
  BY <1>1, <1>2, <1>3, <1>4, <1>5 DEF ReadTask

LEMMA StepType == IInv /\ [Next]_vars => TypeOK'
<1> SUFFICES ASSUME IInv, [Next]_vars PROVE TypeOK'
  OBVIOUS
<1>0. TypeOK /\ MTypeOK'
  BY StepUses, MStepInv DEF IInv, MInv
<1>1. CASE Tick
  BY <1>0, <1>1, IraccAssumption DEF Tick, TypeOK, Older, Least, busVars
<1>2. CASE Quiet \/ UNCHANGED vars
  BY <1>0, <1>2 DEF Quiet, vars, TypeOK, iraccVars, portVars, readVars, writeVars, busVars
<1>3. CASE CtrlPut
  BY <1>0, <1>3 DEF CtrlPut, TypeOK, portVars, readVars, writeVars
<1>4. CASE Loop
  BY <1>0, <1>4, CallbackType, UnreadyType, WriteTaskType, ReadTaskType DEF Loop
<1> QED
  BY <1>1, <1>2, <1>3, <1>4 DEF Next

-----------------------------------------------------------------------------
(* The inductive invariant: the port and the two tasks *)

\* What is left of a verdict when the port stays open.
LEMMA StaysOpen ==
    ASSUME NEW closes \in BOOLEAN, NEW i, ~closes, ReceiveError(closes, i)
    PROVE  initState' = i /\ UNCHANGED <<state, reopenAge, readVars>>
BY DEF ReceiveError, TooManyErrors

LEMMA ReceiveErrorCloses ==
    ASSUME NEW closes \in BOOLEAN, NEW i, closes, ReceiveError(closes, i)
    PROVE  /\ state' = "close" /\ initState' = "check_status"
           /\ readingState' = "init" /\ readingUnitIndex' = readingUnitIndex
BY DEF ReceiveError, ClosePort

LEMMA PortStep == IInv /\ [Next]_vars => PortAgrees'
<1> SUFFICES ASSUME IInv, [Next]_vars PROVE PortAgrees'
  OBVIOUS
<1> USE DEF PortAgrees, IInv
<1>1. CASE UNCHANGED iraccVars /\ fdOpen' = fdOpen
  BY <1>1 DEF iraccVars, portVars
<1>2. CASE Crash \/ UNCHANGED vars
  <2>1. fdOpen' = fdOpen /\ state' = state
    BY <1>2 DEF Crash, modbusVars, vars, iraccVars, portVars
  <2> QED
    BY <2>1
<1>3. ASSUME UNCHANGED iraccVars,
             NothingToDo \/ NotOpen \/ Send \/ NoFlush \/ Discard \/ Mismatch
             \/ NoInput \/ ReadAnswer \/ ReadGarbled
      PROVE  PortAgrees'
  BY <1>1, <1>3 DEF NothingToDo, NotOpen, Send, NoFlush, Discard, Mismatch, NoInput,
     ReadAnswer, ReadGarbled
<1>4. ASSUME NEW closes \in BOOLEAN, Timeout(closes) \/ IoError(closes), NullVerdict(closes)
      PROVE  PortAgrees'
  <2>1. CASE closes
    <3>1. ~fdOpen'
      BY <1>4, <2>1, Zenon DEF Timeout, IoError, Close
    <3>2. state' = "close"
      BY <1>4, <2>1, ReceiveErrorCloses DEF NullVerdict
    <3> QED
      BY <3>1, <3>2
  <2>2. CASE ~closes
    BY <1>4, <2>2, StaysOpen DEF NullVerdict, Timeout, IoError
  <2> QED
    BY <2>1, <2>2
<1>5. ASSUME NEW closes \in BOOLEAN, Match(closes), Response(closes)
      PROVE  PortAgrees'
  <2>0. fdOpen /\ fdOpen' = ~closes
    BY <1>5, Zenon DEF Match, MatchDue, FlushDue
  <2>1. CASE closes
    <3>1. ReceiveError(closes, FailedState)
      BY <1>5, <2>1 DEF Response, InitialResponse, TaskResponse
    <3>2. state' = "close"
      BY <2>1, <3>1, ReceiveErrorCloses
    <3> QED
      BY <2>0, <2>1, <3>2
  <2>2. CASE ~closes
    <3>1. state' = state
      BY <1>5, <2>2, StaysOpen DEF Response, InitialResponse, TaskResponse, portVars
    <3> QED
      BY <2>0, <2>2, <3>1
  <2> QED
    BY <2>1, <2>2
<1>6. CASE Reopen
  BY <1>6 DEF ReopenDue, Reopen, Open, masterButQueue
<1>7. CASE StayClosed
  BY <1>7 DEF StayClosed, masterButQueue, portVars
<1>8. CASE Initialize
  <2>1. CASE UNCHANGED <<state, masterButQueue>>
    BY <2>1 DEF masterButQueue
  <2>2. CASE state' = "ready" /\ UNCHANGED masterButQueue
    BY <1>8, <2>2 DEF Initialize, masterButQueue
  <2>3. CASE Close /\ ClosePort
    BY <2>3 DEF Close, ClosePort
  <2> QED
    BY <1>8, <2>1, <2>2, <2>3 DEF Initialize, Query, portVars
<1>9. CASE WriteTask
  BY <1>9 DEF WriteTask, WriteReturns, BadBatch, StartBatch, WriteNext, WriteDone,
     WriteAwait, WriteComplete, ResetWriting, Writing, InWriteTask, portVars, masterButQueue
<1>10. CASE ReadTask
  BY <1>10 DEF ReadTask, ReadReturns, ReadUnit, ReadAwait, ReadDone, ReadComplete,
     InReadTask, portVars, masterButQueue
<1>11. CASE Tick \/ Quiet \/ CtrlPut
  <2>1. fdOpen' = fdOpen /\ state' = state
    BY <1>11 DEF Tick, Quiet, CtrlPut, MTick, MQuiet, modbusVars, iraccVars, portVars
  <2> QED
    BY <2>1
<1> QED
  BY <1>1, <1>2, <1>3, <1>4, <1>5, <1>6, <1>7, <1>8, <1>9, <1>10, <1>11
     DEF Next, Loop, ModbusStep

\* The callback and an unready gateway leave an idle task idle, and the write task
\* with the commands it has.
TasksUntouched ==
    /\ readingState' \in {readingState, "init"} /\ readingUnitIndex' = readingUnitIndex
    /\ UNCHANGED <<writingState, writingCommandIndex>>
    /\ Len(cmds') = Len(cmds) /\ cmds' \in Seq(Command)

LEMMA UntouchedInv ==
    ASSUME TypeOK, TaskInv, TasksUntouched
    PROVE  TaskInv'
<1>1. cmds # << >> => cmds' # << >>
  BY DEF TasksUntouched, TypeOK
<1> QED
  BY <1>1 DEF TaskInv, TasksExclude, CommandThere, ReadIdle, WriteIdle, TasksUntouched

LEMMA CallbackTasks == ASSUME TypeOK, ModbusStep PROVE TasksUntouched
<1> USE DEF TasksUntouched, TypeOK, readVars, writeVars
<1>1. CASE UNCHANGED iraccVars
  BY <1>1 DEF iraccVars
<1>2. CASE Crash
  BY <1>2 DEF Crash
<1>3. ASSUME NEW closes \in BOOLEAN, NullVerdict(closes) PROVE TasksUntouched
  BY <1>3, StaysOpen, ReceiveErrorCloses DEF NullVerdict
<1>4. ASSUME NEW closes \in BOOLEAN, Response(closes) PROVE TasksUntouched
  BY <1>4, StaysOpen, ReceiveErrorCloses, AcknowledgedType
     DEF Response, InitialResponse, TaskResponse
<1> QED
  BY <1>1, <1>2, <1>3, <1>4 DEF ModbusStep

LEMMA TaskStep == IInv /\ [Next]_vars => TaskInv'
<1> SUFFICES ASSUME IInv, [Next]_vars PROVE TaskInv'
  OBVIOUS
<1>1. CASE ModbusStep
  BY <1>1, CallbackTasks, UntouchedInv DEF IInv
<1>2. CASE Reopen \/ StayClosed \/ Initialize
  <2>1. TasksUntouched
    BY <1>2 DEF TasksUntouched, IInv, TypeOK, Reopen, ReopenDue, StayClosed, Initialize, Unready, Query,
       ClosePort, portVars, writeVars
  <2> QED
    BY <2>1, UntouchedInv DEF IInv
<1>3. CASE WriteTask
  <2> USE DEF TaskInv, TasksExclude, CommandThere, ReadIdle, WriteIdle, IInv, readVars
  <2>0. /\ cmds \in Seq(Command) /\ Len(cmds) \in Nat /\ writingCommandIndex \in Nat
        /\ cmds # << >> => Len(cmds) > 0
    BY IraccAssumption DEF TypeOK
  <2>1. CASE WriteReturns
    BY <1>3, <2>1 DEF WriteReturns, InWriteTask, writeVars
  <2>2. CASE BadBatch
    BY <1>3, <2>2 DEF BadBatch, InWriteTask
  <2>3. CASE StartBatch
    BY <1>3, <2>3 DEF StartBatch, InWriteTask, MayWrite, WriteCommand
  <2>4. CASE WriteNext
    BY <2>0, <1>3, <2>4 DEF WriteNext, Writing, InWriteTask, MayWrite, WriteCommand, AllWritten
  <2>5. CASE WriteDone \/ WriteComplete
    BY <2>0, <1>3, <2>5 DEF WriteDone, WriteComplete, ResetWriting, Writing, InWriteTask, MayWrite
  <2>6. CASE WriteAwait
    BY <2>0, <1>3, <2>6 DEF WriteAwait, Writing, InWriteTask, MayWrite, AllWritten
  <2> QED
    BY <1>3, <2>1, <2>2, <2>3, <2>4, <2>5, <2>6 DEF WriteTask
<1>4. CASE ReadTask
  <2> USE DEF TaskInv, TasksExclude, CommandThere, ReadIdle, WriteIdle, IInv,
              InReadTask, writeVars
  <2>1. CASE ReadReturns
    BY <2>1 DEF ReadReturns, readVars
  <2>2. CASE ReadUnit \/ ReadAwait \/ ReadDone \/ ReadComplete
    BY <2>2 DEF ReadUnit, ReadAwait, ReadDone, ReadComplete, MayRead
  <2> QED
    BY <1>4, <2>1, <2>2 DEF ReadTask
<1>5. CASE Tick \/ Quiet \/ CtrlPut \/ UNCHANGED vars
  BY <1>5 DEF Tick, Quiet, CtrlPut, vars, iraccVars, readVars, writeVars, IInv,
     TaskInv, TasksExclude, CommandThere, ReadIdle, WriteIdle
<1> QED
  BY <1>1, <1>2, <1>3, <1>4, <1>5 DEF Next, Loop

LEMMA StepInv == IInv /\ [Next]_vars => IInv'
<1> SUFFICES ASSUME IInv, [Next]_vars PROVE IInv'
  OBVIOUS
<1>1. MInv'
  BY StepUses, MStepInv DEF IInv
<1> QED
  BY <1>1, StepType, PortStep, TaskStep DEF IInv

LEMMA Invariance == Spec => []IInv
BY IInitInv, StepInv, PTL DEF Spec

-----------------------------------------------------------------------------
(* What an initialising gateway waits for *)

GatewayQuery    == [code |-> "READ", reg |-> REG_GW_STATUS]
ConnectionQuery == [code |-> "READ", reg |-> REG_IU_CONNECTION]

\* A closed gateway starts over, the queue that Open empties held nothing it needs.
ClosedStartsOver == state = "close" => initState = "check_status"

QInv == InitQueryPending /\ ClosedStartsOver

\* While nothing touches the initialisation, requests only move from the queue to
\* the line.
LEMMA QueryKept ==
    ASSUME IInv, QInv, UNCHANGED <<state, initState>>,
           \/ UNCHANGED <<mbState, lastRequest, queue>>
           \/ Send
           \/ Mismatch
           \/ \E r \in Request : Enqueue(r) /\ UNCHANGED <<mbState, lastRequest>>
    PROVE  QInv'
<1> SUFFICES ASSUME NEW q \in {GatewayQuery, ConnectionQuery},
                    Abandoned \/ Pending(q)
             PROVE  Abandoned' \/ Pending(q)'
  BY DEF QInv, InitQueryPending, ClosedStartsOver, GatewayQuery, ConnectionQuery
<1>1. CASE UNCHANGED <<mbState, lastRequest, queue>>
  BY <1>1 DEF Abandoned, Pending
<1>2. CASE Send
  <2>1. ~Abandoned /\ lastRequest = NoRequest /\ q # NoRequest
    BY <1>2 DEF Send, Abandoned, IInv, MInv, IdleOwnsNoRequest, GatewayQuery,
       ConnectionQuery, NoRequest
  <2>2. PICK i \in DOMAIN queue : queue[i] = q
    BY <2>1 DEF Pending
  <2>3. CASE i = 1
    BY <1>2, <2>2, <2>3 DEF Send, Pending
  <2>4. CASE i # 1
    <3>1. queue \in Seq(Request) /\ i \in 2..Len(queue)
      BY <2>2, <2>4 DEF IInv, TypeOK, MTypeOK
    <3>2. i - 1 \in DOMAIN Tail(queue) /\ Tail(queue)[i - 1] = q
      BY <2>2, <3>1
    <3> QED
      BY <1>2, <3>2 DEF Send, Pending
  <2> QED
    BY <2>3, <2>4
<1>3. CASE Mismatch
  BY <1>3 DEF Mismatch, MismatchDue, Answered, Abandoned
<1>4. ASSUME NEW r \in Request, Enqueue(r), UNCHANGED <<mbState, lastRequest>>
      PROVE  Abandoned' \/ Pending(q)'
  <2>1. \A i \in DOMAIN queue : i \in DOMAIN queue' /\ queue'[i] = queue[i]
    BY <1>4 DEF Enqueue, IInv, TypeOK, MTypeOK
  <2> QED
    BY <1>4, <2>1 DEF Abandoned, Pending
<1> QED
  BY <1>1, <1>2, <1>3, <1>4

LEMMA QueryEnqueued ==
    ASSUME IInv, NEW q \in Request, Enqueue(q)
    PROVE  Pending(q)'
<1>1. queue' = Append(queue, q) /\ queue \in Seq(Request)
  BY DEF Enqueue, IInv, TypeOK, MTypeOK
<1>2. Len(queue') \in DOMAIN queue' /\ queue'[Len(queue')] = q
  BY <1>1
<1> QED
  BY <1>2 DEF Pending

\* A verdict on the query ends the waiting, a verdict on another request leaves the
\* query where it is.
LEMMA VerdictKeepsQuery ==
    ASSUME IInv, QInv, ~DereferencesNull, NEW closes \in BOOLEAN,
           ReceiveError(closes, IF state = "open" THEN FailedState ELSE initState),
           queue' = queue
    PROVE  QInv'
<1>1. CASE closes
  BY <1>1, ReceiveErrorCloses DEF QInv, InitQueryPending, ClosedStartsOver
<1>2. CASE ~closes
  <2>1. /\ initState' = IF state = "open" THEN FailedState ELSE initState
        /\ state' = state
    BY <1>2, StaysOpen
  <2>2. CASE state # "open"
    BY <2>1, <2>2 DEF QInv, InitQueryPending, ClosedStartsOver
  <2>3. CASE state = "open" /\ initState' = initState
    <3> SUFFICES ASSUME NEW q \in {GatewayQuery, ConnectionQuery}, Abandoned \/ Pending(q),
                        initState \in {"check_status_wait", "check_connection_wait"}
                 PROVE  Pending(q)'
      BY <2>1, <2>3 DEF QInv, InitQueryPending, ClosedStartsOver, GatewayQuery, ConnectionQuery
    <3>1. lastRequest # NoRequest
      BY <2>3 DEF DereferencesNull
    <3>2. CASE lastRequest = q
      BY <2>1, <2>3, <3>2 DEF FailedState, GatewayQuery, ConnectionQuery
    <3>3. CASE lastRequest # q
      BY <3>1, <3>3 DEF Abandoned, Pending
    <3> QED
      BY <3>2, <3>3
  <2>4. CASE initState' = "failure" /\ state = "open"
    BY <2>1, <2>4 DEF QInv, InitQueryPending, ClosedStartsOver
  <2> QED
    BY <2>1, <2>2, <2>3, <2>4 DEF FailedState
<1> QED
  BY <1>1, <1>2

LEMMA QueryStep == IInv /\ QInv /\ [Next]_vars => QInv'
<1> SUFFICES ASSUME IInv, QInv, [Next]_vars PROVE QInv'
  OBVIOUS
<1>1. CASE UNCHANGED <<state, initState, mbState, lastRequest, queue>>
  BY <1>1, QueryKept
<1>2. CASE Crash \/ UNCHANGED vars \/ Tick \/ Quiet \/ CtrlPut
  BY <1>1, <1>2 DEF Crash, vars, Tick, Quiet, CtrlPut, MTick, MQuiet, modbusVars, masterVars,
     iraccVars, portVars
<1>3. ASSUME UNCHANGED iraccVars, Send \/ Mismatch PROVE QInv'
  BY <1>3, QueryKept DEF iraccVars, portVars
<1>4. ASSUME UNCHANGED iraccVars,
             NothingToDo \/ NotOpen \/ NoFlush \/ Discard \/ NoInput \/ ReadAnswer \/ ReadGarbled
      PROVE QInv'
  BY <1>1, <1>4 DEF NothingToDo, NotOpen, NoFlush, Discard, NoInput, ReadAnswer, ReadGarbled,
     masterVars, iraccVars, portVars
<1>5. ASSUME NEW closes \in BOOLEAN, Timeout(closes) \/ IoError(closes), NullVerdict(closes)
      PROVE  QInv'
  BY <1>5, VerdictKeepsQuery DEF NullVerdict, Timeout, IoError
<1>6. ASSUME NEW closes \in BOOLEAN, Match(closes), Response(closes)
      PROVE  QInv'
  <2>1. CASE TaskResponse(closes)
    BY <2>1 DEF TaskResponse, portVars, QInv, InitQueryPending, ClosedStartsOver
  <2>2. CASE InitialResponse(closes)
    <3>1. CASE ReceiveError(closes, FailedState)
      <4>1. state = "open" /\ lastRequest # NoRequest
        BY <1>6, <2>2 DEF InitialResponse, Match, MatchDue, Answered
      <4> QED
        BY <1>6, <3>1, <4>1, VerdictKeepsQuery DEF DereferencesNull, Match
    <3>2. CASE initState' \in {"check_connection", "success"} /\ state' = state
      BY <2>2, <3>2 DEF InitialResponse, QInv, InitQueryPending, ClosedStartsOver
    <3> QED
      BY <2>2, <3>1, <3>2 DEF InitialResponse
  <2> QED
    BY <1>6, <2>1, <2>2 DEF Response
<1>7. CASE Reopen
  BY <1>7 DEF ReopenDue, Reopen, QInv, InitQueryPending, ClosedStartsOver
<1>8. CASE StayClosed
  BY <1>8 DEF StayClosed, portVars, QInv, InitQueryPending, ClosedStartsOver
<1>9. CASE Initialize
  <2> USE DEF QInv, InitQueryPending, ClosedStartsOver
  <2>1. CASE Query("check_status", REG_GW_STATUS, "check_status_wait")
    BY <1>9, <2>1, QueryEnqueued, RegistersExist DEF Initialize, Query, GatewayQuery
  <2>2. CASE Query("check_connection", REG_IU_CONNECTION, "check_connection_wait")
    BY <1>9, <2>2, QueryEnqueued, RegistersExist DEF Initialize, Query, ConnectionQuery
  <2>3. CASE UNCHANGED <<portVars, queue, masterButQueue>>
    BY <1>1, <2>3 DEF portVars, masterButQueue, masterVars
  <2>4. CASE state' = "ready"
    BY <2>4
  <2>5. CASE ClosePort
    BY <2>5 DEF ClosePort
  <2> QED
    BY <1>9, <2>1, <2>2, <2>3, <2>4, <2>5 DEF Initialize
<1>10. CASE WriteTask
  BY <1>10 DEF WriteTask, WriteReturns, BadBatch, StartBatch, WriteNext, WriteDone, WriteAwait,
     WriteComplete, ResetWriting, Writing, InWriteTask, portVars, QInv, InitQueryPending, ClosedStartsOver
<1>11. CASE ReadTask
  BY <1>11 DEF ReadTask, ReadReturns, ReadUnit, ReadAwait, ReadDone, ReadComplete, InReadTask,
     portVars, QInv, InitQueryPending, ClosedStartsOver
<1> QED
  BY <1>2, <1>3, <1>4, <1>5, <1>6, <1>7, <1>8, <1>9, <1>10, <1>11 DEF Next, Loop, ModbusStep

-----------------------------------------------------------------------------
(* Whose status is published *)

Own(status) == status.data \in {NoData, status.unitId}

\* What is published was copied from slots with the same property.
OwnSlots == \A i \in Units : Own(slots[i])

OInv == PInv /\ OwnSlots /\ StatusIsOwn

LEMMA OInitInv == Init => OInv
<1> SUFFICES ASSUME Init PROVE OInv
  OBVIOUS
<1>1. PInv
  BY PInitInv DEF Init, MInit0
<1>2. OwnSlots /\ StatusIsOwn
  BY DEF Init, OwnSlots, StatusIsOwn, Own
<1> QED
  BY <1>1, <1>2 DEF OInv

\* The answer that is stored is the answer to the request of that unit.
LEMMA StoredIsOwn ==
    ASSUME TypeOK, OInv, MatchDue
    PROVE  \A i \in Units : Own(StoredStatus[i])
<1>1. CASE StoredStatus = slots
  BY <1>1 DEF OInv, OwnSlots
<1>2. CASE StoredStatus # slots
  <2>1. buffer.to = lastRequest
    BY EmptyIsNoFrame DEF MatchDue, FlushDue, Answered, OInv, PInv, FrameIsCurrent
  <2> DEFINE u == UNIT_ID(lastRequest.reg)
             stored == [unitId |-> u, data |-> u]
  <2>2. StoredStatus = [slots EXCEPT ![u] = stored]
    BY <1>2, <2>1 DEF StoredStatus
  <2>3. Own(stored)
    BY DEF Own
  <2> HIDE DEF u, stored
  <2> QED
    BY <2>2, <2>3 DEF TypeOK, OInv, OwnSlots
<1> QED
  BY <1>1, <1>2

LEMMA OwnKept == ASSUME OInv, UNCHANGED <<slots, published>> PROVE OwnSlots' /\ StatusIsOwn'
BY DEF OInv, OwnSlots, StatusIsOwn, Own

LEMMA OStepInv ==
    ASSUME Prompt, WaitTimeout > 0, IInv, OInv, [Next]_vars
    PROVE  OInv'
<1>1. PInv'
  BY StepUses, PStepInv DEF OInv
<1>2. OwnSlots' /\ StatusIsOwn'
  <2>1. CASE Crash \/ Reopen \/ StayClosed \/ Initialize \/ WriteTask \/ Tick \/ Quiet
             \/ CtrlPut \/ UNCHANGED vars
    <3>1. UNCHANGED <<slots, published>>
      BY <2>1 DEF Crash, Reopen, StayClosed, Initialize, Unready, WriteTask, WriteReturns, BadBatch,
         StartBatch, WriteNext, WriteDone, WriteAwait, WriteComplete, Writing, InWriteTask, Tick,
         Quiet, CtrlPut, vars, iraccVars, busVars
    <3> QED
      BY <3>1, OwnKept
  <2>2. CASE UNCHANGED iraccVars
    BY <2>2, OwnKept DEF iraccVars, busVars
  <2>3. ASSUME NEW closes \in BOOLEAN, NullVerdict(closes) PROVE OwnSlots' /\ StatusIsOwn'
    BY <2>3, OwnKept DEF NullVerdict, busVars
  <2>4. ASSUME NEW closes \in BOOLEAN, Match(closes), Response(closes)
        PROVE  OwnSlots' /\ StatusIsOwn'
    <3>1. published' = published
      BY <2>4 DEF Response, busVars
    <3>2. slots' \in {slots, StoredStatus, [i \in Units |-> NoStatus]}
      BY <2>4 DEF Response, InitialResponse, TaskResponse
    <3>3. Own(NoStatus)
      BY DEF Own, NoStatus
    <3>4. \A i \in Units : Own(slots'[i])
      BY <2>4, <3>2, <3>3, StoredIsOwn DEF OInv, OwnSlots, IInv, Match
    <3> QED
      BY <3>1, <3>4 DEF OInv, OwnSlots, StatusIsOwn, Own
  <2>5. CASE ReadTask
    <3>1. CASE ReadReturns \/ ReadUnit \/ ReadAwait \/ ReadDone
      BY <3>1, OwnKept DEF ReadReturns, ReadUnit, ReadAwait, ReadDone, InReadTask
    <3>2. CASE ReadComplete
      <4>1. slots' = slots /\ published' = [k \in DOMAIN units |-> slots[units[k]]]
        BY <3>2 DEF ReadComplete, InReadTask
      <4>2. \A k \in DOMAIN units : units[k] \in Units
        BY DEF IInv, TypeOK
      <4> QED
        BY <4>1, <4>2 DEF OInv, OwnSlots, StatusIsOwn, Own
    <3> QED
      BY <2>5, <3>1, <3>2 DEF ReadTask
  <2> QED
    BY <2>1, <2>2, <2>3, <2>4, <2>5 DEF Next, Loop, ModbusStep
<1> QED
  BY <1>1, <1>2 DEF OInv

-----------------------------------------------------------------------------
(* Which verdicts crash *)

\* A verdict that dereferences a null pointer finds an open port, hence a gateway that
\* is not closed, and no request.
LEMMA CrashIs ==
    ASSUME IInv, Crash
    PROVE  OnlyInitialisingCrashes'
<1>1. fdOpen /\ state # "close"
  BY DEF Crash, TimeoutDue, IoErrorDue, IInv, PortAgrees
<1>2. state = "open" /\ lastRequest = NoRequest
  BY <1>1 DEF Crash, DereferencesNull
<1>3. mbState = "WaitForResponse" \/ pc = "io_run"
  BY DEF Crash, TimeoutDue, IoErrorDue
<1>4. UNCHANGED <<state, lastRequest, mbState, pc>>
  BY DEF Crash, modbusVars, portVars
<1> QED
  BY <1>2, <1>3, <1>4 DEF OnlyInitialisingCrashes, Abandoned

\* Nothing else reports a crash, and nothing happens after it.
LEMMA CrashStep ==
    ASSUME IInv, OnlyInitialisingCrashes, [Next]_vars
    PROVE  OnlyInitialisingCrashes'
<1>1. CASE UNCHANGED vars
  BY <1>1 DEF vars, modbusVars, iraccVars, portVars, OnlyInitialisingCrashes, Abandoned
<1>2. CASE Crash
  BY <1>2, CrashIs
<1>3. CASE ~crashed /\ ~Crash /\ Next
  <2>1. crashed' = crashed
    <3>1. CASE UNCHANGED iraccVars
      BY <3>1 DEF iraccVars
    <3>2. ASSUME NEW closes \in BOOLEAN, NullVerdict(closes) \/ Response(closes)
          PROVE  crashed' = crashed
      BY <3>2 DEF NullVerdict, Response, InitialResponse, TaskResponse
    <3>3. CASE Reopen \/ StayClosed \/ Initialize \/ ReadTask
      BY <3>3 DEF Reopen, StayClosed, Initialize, Unready, ReadTask, ReadReturns, ReadUnit, ReadAwait,
         ReadDone, ReadComplete, InReadTask
    <3>4. CASE WriteTask
      BY <3>4 DEF WriteTask, WriteReturns, BadBatch, StartBatch, WriteNext, WriteCommand, WriteDone,
         WriteAwait, WriteComplete, Writing
    <3>5. CASE Tick \/ Quiet \/ CtrlPut
      BY <3>1, <3>5 DEF Tick, Quiet, CtrlPut
    <3> QED
      BY <1>3, <3>1, <3>2, <3>3, <3>4, <3>5 DEF Next, Loop, ModbusStep
  <2> QED
    BY <1>3, <2>1 DEF OnlyInitialisingCrashes
<1> QED
  BY <1>1, <1>2, <1>3 DEF Next

-----------------------------------------------------------------------------
(* The theorems *)

\* All the state of the gateway keeps its type and its bounds: no index exceeds the
\* size of its array.
THEOREM TypeCorrect == Spec => []TypeOK
BY Invariance, PTL DEF IInv

\* The read task and the write task never work at the same time (iracc.c:364, 455).
THEOREM TasksNeverOverlap == Spec => []TasksExclude
BY Invariance, PTL DEF IInv, TaskInv

\* The assertion of iracc.c:412 holds: a write task at work has a command.  No slot
\* beyond the one behind the last command is ever looked at, also by a late answer.
THEOREM CommandIsAvailable == Spec => []CommandAvailable
<1>1. IInv => CommandAvailable
  <2> SUFFICES ASSUME IInv PROVE CommandAvailable
    OBVIOUS
  <2>1. writingCommandIndex \in Nat /\ Len(cmds) \in Nat
    BY IraccAssumption DEF IInv, TypeOK
  <2> QED
    BY <2>1 DEF IInv, TaskInv, CommandThere, CommandAvailable, CurrentSlots
<1> QED
  BY <1>1, Invariance, PTL

\* The state of the gateway and the descriptor of the port never disagree.
THEOREM PortAndStateAgree == Spec => []PortAgrees
BY Invariance, PTL DEF IInv

\* An initialising gateway that waits for an answer has a request pending, unless a
\* mismatched answer took it away: nothing else can leave it waiting for nothing.
THEOREM QueryStaysPending == Spec => []InitQueryPending
<1>1. Init => QInv
  <2> SUFFICES ASSUME Init PROVE QInv
    OBVIOUS
  <2>1. initState = "check_status"
    BY DEF Init
  <2> QED
    BY <2>1 DEF QInv, InitQueryPending, ClosedStartsOver
<1>2. QInv => InitQueryPending
  BY DEF QInv
<1> QED
  BY <1>1, <1>2, QueryStep, Invariance, PTL DEF Spec

\* The gateway program is a caller that the Modbus master was verified for: what
\* is proved of MSpec is true of the composition.
THEOREM IraccUsesModbus == Spec => UsesModbus
<1>1. Init => MInit0
  BY DEF Init, MInit0
<1> QED
  BY <1>1, StepUses, Invariance, PTL DEF Spec, UsesModbus, MSpec, MInit0

\* So the composed program executes its requests one at a time and in order.
THEOREM IraccRequestsOneAtATime == Spec => OneAtATime
BY IraccUsesModbus, ModbusIsMaster DEF UsesModbus

\* The status that is published for a unit was read from that unit, although
\* receiveCallback stores every status under the unit it asked last: with a slave
\* that answers in the second of the request.
THEOREM PublishedStatusIsOwn ==
    ASSUME Prompt, WaitTimeout > 0
    PROVE  Spec => []StatusIsOwn
<1>1. IInv /\ OInv /\ [Next]_vars => OInv'
  BY OStepInv
<1>2. OInv => StatusIsOwn
  BY DEF OInv
<1> QED
  BY OInitInv, <1>1, <1>2, Invariance, PTL DEF Spec

\* A null pointer is only dereferenced while the gateway initialises, by a verdict
\* without a request (iracc.c:269), and never for the response at iracc.c:308: whatever
\* the slave and the line do.
THEOREM CrashesOnlyInitialising == Spec => []OnlyInitialisingCrashes
<1>1. Init => OnlyInitialisingCrashes
  BY DEF Init, OnlyInitialisingCrashes
<1>2. IInv /\ OnlyInitialisingCrashes /\ [Next]_vars => OnlyInitialisingCrashes'
  BY CrashStep
<1> QED
  BY <1>1, <1>2, Invariance, PTL DEF Spec
=============================================================================
