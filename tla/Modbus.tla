------------------------------- MODULE Modbus -------------------------------
(***************************************************************************)
(* The Modbus RTU master of src/iracc/modbus.c with the stream reader of   *)
(* src/iracc/iokit.c it runs on, the serial line and the slave behind it.  *)
(*                                                                         *)
(* The program is one thread that repeats                                  *)
(*     iracc_run { modbus_run { switch; IO_RUN }; tasks }; io_run          *)
(* and pc says which of the four parts comes next.  Time passes between    *)
(* any two of them.  receiveCallback may close the port: the actions in    *)
(* which it is called take that decision, "closes", as a parameter, and    *)
(* Iracc.tla supplies it.                                                  *)
(***************************************************************************)
EXTENDS Integers, Sequences

CONSTANTS
    Reg,          \* the registers that the program accesses
    QueueCap,     \* requests that fit in the fifo (31)
    WaitTimeout,  \* DEFAULT_WAIT_RESPONSE_TIMEOUT, in seconds (1)
    LineCap,      \* bound: requests the slave may be working on
    Faults,       \* the faults that the line and the slave may have
    Prompt        \* TRUE: an answer comes in the second of its request and
                  \* before the port is reopened, or not at all

Fault == {"lost", "exception", "garbled", "io_error"}

ASSUME ModbusAssumption ==
    /\ QueueCap \in Nat \ {0}
    /\ WaitTimeout \in Nat
    /\ LineCap \in Nat
    /\ Faults \subseteq Fault
    /\ Prompt \in BOOLEAN

Request == [code : {"READ", "PRESET"}, reg : Reg]
NoRequest == [code |-> "NONE", reg |-> -1]

\* An answer: its function code, and the request that the slave answered.
Frame == [code : {"READ", "PRESET", "EXCEPTION"}, to : Request]

\* What the reader's buffer holds: nothing, the bytes of exactly one frame, or
\* bytes that modbus_recv rejects.  Two frames in one buffer are rejected too:
\* the CRC of the first one leaves 0 where the second one needs 0xFFFF.
Empty   == [code |-> "EMPTY",   to |-> NoRequest]
Garbled == [code |-> "GARBLED", to |-> NoRequest]

VARIABLES
    pc,           \* the part of the main loop that runs next
    fdOpen,       \* reader.fd >= 0
    mbState,      \* modbus.state
    lastRequest,  \* modbus.lastRequest
    sendAge,      \* seconds since lastRequestSendTime, while waiting
    queue,        \* modbus.fifo
    buffer,       \* the reader's buffer
    silence,      \* 2 once nothing was read for the reader's 300 ms
    line          \* the requests whose answer is still to come

modbusVars == <<pc, fdOpen, mbState, lastRequest, sendAge, queue, buffer, silence, line>>

readerVars == <<buffer, silence>>
masterVars == <<mbState, lastRequest, sendAge>>

Least(a, b) == IF a < b THEN a ELSE b

MInit(open) ==
    /\ pc = "modbus_run"
    /\ fdOpen = open
    /\ mbState = "Idle" /\ lastRequest = NoRequest /\ sendAge = 0
    /\ queue = << >>
    /\ buffer = Empty /\ silence = 0
    /\ line = << >>

-----------------------------------------------------------------------------
(* What other parts call *)

\* modbus_init on a fresh descriptor: the context is zeroed, with its queue.
Open ==
    /\ fdOpen' = TRUE
    /\ mbState' = "Idle" /\ lastRequest' = NoRequest /\ sendAge' = 0
    /\ queue' = << >>
    /\ buffer' = Empty /\ silence' = 0
    /\ line' = IF Prompt THEN << >> ELSE line

\* Mutants: the master is not reset, or the reader is not reset.
Close_KeepsState ==
    /\ fdOpen' = FALSE
    /\ buffer' = Empty /\ silence' = 0
    /\ UNCHANGED <<mbState, sendAge>>

Close_KeepsDescriptor ==
    /\ mbState' = "Idle"
    /\ sendAge' = 0
    /\ UNCHANGED <<fdOpen, readerVars>>

\* modbus_close: the reader is freed and the state reset, nothing else.
Close ==
    /\ fdOpen' = FALSE
    /\ mbState' = "Idle"
    /\ sendAge' = 0
    /\ buffer' = Empty /\ silence' = 0

QueueFull == Len(queue) = QueueCap

\* Mutant: the result of fifo_push is not looked at.
Enqueue_Unchecked(r) == queue' = Append(queue, r)

Enqueue(r) ==
    /\ ~QueueFull
    /\ queue' = Append(queue, r)

-----------------------------------------------------------------------------
(* modbus_run, the switch *)

NothingToDo ==
    /\ pc = "modbus_run"
    /\ fdOpen
    /\ \/ mbState = "Idle" /\ queue = << >>
       \/ mbState = "WaitForResponse" /\ sendAge <= WaitTimeout
    /\ pc' = "IO_RUN"
    /\ UNCHANGED <<fdOpen, masterVars, queue, readerVars, line>>

\* The descriptor is closed: modbus_run returns.
NotOpen ==
    /\ pc = "modbus_run"
    /\ ~fdOpen
    /\ pc' = "tasks"
    /\ UNCHANGED <<fdOpen, masterVars, queue, readerVars, line>>

\* The head of the queue is written to the line; the result of write is only
\* logged, so a request that never leaves looks like one that does.
Send ==
    /\ pc = "modbus_run"
    /\ fdOpen /\ mbState = "Idle" /\ queue # << >>
    /\ lastRequest' = Head(queue)
    /\ queue' = Tail(queue)
    /\ mbState' = "WaitForResponse"
    /\ sendAge' = 0
    /\ line' \in (IF Len(line) < LineCap THEN {Append(line, Head(queue))} ELSE {})
                 \cup (IF Len(line) >= LineCap \/ "lost" \in Faults THEN {line} ELSE {})
    /\ pc' = "IO_RUN"
    /\ UNCHANGED <<fdOpen, readerVars>>

\* Mutants: the timeout strikes a second early, or only for a request that is
\* still owned.
TimeoutDue_Early ==
    /\ pc = "modbus_run"
    /\ fdOpen /\ mbState = "WaitForResponse" /\ sendAge >= WaitTimeout

TimeoutDue_NeedsRequest ==
    /\ pc = "modbus_run"
    /\ fdOpen /\ mbState = "WaitForResponse" /\ sendAge > WaitTimeout
    /\ lastRequest # NoRequest

TimeoutDue ==
    /\ pc = "modbus_run"
    /\ fdOpen /\ mbState = "WaitForResponse" /\ sendAge > WaitTimeout

\* Mutant: the freed request is not forgotten.
Timeout_KeepsRequest(closes) ==
    /\ TimeoutDue
    /\ mbState' = "Idle" /\ sendAge' = 0
    /\ fdOpen' = ~closes
    /\ IF closes THEN buffer' = Empty /\ silence' = 0 ELSE UNCHANGED readerVars
    /\ pc' = "IO_RUN"
    /\ UNCHANGED <<lastRequest, queue, line>>

\* receiveCallback(lastRequest, NULL), then the request is freed.
Timeout(closes) ==
    /\ TimeoutDue
    /\ mbState' = "Idle" /\ lastRequest' = NoRequest /\ sendAge' = 0
    /\ IF closes THEN fdOpen' = FALSE /\ buffer' = Empty /\ silence' = 0
                 ELSE UNCHANGED <<fdOpen, readerVars>>
    /\ pc' = "IO_RUN"
    /\ UNCHANGED <<queue, line>>

-----------------------------------------------------------------------------
(* modbus_run, IO_RUN: the reader hands over its buffer after the silence *)

FlushDue == pc = "IO_RUN" /\ fdOpen /\ buffer # Empty /\ silence = 2

NoFlush ==
    /\ pc = "IO_RUN" /\ ~FlushDue
    /\ pc' = "tasks"
    /\ UNCHANGED <<fdOpen, masterVars, queue, readerVars, line>>

\* _reader_callback has a request in flight and a well-formed response.
Answered == mbState = "WaitForResponse" /\ lastRequest # NoRequest /\ buffer \in Frame

\* Address and function code are all that is compared.
Matches == buffer.code = lastRequest.code

MatchDue    == FlushDue /\ Answered /\ Matches
MismatchDue == FlushDue /\ Answered /\ ~Matches

\* Idle, nothing in flight, or a bad frame: the buffer is discarded.
Discard ==
    /\ FlushDue /\ ~Answered
    /\ buffer' = Empty /\ silence' = 0
    /\ pc' = "tasks"
    /\ UNCHANGED <<fdOpen, masterVars, queue, line>>

\* Mutant: the state is not reset with the request.
Match_KeepsState(closes) ==
    /\ MatchDue
    /\ lastRequest' = NoRequest
    /\ buffer' = Empty /\ silence' = 0
    /\ fdOpen' = ~closes
    /\ pc' = "tasks"
    /\ UNCHANGED <<mbState, sendAge, queue, line>>

\* receiveCallback(lastRequest, response); a port closed by it is idle as well.
Match(closes) ==
    /\ MatchDue
    /\ mbState' = "Idle" /\ lastRequest' = NoRequest /\ sendAge' = 0
    /\ buffer' = Empty /\ silence' = 0
    /\ fdOpen' = ~closes
    /\ pc' = "tasks"
    /\ UNCHANGED <<queue, line>>

\* The response is dropped and the request freed; the state stays.
Mismatch ==
    /\ MismatchDue
    /\ lastRequest' = NoRequest
    /\ buffer' = Empty /\ silence' = 0
    /\ pc' = "tasks"
    /\ UNCHANGED <<fdOpen, mbState, sendAge, queue, line>>

-----------------------------------------------------------------------------
(* io_run: select, and the callback of the one descriptor *)

NoInput ==
    /\ pc = "io_run"
    /\ pc' = "modbus_run"
    /\ UNCHANGED <<fdOpen, masterVars, queue, readerVars, line>>

\* Frames read without a silence between them end up in one buffer.
Buffered(f) == IF buffer = Empty THEN f ELSE Garbled

Answers(r) == {[code |-> r.code, to |-> r]}
              \cup (IF "exception" \in Faults THEN {[code |-> "EXCEPTION", to |-> r]} ELSE {})

ReadAnswer ==
    /\ pc = "io_run" /\ fdOpen /\ line # << >>
    /\ \E f \in Answers(Head(line)) : buffer' = Buffered(f)
    /\ silence' = 0
    /\ line' = Tail(line)
    /\ pc' = "modbus_run"
    /\ UNCHANGED <<fdOpen, masterVars, queue>>

\* An answer damaged on its way, or noise.  Noise that fills the buffer is
\* handed over, and rejected, at once.
ReadGarbled ==
    /\ pc = "io_run" /\ fdOpen /\ "garbled" \in Faults
    /\ line' \in {line} \cup (IF line = << >> THEN {} ELSE {Tail(line)})
    /\ \/ buffer' = Garbled
       \/ buffer = Garbled /\ buffer' = Empty
    /\ silence' = 0
    /\ pc' = "modbus_run"
    /\ UNCHANGED <<fdOpen, masterVars, queue>>

IoErrorDue == pc = "io_run" /\ fdOpen /\ "io_error" \in Faults

\* read fails, or select reports an exceptional condition of the descriptor: the
\* request in flight, if any, gets a verdict and stays in flight.  A select that
\* fails itself only returns, like one without input.
IoError(closes) ==
    /\ IoErrorDue
    /\ IF closes THEN Close ELSE UNCHANGED <<fdOpen, mbState, sendAge, readerVars>>
    /\ pc' = "modbus_run"
    /\ UNCHANGED <<lastRequest, queue, line>>

-----------------------------------------------------------------------------
(* Time *)

\* A second passes: seconds are counted while a request waits for its answer,
\* and two of them without a byte are more than the silence.
MTick ==
    /\ sendAge' = IF mbState = "Idle" THEN 0 ELSE Least(sendAge + 1, WaitTimeout + 1)
    /\ silence' = IF buffer = Empty THEN 0 ELSE Least(silence + 1, 2)
    /\ line' = IF Prompt THEN << >> ELSE line
    /\ UNCHANGED <<pc, fdOpen, mbState, lastRequest, queue, buffer>>

\* The reader's 300 ms pass within a second.
MQuiet ==
    /\ buffer # Empty /\ silence < 2
    /\ silence' = 2
    /\ UNCHANGED <<pc, fdOpen, masterVars, queue, buffer, line>>

-----------------------------------------------------------------------------
(* The component on its own, under callers that may do anything *)

CallerStep ==
    /\ pc = "tasks"
    /\ pc' \in {"tasks", "io_run"}
    /\ \/ UNCHANGED <<fdOpen, masterVars, queue, readerVars, line>>
       \/ ~fdOpen /\ Open
       \/ fdOpen /\ Close /\ UNCHANGED <<lastRequest, queue, line>>
       \/ /\ \E r \in Request : Enqueue(r)
          /\ UNCHANGED <<fdOpen, masterVars, readerVars, line>>

MLoop ==
    \/ NothingToDo \/ NotOpen \/ Send \/ NoFlush \/ Discard \/ Mismatch
    \/ NoInput \/ ReadAnswer \/ ReadGarbled
    \/ \E closes \in BOOLEAN : Timeout(closes) \/ Match(closes) \/ IoError(closes)
    \/ CallerStep

MNext == MLoop \/ MTick \/ MQuiet

MSpec == (\E open \in BOOLEAN : MInit(open)) /\ [][MNext]_modbusVars

\* The thread keeps running, its callers return, and the clock advances.
MFairSpec == /\ MSpec
             /\ WF_modbusVars(MLoop /\ pc' # pc)
             /\ WF_modbusVars(MTick)

-----------------------------------------------------------------------------
(* Properties *)

MTypeOK ==
    /\ pc \in {"modbus_run", "IO_RUN", "tasks", "io_run"}
    /\ fdOpen \in BOOLEAN
    /\ mbState \in {"Idle", "WaitForResponse"}
    /\ lastRequest \in Request \cup {NoRequest}
    /\ sendAge \in 0..WaitTimeout + 1
    /\ queue \in Seq(Request) /\ Len(queue) <= QueueCap
    /\ buffer \in Frame \cup {Empty, Garbled}
    /\ silence \in 0..2
    /\ line \in Seq(Request) /\ Len(line) <= LineCap

\* However the callback closes the port, from a timeout, from a response or from
\* an error in io_run, no part of the loop finds an open state behind it.
ClosedIsQuiet == ~fdOpen => mbState = "Idle" /\ buffer = Empty

Master == INSTANCE ModbusMaster
    WITH waiting <- IF fdOpen THEN queue ELSE << >>,
         current <- IF fdOpen THEN lastRequest ELSE NoRequest,
         None <- NoRequest, Cap <- QueueCap

\* Requests are executed one at a time, in order, at most once, although the
\* callback may close the port in the middle of modbus_run.
OneAtATime == Master!Spec

\* The answer that waits in the buffer while a request is in flight is its own.
\* modbus.c:245 only compares function codes, so this rests on the timing: it
\* holds for a prompt slave as long as the timeout outlasts the silence.
AnswersArePaired ==
    mbState = "WaitForResponse" /\ lastRequest # NoRequest /\ buffer \in Frame
        => buffer.to = lastRequest

\* No request is waited for forever: whatever the slave sends or does not send,
\* the master becomes idle again and can take the next request.
WaitEnds == mbState = "WaitForResponse" ~> mbState = "Idle"

\* modbus.c:237 calls it an illegal state to get a response while waiting without
\* a request.  The code reaches it: a response of another function code frees
\* the request and keeps waiting.
ResponseHasRequest == FlushDue /\ mbState = "WaitForResponse" => lastRequest # NoRequest
=============================================================================
