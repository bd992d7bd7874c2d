---------------------------- MODULE ModbusProofs ----------------------------
(***************************************************************************)
(* Proofs about Modbus for all registers, capacities, timeouts and faults. *)
(***************************************************************************)
EXTENDS Modbus, TLAPS

MInit0 == \E open \in BOOLEAN : MInit(open)

\* modbus_run overwrites lastRequest when it is idle: an open, idle master owns
\* no request that would be lost there.
IdleOwnsNoRequest == fdOpen /\ mbState = "Idle" => lastRequest = NoRequest

MInv == MTypeOK /\ IdleOwnsNoRequest /\ ClosedIsQuiet

-----------------------------------------------------------------------------
(* The inductive invariant *)

LEMMA NoRequestIsNone == NoRequest \notin Request
BY DEF NoRequest, Request

LEMMA EmptyIsNoFrame == Empty \notin Frame /\ Garbled \notin Frame /\ Empty # Garbled
BY DEF Empty, Garbled, Frame

LEMMA AnswersAreFrames == \A r \in Request : Answers(r) \subseteq Frame
BY DEF Answers, Frame, Request

LEMMA MInitInv == MInit0 => MInv
BY ModbusAssumption
   DEF MInit0, MInit, MInv, MTypeOK, IdleOwnsNoRequest, ClosedIsQuiet

LEMMA ClosedInv ==
    ASSUME MInv, Close, UNCHANGED <<queue, line>>,
           pc' \in {"modbus_run", "IO_RUN", "tasks", "io_run"},
           lastRequest' \in Request \cup {NoRequest}
    PROVE  MInv'
<1>0. fdOpen' \in BOOLEAN
  BY Zenon DEF Close
<1>1. MTypeOK'
  BY <1>0, ModbusAssumption DEF MInv, MTypeOK, Close
<1>2. ~fdOpen'
  BY Zenon DEF Close
<1>3. IdleOwnsNoRequest' /\ ClosedIsQuiet'
  BY <1>2 DEF IdleOwnsNoRequest, ClosedIsQuiet, Close
<1> QED
  BY <1>1, <1>3 DEF MInv

LEMMA MStepInv == MInv /\ [MNext]_modbusVars => MInv'
<1> SUFFICES ASSUME MInv, [MNext]_modbusVars PROVE MInv'
  OBVIOUS
<1> USE ModbusAssumption, NoRequestIsNone, EmptyIsNoFrame
    DEF MInv, MTypeOK, IdleOwnsNoRequest, ClosedIsQuiet, masterVars, readerVars
<1>1. CASE NothingToDo \/ NotOpen \/ NoFlush \/ NoInput
  BY <1>1 DEF NothingToDo, NotOpen, NoFlush, NoInput
<1>2. CASE Send
  <2>1. Head(queue) \in Request /\ Tail(queue) \in Seq(Request) /\ Len(Tail(queue)) <= QueueCap
    BY <1>2 DEF Send
  <2>2. line' \in Seq(Request) /\ Len(line') <= LineCap
    BY <1>2, <2>1 DEF Send
  <2> QED
    BY <1>2, <2>1, <2>2 DEF Send
<1>3. CASE Discard
  BY <1>3 DEF Discard, FlushDue
<1>4. CASE Mismatch
  BY <1>4 DEF Mismatch, MismatchDue, FlushDue, Answered
<1>5. CASE ReadAnswer
  <2>1. Head(line) \in Request /\ line' \in Seq(Request) /\ Len(line') <= LineCap
    BY <1>5 DEF ReadAnswer
  <2>2. buffer' \in Frame \cup {Garbled}
    BY <1>5, <2>1, AnswersAreFrames DEF ReadAnswer, Buffered
  <2> QED
    BY <1>5, <2>1, <2>2 DEF ReadAnswer
<1>6. CASE ReadGarbled
  <2>1. line' \in Seq(Request) /\ Len(line') <= LineCap
    BY <1>6 DEF ReadGarbled
  <2> QED
    BY <1>6, <2>1 DEF ReadGarbled
<1>7. ASSUME NEW closes \in BOOLEAN, Timeout(closes) PROVE MInv'
  <2>1. CASE closes
    BY <1>7, <2>1, ClosedInv DEF Timeout, Close
  <2>2. CASE ~closes
    BY <1>7, <2>2 DEF Timeout, TimeoutDue
  <2> QED
    BY <2>1, <2>2
<1>8. ASSUME NEW closes \in BOOLEAN, Match(closes) PROVE MInv'
  BY <1>8 DEF Match, MatchDue, FlushDue, Answered
<1>9. ASSUME NEW closes \in BOOLEAN, IoError(closes) PROVE MInv'
  <2>1. CASE closes
    BY <1>9, <2>1, ClosedInv DEF IoError
  <2>2. CASE ~closes
    BY <1>9, <2>2 DEF IoError, IoErrorDue
  <2> QED
    BY <2>1, <2>2
<1>10. CASE CallerStep
  <2>1. CASE UNCHANGED <<fdOpen, masterVars, queue, readerVars, line>>
    BY <1>10, <2>1 DEF CallerStep
  <2>2. CASE ~fdOpen /\ Open
    BY <1>10, <2>2 DEF CallerStep, Open
  <2>3. CASE fdOpen /\ Close /\ UNCHANGED <<lastRequest, queue, line>>
    BY <1>10, <2>3, ClosedInv DEF CallerStep
  <2>4. ASSUME NEW r \in Request, Enqueue(r), UNCHANGED <<fdOpen, masterVars, readerVars, line>>
        PROVE MInv'
    <3>1. queue' \in Seq(Request) /\ Len(queue') <= QueueCap
      BY <2>4 DEF Enqueue, QueueFull
    <3> QED
      BY <1>10, <2>4, <3>1 DEF CallerStep
  <2> QED
    BY <1>10, <2>1, <2>2, <2>3, <2>4 DEF CallerStep
<1>11. CASE MTick
  <2>1. line' \in Seq(Request) /\ Len(line') <= LineCap
    BY <1>11 DEF MTick
  <2> QED
    BY <1>11, <2>1 DEF MTick, Least
<1>12. CASE MQuiet
  BY <1>12 DEF MQuiet
<1>13. CASE UNCHANGED modbusVars
  BY <1>13 DEF modbusVars
<1> QED
  BY <1>1, <1>2, <1>3, <1>4, <1>5, <1>6, <1>7, <1>8, <1>9, <1>10, <1>11, <1>12, <1>13
     DEF MNext, MLoop

LEMMA MInvariance == MSpec => []MInv
BY MInitInv, MStepInv, PTL DEF MSpec, MInit0

\* The master's state keeps its type and its bounds.
THEOREM MTypeCorrect == MSpec => []MTypeOK
BY MInvariance, PTL DEF MInv

\* modbus_run never overwrites a request it still owns (modbus.c:72).
THEOREM NoRequestOverwritten == MSpec => []IdleOwnsNoRequest
BY MInvariance, PTL DEF MInv

\* Whoever closes the port, the master is idle and its reader empty afterwards.
THEOREM ClosedStaysQuiet == MSpec => []ClosedIsQuiet
BY MInvariance, PTL DEF MInv

-----------------------------------------------------------------------------
(* Modbus implements ModbusMaster *)

LEMMA MInitRefines == MInit0 => Master!Init
BY DEF MInit0, MInit, Master!Init

LEMMA MStepRefines == MInv /\ [MNext]_modbusVars => [Master!Next]_Master!vars
<1> SUFFICES ASSUME MInv, [MNext]_modbusVars PROVE Master!Next \/ UNCHANGED Master!vars
  OBVIOUS
<1> USE DEF Master!vars, masterVars, readerVars
<1>1. CASE NothingToDo \/ NotOpen \/ NoFlush \/ NoInput
  BY <1>1 DEF NothingToDo, NotOpen, NoFlush, NoInput
<1>2. CASE Send
  <2>1. Master!Begin
    BY <1>2 DEF Send, Master!Begin, MInv, IdleOwnsNoRequest
  <2> QED
    BY <2>1 DEF Master!Next
<1>3. CASE Discard
  BY <1>3 DEF Discard
<1>4. CASE Mismatch
  <2>1. Master!End
    BY <1>4 DEF Mismatch, MismatchDue, FlushDue, Answered, Master!End
  <2> QED
    BY <2>1 DEF Master!Next
<1>5. CASE ReadAnswer \/ ReadGarbled
  BY <1>5 DEF ReadAnswer, ReadGarbled
<1>6. ASSUME NEW closes \in BOOLEAN, Timeout(closes)
      PROVE Master!Next \/ UNCHANGED Master!vars
  <2>1. CASE closes
    BY <1>6, <2>1 DEF Timeout, Master!Next, Master!Drop
  <2>2. CASE ~closes
    BY <1>6, <2>2 DEF Timeout, TimeoutDue, Master!Next, Master!End
  <2> QED
    BY <2>1, <2>2
<1>7. ASSUME NEW closes \in BOOLEAN, Match(closes) PROVE Master!Next
  <2>1. CASE closes
    BY <1>7, <2>1 DEF Match, Master!Next, Master!Drop
  <2>2. CASE ~closes
    BY <1>7, <2>2 DEF Match, MatchDue, FlushDue, Answered, Master!Next, Master!End
  <2> QED
    BY <2>1, <2>2
<1>8. ASSUME NEW closes \in BOOLEAN, IoError(closes)
      PROVE Master!Next \/ UNCHANGED Master!vars
  <2>1. CASE closes
    BY <1>8, <2>1 DEF IoError, Close, Master!Next, Master!Drop
  <2>2. CASE ~closes
    BY <1>8, <2>2 DEF IoError
  <2> QED
    BY <2>1, <2>2
<1>9. CASE CallerStep
  <2>1. CASE UNCHANGED <<fdOpen, masterVars, queue, readerVars, line>>
    BY <2>1
  <2>2. CASE ~fdOpen /\ Open
    BY <2>2 DEF Open
  <2>3. CASE fdOpen /\ Close /\ UNCHANGED <<lastRequest, queue, line>>
    BY <2>3 DEF Close, Master!Next, Master!Drop
  <2>4. ASSUME NEW r \in Request, Enqueue(r), UNCHANGED <<fdOpen, masterVars, readerVars, line>>
        PROVE Master!Next \/ UNCHANGED Master!vars
    <3>1. CASE fdOpen
      <4>1. Len(queue) < QueueCap
        BY <2>4, ModbusAssumption DEF Enqueue, QueueFull, MInv, MTypeOK
      <4>2. Master!Submit(r)
        BY <2>4, <3>1, <4>1 DEF Enqueue, Master!Submit
      <4> QED
        BY <4>2 DEF Master!Next
    <3>2. CASE ~fdOpen
      BY <2>4, <3>2
    <3> QED
      BY <3>1, <3>2
  <2> QED
    BY <1>9, <2>1, <2>2, <2>3, <2>4 DEF CallerStep
<1>10. CASE MTick \/ MQuiet
  BY <1>10 DEF MTick, MQuiet
<1>11. CASE UNCHANGED modbusVars
  BY <1>11 DEF modbusVars
<1> QED
  BY <1>1, <1>2, <1>3, <1>4, <1>5, <1>6, <1>7, <1>8, <1>9, <1>10, <1>11 DEF MNext, MLoop

\* modbus.c executes requests one at a time, in the order they were accepted and
\* at most once, for every queue capacity, timeout, fault and callback.
THEOREM ModbusIsMaster == MSpec => OneAtATime
BY MInitRefines, MStepRefines, MInvariance, PTL DEF MSpec, MInit0, OneAtATime, Master!Spec

-----------------------------------------------------------------------------
(* Pairing of answers with requests *)

\* What a prompt slave still owes is the answer to the request in flight, sent
\* in this second.
OwesCurrent ==
    fdOpen /\ line # << >> =>
        /\ mbState = "WaitForResponse" /\ sendAge = 0
        /\ lastRequest # NoRequest /\ line = <<lastRequest>>
        /\ buffer \notin Frame

\* A frame in the buffer is as old as the request in flight, which it answers;
\* once that request has timed out the frame is discarded before anything is sent.
FrameIsCurrent ==
    fdOpen /\ buffer \in Frame =>
        \/ /\ mbState = "WaitForResponse" /\ lastRequest = buffer.to
           /\ sendAge <= silence \/ silence = 2
        \/ mbState = "Idle" /\ silence = 2 /\ pc = "IO_RUN"

PInv == MInv /\ OwesCurrent /\ FrameIsCurrent

LEMMA PInitInv == MInit0 => PInv
BY MInitInv, EmptyIsNoFrame DEF MInit0, MInit, PInv, OwesCurrent, FrameIsCurrent

LEMMA ClosedPInv == ASSUME MInv', Close PROVE PInv'
<1>1. ~fdOpen'
  BY Zenon DEF Close
<1> QED
  BY <1>1 DEF PInv, OwesCurrent, FrameIsCurrent

LEMMA PStepInv ==
    ASSUME Prompt, WaitTimeout > 0, PInv, [MNext]_modbusVars
    PROVE  PInv'
<1>0. MInv'
  BY MStepInv DEF PInv
<1> USE <1>0, ModbusAssumption, NoRequestIsNone, EmptyIsNoFrame
    DEF PInv, OwesCurrent, FrameIsCurrent, MInv, MTypeOK, masterVars, readerVars
<1>1. CASE NothingToDo \/ NotOpen \/ NoFlush \/ NoInput
  BY <1>1 DEF NothingToDo, NotOpen, NoFlush, NoInput, FlushDue
<1>2. CASE Send
  <2>1. line = << >> /\ buffer \notin Frame
    BY <1>2 DEF Send
  <2>2. Head(queue) \in Request
    BY <1>2 DEF Send
  <2>3. line' = << >> \/ line' = <<lastRequest'>>
    BY <1>2, <2>1 DEF Send
  <2> QED
    BY <1>2, <2>1, <2>2, <2>3 DEF Send
<1>3. CASE Discard
  BY <1>3 DEF Discard, FlushDue
<1>4. CASE Mismatch
  BY <1>4 DEF Mismatch, MismatchDue, FlushDue, Answered
<1>5. CASE ReadAnswer
  <2>1. line = <<lastRequest>> /\ lastRequest \in Request /\ line' = << >> /\ sendAge = 0
    BY <1>5 DEF ReadAnswer
  <2>2. \A f \in Answers(Head(line)) : f.to = lastRequest
    BY <2>1 DEF Answers
  <2>3. PICK f \in Answers(Head(line)) : buffer' = Buffered(f)
    BY <1>5 DEF ReadAnswer
  <2>4. f \in Frame /\ f.to = lastRequest
    BY <2>1, <2>2, AnswersAreFrames
  <2>5. buffer' = Garbled \/ buffer' = f
    BY <2>3 DEF Buffered
  <2> QED
    BY <1>5, <2>1, <2>4, <2>5 DEF ReadAnswer
<1>6. CASE ReadGarbled
  <2>1. buffer' \notin Frame
    BY <1>6 DEF ReadGarbled
  <2>2. line' # << >> => line' = line
    BY <1>6 DEF ReadGarbled
  <2> QED
    BY <1>6, <2>1, <2>2 DEF ReadGarbled
<1>7. ASSUME NEW closes \in BOOLEAN, Timeout(closes) PROVE PInv'
  <2>1. CASE closes
    BY <1>7, <2>1, ClosedPInv DEF Timeout, Close
  <2>2. CASE ~closes
    BY <1>7, <2>2 DEF Timeout, TimeoutDue
  <2> QED
    BY <2>1, <2>2
<1>8. ASSUME NEW closes \in BOOLEAN, Match(closes) PROVE PInv'
  BY <1>8 DEF Match, MatchDue, FlushDue, Answered
<1>9. ASSUME NEW closes \in BOOLEAN, IoError(closes) PROVE PInv'
  <2>1. CASE closes
    BY <1>9, <2>1, ClosedPInv DEF IoError
  <2>2. CASE ~closes
    BY <1>9, <2>2 DEF IoError, IoErrorDue
  <2> QED
    BY <2>1, <2>2
<1>10. CASE CallerStep
  <2>1. CASE UNCHANGED <<fdOpen, masterVars, queue, readerVars, line>>
    BY <1>10, <2>1 DEF CallerStep
  <2>2. CASE ~fdOpen /\ Open
    BY <2>2 DEF Open
  <2>3. CASE fdOpen /\ Close /\ UNCHANGED <<lastRequest, queue, line>>
    BY <2>3, ClosedPInv
  <2>4. ASSUME NEW r \in Request, Enqueue(r), UNCHANGED <<fdOpen, masterVars, readerVars, line>>
        PROVE PInv'
    BY <1>10, <2>4 DEF CallerStep
  <2> QED
    BY <1>10, <2>1, <2>2, <2>3, <2>4 DEF CallerStep
<1>11. CASE MTick
  <2>1. line' = << >> /\ UNCHANGED <<pc, fdOpen, mbState, lastRequest, buffer>>
    BY <1>11 DEF MTick
  <2>2. mbState = "WaitForResponse" /\ sendAge <= silence /\ buffer # Empty
           => sendAge' <= silence' \/ silence' = 2
    BY <1>11 DEF MTick, Least
  <2>3. silence = 2 /\ buffer # Empty => silence' = 2
    BY <1>11 DEF MTick, Least
  <2> QED
    BY <2>1, <2>2, <2>3
<1>12. CASE MQuiet
  BY <1>12 DEF MQuiet
<1>13. CASE UNCHANGED modbusVars
  BY <1>13 DEF modbusVars
<1> QED
  BY <1>1, <1>2, <1>3, <1>4, <1>5, <1>6, <1>7, <1>8, <1>9, <1>10, <1>11, <1>12, <1>13
     DEF MNext, MLoop

\* When the slave answers in the second of the request and the timeout is at least
\* one second, no answer is ever taken for that of another request, although only
\* the function codes are compared (modbus.c:245).
THEOREM PromptAnswersArePaired ==
    ASSUME Prompt, WaitTimeout > 0
    PROVE  MSpec => []AnswersArePaired
<1>1. PInv /\ [MNext]_modbusVars => PInv'
  BY PStepInv
<1>2. PInv => AnswersArePaired
  BY EmptyIsNoFrame DEF PInv, MInv, ClosedIsQuiet, FrameIsCurrent, AnswersArePaired
<1> QED
  BY PInitInv, <1>1, <1>2, PTL DEF MSpec, MInit0

-----------------------------------------------------------------------------
(* The state that modbus.c calls illegal *)

\* Without exception responses a frame has the function code of its request.
OwnCode == buffer \in Frame => buffer.code = buffer.to.code

WaitHasRequest == fdOpen /\ mbState = "WaitForResponse" => lastRequest # NoRequest

WInv == OwnCode /\ WaitHasRequest

LEMMA WInitInv == MInit0 => WInv
BY EmptyIsNoFrame DEF MInit0, MInit, WInv, OwnCode, WaitHasRequest

LEMMA ClosedWInv == ASSUME Close PROVE WInv'
<1>1. buffer' \notin Frame
  BY EmptyIsNoFrame, Zenon DEF Close
<1>2. ~fdOpen'
  BY Zenon DEF Close
<1> QED
  BY <1>1, <1>2 DEF WInv, OwnCode, WaitHasRequest

LEMMA WStepInv ==
    ASSUME "exception" \notin Faults, PInv, WInv, [MNext]_modbusVars
    PROVE  WInv'
<1> USE ModbusAssumption, NoRequestIsNone, EmptyIsNoFrame
    DEF PInv, FrameIsCurrent, WInv, OwnCode, WaitHasRequest, MInv, MTypeOK, masterVars, readerVars
<1>1. CASE NothingToDo \/ NotOpen \/ NoFlush \/ NoInput
  BY <1>1 DEF NothingToDo, NotOpen, NoFlush, NoInput
<1>2. CASE Send
  BY <1>2 DEF Send
<1>3. CASE Discard
  BY <1>3 DEF Discard
<1>4. CASE Mismatch
  \* The frame is the answer to the request in flight and has its code.
  BY <1>4 DEF Mismatch, MismatchDue, FlushDue, Answered, Matches
<1>5. CASE ReadAnswer
  <2>1. \A f \in Answers(Head(line)) : f.code = f.to.code
    BY DEF Answers
  <2> QED
    BY <1>5, <2>1 DEF ReadAnswer, Buffered
<1>6. CASE ReadGarbled
  BY <1>6 DEF ReadGarbled
<1>7. ASSUME NEW closes \in BOOLEAN, Timeout(closes) \/ Match(closes) PROVE WInv'
  BY <1>7 DEF Timeout, TimeoutDue, Match
<1>8. ASSUME NEW closes \in BOOLEAN, IoError(closes) PROVE WInv'
  BY <1>8, ClosedWInv DEF IoError
<1>9. CASE CallerStep
  <2>1. CASE UNCHANGED <<fdOpen, masterVars, readerVars>>
    BY <2>1
  <2>2. CASE Open
    BY <2>2 DEF Open
  <2>3. CASE Close
    BY <2>3, ClosedWInv
  <2> QED
    BY <1>9, <2>1, <2>2, <2>3 DEF CallerStep
<1>10. CASE MTick \/ MQuiet
  BY <1>10 DEF MTick, MQuiet
<1>11. CASE UNCHANGED modbusVars
  BY <1>11 DEF modbusVars
<1> QED
  BY <1>1, <1>2, <1>3, <1>4, <1>5, <1>6, <1>7, <1>8, <1>9, <1>10, <1>11 DEF MNext, MLoop

\* The state that modbus.c:237 calls illegal, a response while waiting without a
\* request, needs an answer of another function code, late or an exception: a slave
\* that is prompt and never answers with an exception does not lead there.
THEOREM NoIllegalState ==
    ASSUME Prompt, WaitTimeout > 0, "exception" \notin Faults
    PROVE  MSpec => []ResponseHasRequest
<1>1. PInv /\ WInv /\ [MNext]_modbusVars => PInv' /\ WInv'
  BY PStepInv, WStepInv
<1>2. WInv => ResponseHasRequest
  BY DEF WInv, WaitHasRequest, ResponseHasRequest, FlushDue
<1> QED
  BY PInitInv, WInitInv, <1>1, <1>2, PTL DEF MSpec, MInit0
=============================================================================
