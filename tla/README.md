# HomeMaster: models, checks and proofs

HomeMaster connects a Daikin air conditioning gateway ("IRACC"), which speaks
Modbus RTU on a serial line, to a home automation system. `iracc gate` is a
daemon that owns the line: it polls the status of the internal units and writes
the commands it finds in a System V shared memory. `iracc ctrl` is a short-lived
program that puts one command line into that memory and prints the last status.
A separate Home Assistant component drives lamps on another RS-485 bus.

This directory holds TLA+ modules translated from the C source, TLC
configurations, and proofs for the TLA+ proof system.

    tlc -workers 2 -config MCIraccFaults.cfg MCIracc      # a run
    tlapm IraccProofs.tla                                 # the proofs of a module

## 1. Inventory

| Component | Source | State | Operations |
|---|---|---|---|
| Ring buffer | `fifo.c` | array, head, tail | init, isempty, isfull, push, pop, flush (unused) |
| I/O kit | `iokit.c` | table of descriptors; per reader: buffer, time of the last read | add, remove, run (select); reader: read, run (flush after silence), flush, close |
| Modbus master | `modbus.c` | reader, queue of requests, request in flight, state, send time | init, run, enqueue, send, recv, close, callbacks of the I/O kit |
| Gateway tasks | `iracc.c` | device state, init state, error count, connected units and their statuses, read task, write task, command buffer | init, run, open, close, initialize, read task, write task, receiveCallback, push command, print status |
| Command parser | `iracc_cmd.c` | none kept: the line that is collected, the command that is filled | parse a text into lines, a line into a command; value tables |
| Databus | `databus.c` | per process: segment and semaphore identifiers; shared: two text areas, one semaphore | init, shutdown, put_in, get_in, put_out, get_out, lock, unlock |
| Control program | `iracc_ctrl.c` | none | put a command, get the status |
| Gateway program | `iracc_gate.c` | configuration | start, main loop, signal handler |
| Serial port | `serial_port.c` | none | open, set up, non-blocking mode |
| CRC16 | `crc16.c` | none | two checksums; the one of Modbus is used |
| Objects, utilities, log | `object.c`, `utils.c`, `log.c` | reference counts, log file | retain, release, trim, time, log |
| Home Assistant component | `hass/custom_components` | board object: port, lock; switch: state | board: query, set, disconnect; platform: setup; switch: on, off |

All calls inside the gateway program happen on one thread:

    main loop:  iracc_run { modbus_run { switch(state); IO_RUN }; task of the state }
                io_run    { select; _io_callback { read } }

`modbus_run` and `io_run` call back into `iracc.c` (`_modbus_received`), which may
close the port, and with it the reader that `modbus_run` is about to run. Signals
interrupt the loop anywhere. Control programs run concurrently and meet the
gateway in the shared memory only.

What is hard here, and what makes each part correct:

* **Ring buffer**: the comments promise that one producer and one consumer may use
  it concurrently without a lock, while `fifo_pop` moves `head` *before* it reads
  at the end of the array. It must be a bounded queue all the same.
* **Modbus master**: timeouts against late answers, answers of another request,
  errors in the middle, the port closed by its own callback. Requests must be
  executed one at a time, in order, at most once; waiting must end.
* **Gateway tasks**: two tasks that block each other by flags which survive the
  closing of the port; an initialisation that waits for verdicts; buffers at
  their limit; wrong pairing of answers and units.
* **Frames**: bytes damaged on the line, two frames in one buffer. The checksum is
  all that keeps them from being taken for an answer.
* **Command parser**: parameters in any order, repeated, empty or without their
  value; lines that are cut; numbers that lose a part in each conversion; texts
  that fail after some of their commands were pushed. What the units end up with
  must still be what the lines say.
* **Databus**: two programs copying bytes, processes that die inside the lock,
  a gateway that restarts over a semaphore in use.
* **Home Assistant component**: threads that share one line, with a lock around the
  query and none around the commands, and a port that may be closed under them.

PROJECT.json lists every hazard at its line with the properties that cover it.

## 2. Plan

Order, most important behaviour first. All of these are written:

1. `BoundedQueue`, `Fifo`, `FifoProofs`: the queue and its implementation.
2. `ModbusMaster`, `Modbus`, `ModbusProofs`: the master and its implementation.
3. `Iracc`, `IraccProofs`: the gateway program, which extends `Modbus`.
4. `Mailbox`, `Databus`, `DatabusProofs`, `DatabusTextProofs`: a place for one command,
   the shared memory, its lock, and the texts that pass through it.
5. `IraccCmd`, `IraccCmdProofs`: from the text of a control program to the registers
   of the units. What `Iracc` takes a text for is checked here (`TextIsBatch`).
6. `Frame`, `FrameProofs`: the checksum of a frame, which justifies that `Modbus`
   only knows whole and garbled ones.
7. `Laite`, `LaiteProofs`: the Home Assistant component.

What could come next:

8. `Iracc` composed with `Databus` by way of `Mailbox` (the command area) and the like
   for the status that is published.
9. Allocated requests (leaks at a full queue and at a close) and descriptors (a bad
   baud rate).

Abstract specifications: `BoundedQueue` (implemented by `Fifo`), `ModbusMaster`
(implemented by `Modbus`, and through it by `Iracc`), `Modbus` itself under
arbitrary callers (implemented by `Iracc`, property `UsesModbus`), and `Mailbox`
(implemented by `Databus`, property `IsMailbox`).

## 3. Modules and the code

### Fifo

Positions are offsets in the array. Every store of `fifo_push` and `fifo_pop` to
shared memory is a step: `PushBegin` (the caller saw `!fifo_isfull`), `PushStore`
(write the slot; `released` records what `RELEASE_OBJECT` would get),
`PushAdvance`; `PopBegin` (which moves `head` if it is at the end), `PopRead`,
`PopClear`, `PopAdvance`. Pointer updates are atomic, as the comment at
fifo.c:15-17 requires. Memory is sequentially consistent: the code has no barrier
and none is modelled (the gateway calls both sides from one thread).
`fifo_flush` is called nowhere and left out.

The refinement mapping has to say when a pop takes effect: where `head` wraps, or
else where the slot is read (`First`, `Count`, `Result`).

### Modbus

`pc` is the part of the main loop that runs next: `modbus_run` (the switch),
`IO_RUN` (the reader), `tasks` (the rest of `iracc_run`), `io_run`. One action is
one part. `fdOpen` is `reader.fd >= 0` (before the first open the context is zero
and its reader has no methods, which has the same effect), `mbState`,
`lastRequest`, `queue` are the fields of `ModbusCtxInternal`, `buffer` and `silence`
those of the reader. `line` holds requests the slave has not answered yet.

Times are ages in seconds that stop one above what they are compared with.
`MTick` (a second passes) and `MQuiet` (the 300 ms of silence pass within a
second) may happen between any two parts of the loop.

A frame is its function code and the request that it answers, or garbled; two
frames without a silence between them make one buffer that fails the CRC. The
address is the same for all. A request is its function code and register.
`receiveCallback` is the parameter `closes`: whether it closes the port. On its
own, `Modbus` takes both; `Iracc` supplies the decision.

Faults: `lost` (request or answer), `exception` (function code with the error
bit), `garbled` (noise, alone or in place of an answer), `io_error` (`read` fails, or
`select` reports an exceptional condition of the descriptor; when `select` fails
itself, `io_run` only returns, which is `NoInput`). `Frame` shows that a garbled frame is dropped. `Prompt`
describes a slave that answers within the second of the request, and not across a
reopened port, or not at all.

### Iracc

Extends `Modbus` with the fields of `IRACC`. `NullVerdict`, `InitialResponse` and
`TaskResponse` are the three cases of `_modbus_received`; the initial responses
cover the two handlers, with units chosen from `UnitLists` in place of the bit
mask. `Crash` stands for the null pointers that `_modbus_received` may
dereference: the request in an initialising gateway (line 269), the response in a
closed one (line 308); nothing happens after it. `CurrentSlots` is the macro that
takes the current command without a look at its index: after the last command timed
out, a late acknowledgement is compared with the slot behind it, and may mark it. Only
the commands in use are state: a push overwrites the whole slot (iracc.c:247), and
behind the 64th one the fields are `writeCommandCount`, which is compared, and
`lastWriteTaskTime`, which nothing reads. `Initialize` is
`_iracc_task_initialize`. In a ready gateway the write task and the read task run
in the same call of `iracc_run` (`task` says which is next); each action of
`WriteTask` and `ReadTask` is one path through the function, from its early
returns to its switch. `WriteCommand` and `ReadUnit` take the queue at its limit
into account: the command or unit is skipped.

A text in the mailbox is the list of the units of its well-formed lines, and
whether the last line is one of them, which is what `iracc_cmd_parse` returns;
`IraccCmd` derives both.
A status is the unit it was stored for (`unitId`) and the unit whose registers it
was read from (`data`), which is what a mix-up changes.

### Frame

A byte, and a word of 16 bits, is the set of its bits that are 1, so that the
exclusive or and the shift of `crc16_modbus` are operations on sets. One action is
one byte on the line: the sender's checksum `tx` runs over the message and is sent
with its low byte first (the code swaps it with `htons`; the model is of a
little-endian host, on another one it would not be swapped), the receiver's
checksum `rx` runs over everything since its reader was flushed. `Transmit` may
damage a byte and the one after it. `NextFrame` sends a second frame before the
reader noticed a silence, `Flush` is the silence. Nothing is said of frames that
lost bytes: what is left may have a residue of 0 by chance.

### IraccCmd

A text is a sequence of lines, a line a sequence of parameters, a parameter a key
with or without `=` and a value. An empty line is one in which `strtok_r` finds
nothing, a blank one or what is between CR and LF. `ReadParam` collects the line
and cuts it when `aline` is full, which `LineRoom` counts in parameters. The code counts
127 characters and may cut inside one, "unit=12" into "unit=1" and "2": that is the
text whose parameters on both sides of the cut are the halves, and the run `command`
has such lines;
`ReadNewline` and `ReadEnd` are the other two places where the code parses what it
has. `TakeParam` is one round of the loop of `_iracc_cmd_parse_aline`: the local
`value` survives from one parameter to the next, and reads as any of `StrayValues`
before it was assigned (the pointer may also lead nowhere and crash the program in
`strlen`, after which there is no step). `EndLine` pushes the command, `Return` decides what the
write task does with the text.

Numbers are hundredths. `Atoi` cuts off what follows the point, also below 0: a unit of
-0.5 is unit 0. `UnitId` is the byte that `atoi` is stored in.
`Hundredths` is `(int)(atof(v) * 100.f)`, which is one less than was written for
some values above 16 because `double` has no exact value for them (`LosesOne` says
which). It was derived from the spacing of the doubles in the legal range and the
rounding of the product. `Tenths` is the second truncation, at iracc.c:814.

`WriteCommand` is one write of `_iracc_write_internal_unit_command`, acknowledged at
once; queues and faults are those of `Iracc`. `RegValue` follows the order in which
the code looks at wind level and power, mode, temperature. `Preset` stands for the
unit, which keeps a half of the register that is 0xFF; it is modelled from the
comments and the use in iracc.c. `before` and `setting` are history: the commands
that waited before the text, and what the lines set last for each unit. A line that
has neither a wind level nor a power mode writes its mode or its temperature to the
same register, so that nothing is claimed of its halves until they are set again.

### Databus

Processes are the gateway and the runs `Ctrl` of the control program. Each call of
`databus.c` is locking, copying cell by cell, and unlocking. A text fills its
cells with its own id. Commands are copied with their terminator, statuses
without one, and both are read as strings (`Reading`), the way `strncpy` and
`strlen` do. `shown` is the status that was put last: what a control program reads
begins with it, and the tail of a longer older one may follow. Segments and
semaphores are numbered by the start of the gateway that created them, so that a
process may be attached to a removed one. The kernel is
modelled after semop(2) and semctl(2): `SEM_UNDO` values (`adj`), `SETVAL` clears
them, `IPC_RMID` wakes those who wait with an error, which the code only logs.
`ZeroId` says that the kernel gave out the identifier 0, which the code takes for
none. The constants `Faults` choose between the death of a control program
(`kill_ctrl`) or of the gateway (`kill_gate`) anywhere and the signal handler
(`term_gate`), which runs anywhere too, between the statements of an operation, once
the gateway has set up the shared memory. The handler is registered at
iracc_gate.c:130; a signal before that is a plain kill, which no run has. `GetIn`
reads the terminator and clears the first byte in one step: the lock is held, and a
gateway that ends between the two leaves what it leaves before the first.

`Mailbox` is what the command area is for: a place for one command, where a new one
replaces one that nobody popped, and which is empty when a gateway starts. A command
is put when its first byte is written to the segment of the latest gateway: from
then on no other can be popped. It is popped when that byte is cleared. A control
program that is killed before, finds no gateway or writes to the segment of an earlier
one leaves the mailbox as it is (`Leave`).

### Laite

Workers are the threads of Home Assistant's executor. A call is `setup_platform`
(once for an address: it asks the board for its outlets and adds the switches),
`turn_on` or `turn_off`. The query is taken apart where another thread can come
between: take the lock, flush the input, write, read and release, add the
switches; a command is one write of nine bytes, without the lock, and the
assignment of the state. `set_switch_on` and `set_switch_off` refuse some indices
(`Valid`) and then write nothing. The index for all outlets is 0xff in the code and in
`ALL`, although the docstring of `set_switch_on` (laite.py:85) says 16.

`input` holds bytes as the board that sent them, `bus` the boards that are about to
answer. A board answers a query before its read gives up after three seconds, or
never (`Read` waits for one of the two). An answer may have any of `Lengths`. A
command that meets an answer on the two-wire line may be lost, the answer too.
`Close` is `disconnect` or an adapter that is gone; from then on every use of the
port raises an exception, which ends the call and the `with` of the lock (`Raise`).

An answer of 22 bytes is what the code asks for and what it refuses, and of an answer
of 16 bytes it cuts 11, while the platform wants 16: no switch ever starts with the
state of its outlet. `doubtful` is history: the switches that nobody can expect to
show their outlets, because they were just added, because another switch commanded
the same outlets, because two calls for them overlapped, or because a command met an
answer. A refused `turn_off` shows the switch as on; `StateAgrees` is about the
indices that boards have.

## 4. Runs

| Run | Checks | Bounds |
|---|---|---|
| `fifo` | `TypeOK`, `PushReleasesNothing`, `IsBoundedQueue`, `EverythingIsPopped` | 4 slots, 2 objects: full, empty and every wrap of both pointers |
| `modbus` | `MTypeOK`, `ClosedIsQuiet`, `OneAtATime`, `WaitEnds` | 4 requests, queue of 2, 2 on the line, all faults, any caller |
| `iracc_faults` | `TypeOK`, `PortAgrees`, `InitQueryPending`, `TasksExclude`, `CommandAvailable`, `OnlyInitialisingCrashes`, `UsesModbus` | 1 unit, queue of 2, 2 errors until a close, good and bad texts, all faults, a gateway that does not open or is not ready |
| `iracc_live` | `StatusIsOwn`, `AnswersArePaired`, `RoundEnds`, `BatchEnds`, `CommandsTaken`, `InitializationEnds` | no unit or the units 0 and 2, queue of 1, two commands, 2 errors until a close, prompt slave, lost requests and answers, exceptions, a gateway that is not ready |
| `command` | `TypeOK`, `LineIsCommand`, `TemperatureWithinTenth`, `TextIsBatch`, `SettingsReach` | 2 texts of up to 2 lines, room for 3 parameters and 3 commands, units 0 and 1, good, bad, empty, cut and unterminated lines |
| `frame` | `WholeAccepted`, `DamagedRejected`, `MergedRejected` | up to 4 bytes of 4 values, 3 patterns of damage, 2 frames |
| `databus` | `TypeOK`, `CommandsWhole`, `LastCommandKept`, `StatusWhole` | 2 control programs that may be killed, texts of 1 or 2 cells and the terminator, 2 statuses |
| `databus_faults` | `MutualExclusion`, `CtrlEnds`, `IsMailbox` | 2 control programs, 2 starts of the gateway, kills of control programs, signals to the gateway, which pops commands |
| `laite` | `TypeOK`, `AnswerIsOwn`, `StateAgrees`, `CallsEnd` | 2 threads, 2 boards with 2 outlets and 2 switches each, one for all outlets and one refused, 3 calls, both lengths of answers |
| `iracc_crash` | refutes `TimeoutReachesHandler` | prompt slave, exception responses |
| `iracc_stale` | refutes `ReceivedMeansAnswered` | 1 unit, no faults, prompt slave |
| `databus_zero` | refutes `LockedIsZero` | identifier 0, no faults |

Why the bounds are enough. A queue of 1 or 2 requests is full as soon as one task
runs ahead of the line, which is what 31 slots do later. Two errors reach the limit
of ten with every interleaving of a first and a last error. A register and another
one of the same function code are what wrong pairing needs; two function codes are
what a mismatch needs. Waiting times of 0 or 1 second put the timeout before, at
and after each other event, as ages are compared and never added. Two control
programs and the gateway are the three parties that the lock has to keep apart.
`iracc_live` uses a sparse list, unit 2 at index 1: there the slot that the read
task looks at is never filled, and only the timeout ends that read. In `command`,
3 parameters of room are less than the longest lines and 3 commands less than two
texts hold; the temperatures are every tenth of the legal range, every hundredth
of two parts of it, and values just outside. In `frame`, 0x00, 0x01, 0x80 and 0xff are
the bytes at which carries into and out of the register differ. In `laite`, three
commands are a first one, one that overlaps it, and one after both, while the
platforms of the boards are set up at any time.

What the properties say of the code:

* `OneAtATime`: the request in flight is never overwritten, sent twice or
  overtaken, although three paths free it and four close the port.
* `WaitEnds`: the mismatch leaves the master waiting without a request, and the
  timeout ends that too.
* `InitQueryPending`: an initialising gateway in one of its waiting states has its
  query in the queue or in flight, through I/O errors that give a query two
  verdicts, or the master is in the state above, which a verdict ends as well.
* `TasksExclude`: `readingUnitIndex`, which a close does not reset, and the write
  task, of which it resets nothing, never block each other.
* `RoundEnds`, `BatchEnds`, `CommandsTaken`: with a queue of one request, and a slave
  that may fall silent or answer with an exception, each task finishes and neither starves the other. Late
  answers are the subject of `WaitEnds`, where the slave may do anything.
* `AnswersArePaired` and `StatusIsOwn` need an assumption that the code does not
  enforce, a prompt slave: a late answer is taken for the next one.
* `OnlyInitialisingCrashes`: the program does dereference a null pointer. With an
  exception response or a late acknowledgement while the gateway initialises, the
  mismatch frees the request and the timeout passes NULL to `_modbus_received`, which
  reads it (iracc.c:269); this is what the run `iracc_crash` shows. An I/O error before
  the first query is sent does the same. The property says that there is no third
  way: a ready gateway survives every fault, and a closed one gets no verdict, whose
  response line 308 would read. In the `Abandoned` case of `InitQueryPending` the
  verdict that ends the waiting is the one that crashes.
* `InitializationEnds`: whether the gateway answers that it is ready or not, with an
  exception or not at all, an open port becomes ready or is closed, unless it crashes
  in one of those ways. With late and garbled answers and input errors the run does
  not check it; there `InitQueryPending` (a query is under way) and `WaitEnds` (every
  request comes to an end) hold. A full queue never meets a query, as opening the
  port empties the queue.
* `CommandAvailable`: a write task at work has a command, and the slot that a late
  acknowledgement looks at is never further than one behind the last command.
* `LineIsCommand`, `TextIsBatch`: whatever the order, the repetitions and the holes of
  a line, the last parameter with each key decides; and a text becomes the batch
  that `Iracc` takes it for, also when it fails after some lines or is cut.
* `CommandsWhole`, `LastCommandKept`, `StatusWhole`: what one program put is what the
  other gets, copied cell by cell under the lock, unless a program died in the middle.
  A gateway that is terminated removes the semaphore while others wait for it; they
  go on without a lock. `StatusWhole` is about what is read: the control program prints
  128 bytes of it (iracc_ctrl.c:109). Commands still arrive whole, but the last one may get lost
  (of two starts), and a control program that waited may read a torn status. Nothing
  in the code says otherwise, so the run `databus` has no `term_gate`.
* `IsMailbox`: the gateway pops the command that lies there, the one that was put
  last, and clears no other, also around a gateway that is terminated and started
  again. A torn command of a killed program counts as put by it.
* `TemperatureWithinTenth`: 16.4 becomes 16.3 in the register. A status that is
  read and written back does not lose another tenth each time.
* `SettingsReach`: the commands of a text that failed are not lost. They reach their
  units with the next text, in their order, and no unit gets another one's.
* `AnswerIsOwn`, `StateAgrees`: the lock of the query is enough although commands are
  written without it, because no board answers a command; what the missing lock
  costs is named in `doubtful`.

Divergences that the violation runs show: the timeout of a query after an exception
response never reaches its handler (iracc.c:598), as it crashes at line 269 after a
state that modbus.c:237 calls illegal; a unit counts as read before its answer (iracc.c:491-493), so every
round after the first puts one request per unit into the queue at once and
publishes the values of the round before; identifier 0 disables the lock
(databus.c:234).

A gateway that is killed, in contrast to one that is terminated, leaves its
semaphore behind, as does one that gets a signal before its handler is registered, and
the next one sets its value to 1 although a control program may be inside. Nothing in the code claims to prevent it, so no run refutes a claim;
`kill_gate` in `Faults` produces it.

Deadlock is checked except in runs whose system may stop: a gateway that crashed
(`iracc_faults`, `iracc_live`), control programs that are all done and a gateway that was terminated
or has no start left (`databus`, `databus_faults`), and texts or calls that are used
up (`command`, `laite`).

### Fairness

* `Fifo!FairSpec`: a started push completes, and the consumer keeps popping.
* `Modbus!MFairSpec`, `Iracc!FairSpec`: the thread keeps running (`select` has a
  timeout of 500 ms and no other call blocks) and the clock advances. No fairness
  of the slave, of the line or of the control program is assumed. `WaitEnds`
  holds with a slave that does anything; the properties of `iracc_live` are checked with
  one that answers in time, with an exception, or not at all, ever.
* `Databus!FairSpec`: processes run, and a process that waits for the semaphore gets
  it if it is free again and again (strong fairness of `Lock`), because Linux serves
  waiting semop calls in their order. Nothing forces a gateway to start, a kill or a
  signal to happen.
* `Laite!FairSpec`: threads are scheduled, a thread that waits for a free lock gets
  it (once for each address, so that weak fairness is enough), and a query is
  answered or not within the timeout of the read. Nothing forces Home Assistant to
  call, or the port to close.

## 5. Proofs

All theorems hold for every value of the constants that the named assumptions
allow; those that state a property of a run are checked by TLC as well.

* `FifoProofs`. Inductive invariant `IInv`: types, the slots between `First` and
  `tail` hold objects and all others are NULL except those that a push or a pop is
  at work on, and what each context knows of its own position. From it
  `TypeCorrect`, `NothingReleased`, and the refinement `RingBufferIsQueue`: each
  step maps to `Put`, `Get` or a stutter.
* `ModbusProofs`. `MInv` is the conjunction of `MTypeOK`, `ClosedIsQuiet` and
  `IdleOwnsNoRequest` (an open, idle master owns no request), inductive only together:
  a timeout frees the request before the callback's close is seen. From it the
  invariants, and `ModbusIsMaster`, where the third one lets a request begin. `PromptAnswersArePaired`
  adds the timing argument (`PInv`): in the second of a request the line and the
  buffer hold nothing but its answer, and after that second nothing comes. It
  assumes `Prompt` and `WaitTimeout > 0`, and no number of requests or registers.
  `NoIllegalState` adds to `PInv` that who waits has a request (`WInv`), which an
  exception response or a late answer ends: it says what it takes to keep clear of the
  state in which the run `iracc_crash` meets the null request.
* `IraccProofs`. `IInv` is `TypeOK`, `MInv`, `PortAgrees`, and `TaskInv`
  (`TasksExclude` and `CommandThere`, which is what `CommandAvailable` says of the index). None is inductive alone: a verdict keeps
  `PortAgrees` only because a closed master is quiet, the reset of an index keeps
  the types only because the commands are there. `IraccUsesModbus` maps each step to a step of
  `Modbus` with the right `closes`, and composed with `ModbusIsMaster` it gives
  `IraccRequestsOneAtATime`. `QueryStaysPending` needs in addition that a closed
  gateway starts over (`ClosedStartsOver`). `CrashesOnlyInitialising` assumes nothing of
  the slave or the line: who gets a verdict has an open port, which by `PortAgrees` is not a
  closed gateway, and a verdict outside `io_run` is that of a waiting master. As each step
  is one of `Modbus`, `PInv` holds of the gateway too, and `PublishedStatusIsOwn` follows:
  an answer is paired with its own request, which names the unit, so the slots that a
  round collects are their units' own, and with them what is published (`OInv`).
* `DatabusProofs`. `LInv` says where each process is attached, that the undo values
  of a semaphore that exists tell who is inside (`Held`), and that a gateway sets the
  value of a semaphore of its own that nobody holds (`Fresh`). `LockExcludes` and
  `SemaphoreIsBinary` assume that no gateway is killed and no identifier is 0: the
  run `databus_zero` and the killed gateway above show that each is needed.
* `DatabusTextProofs`. `DatabusTypeCorrect` assumes nothing of the faults: `TInv` adds
  to the types that each process is attached to what it works on (`AttachedInv`) and
  how far a copy can be (`CopyInv`). `BInv` is `LInv`, `TInv`, that who is attached to
  the segment of a gateway uses its semaphore (`SegmentInv`), and that later segments
  are empty. `CInv` follows the commands: what was popped came from a program that
  will put no more (`TakenInv`), the segment of the running gateway holds the command
  of a program of which none was popped (`HoldsInv`), and who is inside has copied
  what is behind it (`PuttingInv`, `PoppingInv`). From it `CommandsAreWhole`, under the
  assumptions of the lock, with terminated gateways. Under the same ones
  `DatabusIsMailbox`: each step maps to one of `Mailbox` or a stutter, because the
  first cell of the running gateway's segment changes only where a program writes the
  first byte of its command (`PutInMail`) or the gateway clears the command it has
  read, of which that cell still holds the beginning (`GetInMail`). `LastCommandIsKept` (`KInv`: who
  put last, and where its command is) and `StatusIsWhole` (`SInv`: the segment begins
  with what is shown, a reader with what it has read of it) assume in addition that
  the gateway is not terminated, for the reason given above for `StatusWhole`; there
  is then one start (`OneStart`). `IdAssumption` says that no text contains the
  terminator.
* `FrameProofs`. The step of the checksum is linear (`StepXor`), so the difference
  between what the receiver has and what it would have without damage does not
  depend on the message. One step loses nothing (`StepNonEmpty`), hence a single
  damaged byte stays visible to the end; two neighbours cannot cancel out, because
  eight steps bring the upper byte of the register down unchanged (`Burst`). The low
  byte of the checksum removes itself and the high one the rest (`LowByte`), which
  gives `WholeIsAccepted`, `DamagedIsRejected` and, as a second frame starts from
  another register, `MergedIsRejected`, for messages of any length and content.
* `IraccCmdProofs`. `LineInv` is what the loop knows after each parameter: which ones
  counted, what the last with each key said, and how an unassigned local can still
  matter (only before the first value). From it `LineMeansCommand`; with the
  arithmetic of the two conversions (`LosesOnce`, `WithinTenth`) `TemperatureKept`,
  for every temperature and not only those of the run. `SettingInv` follows a
  setting through the commands that wait: what a line set last is in the unit, or
  the last waiting command that decides it holds it. From it `SettingsReachUnits`,
  for every number of texts, units and commands. `BatchInv` counts the pieces that were
  cut off a text so far (`Cut`): the one that is collected is the beginning of the
  next (`PieceInv`), and the commands of the good ones before it were pushed
  (`Pushed`). From it `TextIsItsBatch`. What the pieces of the first k lines are is
  defined by recursion over k; the induction that this needs is done over a set of
  numbers (`NatSet`, from the least element of its complement), and gives that the
  definition is total (`UpToIs`) and where each piece is (`UpToPrefix`, `PieceAt`).
* `LaiteProofs`. `OwnInv`: the lock belongs to the one that asks, and while the port is
  open the board that was asked is the only one that may answer, so what is read is
  its own. `AgreeInv`: between its command and its assignment a call runs ahead of
  the state. From them `StatusIsOfTheBoardAsked` and `SwitchShowsOutlets`, for every
  number of threads, boards and switches.

Only model-checked: the liveness properties (`EverythingIsPopped`, `WaitEnds`,
`InitializationEnds`, `RoundEnds`, `BatchEnds`, `CommandsTaken`, `CtrlEnds`,
`CallsEnd`), as proofs of liveness under fairness are out of the prover's reach. All
safety properties and refinements of the passing runs are proved. The three
properties that the code violates are refuted by their runs.

## 6. Not modelled

* Formats: hex dumps, the layout of status lines, the measured values, and the
  truncation of what a control program prints: 128 bytes (iracc_ctrl.c:109), about two
  units, so that a longer status is read whole and printed in part.
* Memory: requests that a full queue or a close leaves allocated (modbus.c:263), a
  buffer that is too small for 64 status lines (FIXME at iracc.c:558), statuses
  longer than the reader's buffer.
* The descriptor that stays open when the baud rate is refused (serial_port.c:88).
* Frames that lost bytes, and hosts whose byte order is the network's.
* Lines that the documentation shows and the parser refuses: numbers for mode, wind
  and power (iracc_cmd.c:21-26, iracc_ctrl.c:47) are bad lines in the code and in
  `IraccCmd`, which follows the code.
* The crash of a parser that reads an unassigned pointer (iracc_cmd.c:101).
* Gateways that get a signal before the handler is registered (iracc_gate.c:130).
* Boards of the Home Assistant component that answer after the read gave up.
* Clocks that are set while the program runs.
* Options, pid files, daemonising, terminal settings, logging: they leave no state
  that the behaviour depends on.
* `object.c`, `utils.c`: reference counts that nothing raises above one, and helpers
  for text and time.
* The line reader and the table of descriptors of the I/O kit, `fifo_flush` and
  `crc16_ccitt`, which nothing calls or fills with more than one entry, and the
  `#if 0` parts.
