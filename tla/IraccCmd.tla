----------------------------- MODULE IraccCmd ------------------------------
(***************************************************************************)
(* What becomes of a text of the control program: iracc_cmd_parse of       *)
(* src/iracc/iracc_cmd.c cuts it into lines, each line into parameters,    *)
(* and makes one command of a line; the write task of src/iracc/iracc.c    *)
(* turns each command into the preset of one register of an internal unit. *)
(*                                                                         *)
(* A text is a sequence of lines and a line a sequence of parameters.  An  *)
(* empty line is one that strtok_r finds nothing in: a blank one, or what  *)
(* is between the two characters of a CR LF.  Iracc.tla has the timing of  *)
(* the tasks and the faults of the line, this module has the data.         *)
(***************************************************************************)
EXTENDS Integers, Sequences, FiniteSets

CONSTANTS
    Texts,        \* what the control program may write: [lines, closed]
    LineRoom,     \* parameters that fit into aline (127 characters)
    CmdCap,       \* size of writeCommands (64)
    StrayValues,  \* what a value that was never assigned may read as
    Devices,      \* ids of the internal units that exist
    MaxTexts      \* bound: texts of a behaviour

\* A value is a word, or a number in hundredths.
Word(w) == [word |-> w, num |-> 0]
Number(n) == [word |-> "number", num |-> n]
Empty == Word("")
Unassigned == Word("unassigned")

Value == [word : STRING, num : Int] \ {Unassigned}
Param == [key : STRING, eq : BOOLEAN, value : Value]

\* "key=value" (the value may be empty), and "key" without the '='.
Pair(key, value) == [key |-> key, eq |-> TRUE, value |-> value]
Bare(key) == [key |-> key, eq |-> FALSE, value |-> Empty]

Text == [lines : Seq(Seq(Param)), closed : BOOLEAN]

\* closed: the last line ends with a newline, as an empty one does.
ASSUME CmdAssumption ==
    /\ \A t \in Texts :
          /\ t \in Text /\ t.lines # << >>
          /\ t.lines[Len(t.lines)] = << >> => t.closed
    /\ LineRoom \in Nat \ {0} /\ CmdCap \in Nat \ {0} /\ MaxTexts \in Nat
    /\ StrayValues \subseteq Value /\ Empty \in StrayValues
    /\ Devices \subseteq 0..255

NotSet == 0          \* of a wind level, a power mode and a temperature
ModeNotSet == -1

WorkMode == [auto |-> 3, cool |-> 2, heat |-> 1, dry |-> 7, fan |-> 0]
WindLevel == [ll |-> 16, l |-> 32, m |-> 48, h |-> 64, hh |-> 80]
PowerMode == [on |-> 97, off |-> 96]

NewCommand == [unitId |-> 0, windLevel |-> NotSet, powerOn |-> NotSet,
               workMode |-> ModeNotSet, temp |-> NotSet]

VARIABLES
    pc,                   \* "idle", "read", "params", "return" or "write"
    text,                 \* the text that was popped last
    unread,               \* its lines, or what is left of them
    aline,                \* the line that is collected or parsed
    at,                   \* the parameter of it that is next
    iuc, found, errors,   \* the command, whether it was allocated, errors
    value,                \* the local that the next parameter may find
    ret,
    cmds,                 \* writeCommands
    written,              \* writingCommandIndex
    iu,                   \* wind level and power of the units
    texts,                \* texts taken
    before, setting       \* history: the commands before the text, and the wind
                          \* level and power that the lines set last

NoText == [lines |-> << << >> >>, closed |-> TRUE]

readVars == <<text, unread, before>>
lineVars == <<at, iuc, found, errors, value>>
vars == <<pc, readVars, aline, lineVars, ret, cmds, written, iu, texts, setting>>

Unclaimed == -1

Init ==
    /\ pc = "idle"
    /\ text = NoText /\ unread = << >> /\ aline = << >>
    /\ at = 1 /\ iuc = NewCommand /\ found = FALSE /\ errors = 0 /\ value = Unassigned
    /\ ret = 0
    /\ cmds = << >> /\ written = 0
    /\ iu = [u \in Devices |-> [windLevel |-> WindLevel.l, power |-> PowerMode.off]]
    /\ texts = 0
    /\ before = << >> /\ setting = iu

-----------------------------------------------------------------------------
(* iracc_cmd_parse *)

\* The write task is idle and finds a text in the shared memory.
TakeText ==
    /\ pc = "idle" /\ texts < MaxTexts
    /\ \E t \in Texts : text' = t /\ unread' = t.lines
    /\ before' = cmds
    /\ texts' = texts + 1
    /\ pc' = "read"
    /\ aline' = << >> /\ ret' = 0
    /\ UNCHANGED <<lineVars, cmds, written, iu, setting>>

\* Mutant: the length is compared after it went past the room.
LineFull_OffByOne(l) == Len(l) = LineRoom + 1

LineFull(l) == Len(l) = LineRoom

\* _iracc_cmd_parse_aline begins: value is not initialised.
ParseLine == /\ pc' = "params"
             /\ at' = 1 /\ iuc' = NewCommand /\ found' = FALSE /\ errors' = 0
             /\ value' = Unassigned

\* The characters of a parameter; a full line is parsed without its newline.  Where the
\* code cuts inside a parameter, "unit=12" into "unit=1" and "2", the two halves are
\* parameters of the text with the end of the room between them.
ReadParam ==
    /\ pc = "read"
    /\ unread # << >> /\ unread[1] # << >>
    /\ aline' = Append(aline, Head(unread[1]))
    /\ unread' = [unread EXCEPT ![1] = Tail(unread[1])]
    /\ IF LineFull(aline') THEN ParseLine ELSE UNCHANGED <<pc, lineVars>>
    /\ UNCHANGED <<text, before, ret, cmds, written, iu, texts, setting>>

AtEnd == Len(unread) = 1 /\ unread[1] = << >> /\ ~text.closed

\* A newline: also a blank line is parsed.
ReadNewline ==
    /\ pc = "read"
    /\ unread # << >> /\ unread[1] = << >> /\ ~AtEnd
    /\ unread' = Tail(unread)
    /\ ParseLine
    /\ UNCHANGED <<text, before, aline, ret, cmds, written, iu, texts, setting>>

\* Mutant: what follows the last newline is not parsed.
Unfinished_Dropped == FALSE

Unfinished == aline # << >>

\* The text is over; what follows its last newline is a line as well.
ReadEnd ==
    /\ pc = "read"
    /\ unread = << >> \/ AtEnd
    /\ unread' = << >>
    /\ IF Unfinished THEN ParseLine ELSE pc' = "return" /\ UNCHANGED lineVars
    /\ UNCHANGED <<text, before, aline, ret, cmds, written, iu, texts, setting>>

-----------------------------------------------------------------------------
(* _iracc_cmd_assign_value *)

(***************************************************************************)
(* (int)(d * 100.f), where d is the double next to n hundredths.  It is    *)
(* n - 1 when d is below n/100 by so much that the product does not round  *)
(* up to n: 2^48 is 56 and 2^47 is 28 modulo 100, the doubles from 16 on   *)
(* are multiples of 2^-48 and those from 32 on of 2^-47, and the ones      *)
(* around n are closer to each other below 2048.                           *)
(***************************************************************************)
LosesOne(n) == \/ n \in 1600..2047 /\ (56 * n) % 100 \in 33..50
               \/ n >= 3200 /\ (28 * n) % 100 \in 33..50

\* Mutant: rounded up.
Hundredths_RoundsUp(n) == IF LosesOne(n) THEN n + 1 ELSE n

Hundredths(n) == IF LosesOne(n) THEN n - 1 ELSE n

\* atoi: a word reads as 0, and what follows the point is cut off, also below 0.
Atoi(v) == IF v.num >= 0 THEN v.num \div 100 ELSE -((-v.num) \div 100)

Accepts(key, v) ==
    \/ key = "unit"  /\ Atoi(v) >= 0
    \/ key = "mode"  /\ v.word \in DOMAIN WorkMode
    \/ key = "power" /\ v.word \in DOMAIN PowerMode
    \/ key = "wind"  /\ v.word \in DOMAIN WindLevel
    \/ key = "temp"  /\ Hundredths(v.num) \in 1500..3500

\* Mutant: the unit is kept in an int.
UnitId_Wide(v) == Atoi(v)

\* uint8_t unitId
UnitId(v) == Atoi(v) % 256

Assigned(c, key, v) ==
    CASE key = "unit"  -> [c EXCEPT !.unitId = UnitId(v)]
      [] key = "mode"  -> [c EXCEPT !.workMode = WorkMode[v.word]]
      [] key = "power" -> [c EXCEPT !.powerOn = PowerMode[v.word]]
      [] key = "wind"  -> [c EXCEPT !.windLevel = WindLevel[v.word]]
      [] key = "temp"  -> [c EXCEPT !.temp = Hundredths(v.num)]

-----------------------------------------------------------------------------
(* _iracc_cmd_parse_aline *)

\* The value of a parameter without '=' is the one of the parameter before it.  Without
\* one it is wherever the uninitialised pointer leads: some text, if the program
\* survives reading it, and only then there is a next step.
ValuesOf(p) == IF p.eq THEN {p.value}
               ELSE IF value # Unassigned THEN {value} ELSE StrayValues

\* A parameter without a key or with an empty value is passed over.
TakeParam ==
    /\ pc = "params" /\ at <= Len(aline)
    /\ at' = at + 1
    /\ \E v \in ValuesOf(aline[at]) :
          /\ value' = v
          /\ LET key == aline[at].key
             IN  IF key = "" \/ v = Empty THEN UNCHANGED <<iuc, found, errors>>
                 ELSE /\ found' = TRUE
                      /\ IF Accepts(key, v)
                           THEN iuc' = Assigned(iuc, key, v) /\ UNCHANGED errors
                           ELSE errors' = errors + 1 /\ UNCHANGED iuc
    /\ UNCHANGED <<pc, readVars, aline, ret, cmds, written, iu, texts, setting>>

\* What a line sets: a command without a wind level and a power mode writes
\* something else to the register of both.
Settled(c) ==
    [u \in Devices |->
        IF u # c.unitId THEN setting[u]
        ELSE IF c.windLevel = NotSet /\ c.powerOn = NotSet
               THEN [windLevel |-> Unclaimed, power |-> Unclaimed]
        ELSE [windLevel |-> IF c.windLevel = NotSet THEN setting[u].windLevel ELSE c.windLevel,
              power |-> IF c.powerOn = NotSet THEN setting[u].power ELSE c.powerOn]]

LineGood == found /\ errors = 0

\* iracc_push_command, when the line is good and there is room.
EndLine ==
    /\ pc = "params" /\ at > Len(aline)
    /\ IF LineGood /\ Len(cmds) < CmdCap
         THEN /\ cmds' = Append(cmds, iuc)
              /\ ret' = 0
              /\ setting' = Settled(iuc)
         ELSE /\ ret' = -1
              /\ UNCHANGED <<cmds, setting>>
    /\ pc' = "read"
    /\ aline' = << >>
    /\ UNCHANGED <<readVars, lineVars, written, iu, texts>>

\* Only a text that succeeds is written now.  The commands of one that fails stay.
Return ==
    /\ pc = "return"
    /\ pc' = IF ret = 0 THEN "write" ELSE "idle"
    /\ text' = NoText /\ before' = << >>
    /\ UNCHANGED <<unread, aline, lineVars, ret, cmds, written, iu, texts, setting>>

-----------------------------------------------------------------------------
(* _iracc_write_internal_unit_command *)

REG_START == 2000    \* 0x07D0
PRESET_REG(u) == REG_START + 3 * u

\* (uint16_t)(presetTemperature * 10): the register holds tenths.
Tenths(hundredths) == hundredths \div 10

\* Mutant: the half that is not set is written as 0.
Half_Zero(v) == v

\* A half that is not set is written as 0xFF.
Half(v) == IF v = NotSet THEN 255 ELSE v

\* regValue[0] and regValue[1]: the first group that is set, in this order; the
\* value of modbus_alloc_request when nothing is.
RegValue(c) ==
    CASE c.windLevel # NotSet \/ c.powerOn # NotSet -> <<Half(c.windLevel), Half(c.powerOn)>>
      [] OTHER ->
         CASE c.workMode # ModeNotSet -> <<0, c.workMode>>
           [] OTHER -> IF c.temp # NotSet
                         THEN <<Tenths(c.temp) \div 256, Tenths(c.temp) % 256>>
                         ELSE <<0, 1>>

\* The unit of the register keeps the half that is 0xFF.
Preset(reg, hi, lo) ==
    [u \in Devices |->
        IF PRESET_REG(u) # reg THEN iu[u]
        ELSE [windLevel |-> IF hi = 255 THEN iu[u].windLevel ELSE hi,
              power |-> IF lo = 255 THEN iu[u].power ELSE lo]]

WriteCommand ==
    /\ pc = "write" /\ written < Len(cmds)
    /\ LET c == cmds[written + 1]
       IN  iu' = Preset(PRESET_REG(c.unitId), RegValue(c)[1], RegValue(c)[2])
    /\ written' = written + 1
    /\ UNCHANGED <<pc, readVars, aline, lineVars, ret, cmds, texts, setting>>

WriteComplete ==
    /\ pc = "write" /\ written = Len(cmds)
    /\ cmds' = << >> /\ written' = 0
    /\ pc' = "idle"
    /\ UNCHANGED <<readVars, aline, lineVars, ret, iu, texts, setting>>

Next == \/ TakeText \/ ReadParam \/ ReadNewline \/ ReadEnd
        \/ TakeParam \/ EndLine \/ Return \/ WriteCommand \/ WriteComplete

Spec == Init /\ [][Next]_vars

-----------------------------------------------------------------------------
(* What a text says *)

\* The value of the i-th parameter; of the last one with a value before it when
\* the '=' is missing.
Latest(s) == CHOOSE i \in s : \A j \in s : j <= i
ValueAt(l, i) == l[Latest({j \in 1..i : l[j].eq})].value

\* The parameters that count among the first n.
Counted(l, n) == {i \in 1..n : l[i].key # "" /\ ValueAt(l, i) # Empty}
Naming(l, n, key) == {i \in Counted(l, n) : l[i].key = key}

\* The last parameter with a key decides.
Says(l, n, key) == Naming(l, n, key) # {}
Said(l, n, key) == ValueAt(l, Latest(Naming(l, n, key)))

AllAccepted(l, n) == \A i \in Counted(l, n) : Accepts(l[i].key, ValueAt(l, i))

\* The temperature is another property's.
Means(l, n, c) ==
    /\ c.unitId = IF Says(l, n, "unit") THEN Atoi(Said(l, n, "unit")) % 256 ELSE 0
    /\ c.workMode = IF Says(l, n, "mode") THEN WorkMode[Said(l, n, "mode").word] ELSE ModeNotSet
    /\ c.powerOn = IF Says(l, n, "power") THEN PowerMode[Said(l, n, "power").word] ELSE NotSet
    /\ c.windLevel = IF Says(l, n, "wind") THEN WindLevel[Said(l, n, "wind").word] ELSE NotSet

\* A line that begins with a parameter without '=' has no meaning.
Defined(l) == l # << >> => l[1].eq

GoodLine(l) == Counted(l, Len(l)) # {} /\ AllAccepted(l, Len(l))

Least(m, n) == IF m < n THEN m ELSE n

\* A line that is longer than the room is cut; one that just fills it leaves an
\* empty line behind.
Pieces(l) == [k \in 1..Len(l) \div LineRoom + 1 |->
                 SubSeq(l, (k - 1) * LineRoom + 1, Least(k * LineRoom, Len(l)))]

\* The pieces of the first k lines.
PiecesUpTo(lines) ==
    LET upTo[k \in 0..Len(lines)] ==
            IF k = 0 THEN << >> ELSE upTo[k - 1] \o Pieces(lines[k])
    IN  upTo

PiecesOf(t) ==
    LET all == PiecesUpTo(t.lines)[Len(t.lines)]
    IN  IF ~t.closed /\ all[Len(all)] = << >> THEN SubSeq(all, 1, Len(all) - 1) ELSE all

\* How many of the first n lines are good.
GoodAmong(lines, n) == Cardinality({i \in 1..n : GoodLine(lines[i])})

-----------------------------------------------------------------------------
(* Properties *)

Command == [unitId : 0..255, windLevel : {16, 32, 48, 64, 80, NotSet},
            powerOn : {96, 97, NotSet}, workMode : {0, 1, 2, 3, 7, ModeNotSet},
            temp : 0..3500]
Setting == [windLevel : -1..255, power : -1..255]

TypeOK ==
    /\ pc \in {"idle", "read", "params", "return", "write"}
    /\ text \in Text
    /\ unread \in Seq(Seq(Param))
    /\ aline \in Seq(Param) /\ Len(aline) <= LineRoom
    /\ at \in Nat \ {0} /\ iuc \in Command /\ found \in BOOLEAN /\ errors \in Nat
    /\ value \in Value \cup {Unassigned}
    /\ ret \in {0, -1}
    /\ cmds \in Seq(Command) /\ Len(cmds) <= CmdCap
    /\ written \in 0..CmdCap
    /\ iu \in [Devices -> Setting]
    /\ texts \in 0..MaxTexts
    /\ before \in Seq(Command)
    /\ setting \in [Devices -> Setting]

\* However the parameters of a line are ordered, repeated or left empty, the loop
\* of _iracc_cmd_parse_aline collects what the last parameter with each key says,
\* and knows of an error exactly when one of them is not accepted.
LineIsCommand ==
    pc = "params" /\ Defined(aline) =>
        /\ found <=> Counted(aline, at - 1) # {}
        /\ errors = 0 <=> AllAccepted(aline, at - 1)
        /\ errors = 0 => Means(aline, at - 1, iuc)

\* The display of a unit, written back.
Again(tenths) == Tenths(Hundredths(10 * tenths))

\* A temperature never gains on its two ways through binary floating point, and
\* loses at most a tenth of a degree, however often the value that the unit then
\* displays is written back.
TemperatureWithinTenth ==
    pc = "params" /\ Defined(aline) /\ errors = 0 =>
        LET n == Said(aline, at - 1, "temp").num
            tenths == Tenths(iuc.temp)
        IN  IF ~Says(aline, at - 1, "temp") THEN iuc.temp = NotSet
            ELSE /\ tenths <= Tenths(n)
                 /\ Again(tenths) >= Tenths(n) - 1
                 /\ Again(Again(tenths)) = Again(tenths)

\* A text is what Iracc.tla takes it for (Parsed and ParseOK): the commands of its
\* good lines are pushed in their order while there is room, whatever the other
\* lines are, and it succeeds when its last line does.
TextIsBatch ==
    LET lines == PiecesOf(text)
        place(j) == Len(before) + GoodAmong(lines, j)
    IN  pc = "return" /\ (\A i \in DOMAIN lines : Defined(lines[i])) =>
            /\ Len(cmds) = Least(place(Len(lines)), CmdCap)
            /\ \A i \in DOMAIN before : cmds[i] = before[i]
            /\ \A j \in DOMAIN lines : GoodLine(lines[j]) /\ place(j) <= CmdCap
                                          => Means(lines[j], Len(lines[j]), cmds[place(j)])
            /\ ret = 0 <=> GoodLine(lines[Len(lines)]) /\ place(Len(lines)) <= CmdCap

\* Once all commands are written each unit has the wind level and the power that
\* were set last for it, also by the lines of a text that failed, and the other
\* units keep theirs.
SettingsReach ==
    pc = "idle" /\ cmds = << >> =>
        \A u \in Devices : /\ setting[u].windLevel \in {Unclaimed, iu[u].windLevel}
                           /\ setting[u].power \in {Unclaimed, iu[u].power}
=============================================================================
