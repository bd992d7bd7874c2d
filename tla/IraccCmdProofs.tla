--------------------------- MODULE IraccCmdProofs ---------------------------
(***************************************************************************)
(* What holds of IraccCmd for every set of texts, room of a line, number   *)
(* of commands and set of units: the types, what a line means, what is     *)
(* made of a text and how the settings reach the units.                    *)
(***************************************************************************)
EXTENDS IraccCmd, FiniteSetTheorems, WellFoundedInduction, TLAPS

-----------------------------------------------------------------------------
(* Types of the conversions *)

LEMMA AtoiType == \A v \in Value : Atoi(v) \in Int
  BY DEF Value, Atoi

LEMMA HundredthsType == \A n \in Int : Hundredths(n) \in {n, n - 1}
  BY DEF Hundredths

LEMMA TenthsRange ==
  ASSUME NEW c \in Command
  PROVE  Tenths(c.temp) \in 0..350
  <1>1. c.temp \in 0..3500
    BY DEF Command, NotSet, ModeNotSet
  <1>2. PICK n \in 0..3500 : n = c.temp
    BY <1>1, SMT
  <1>3. n \div 10 \in 0..350
    OBVIOUS
  <1> QED BY <1>2, <1>3 DEF Tenths

LEMMA NewCommandType == NewCommand \in Command
  BY DEF NewCommand, Command, NotSet, ModeNotSet

LEMMA AssignedType ==
  ASSUME NEW c \in Command, NEW key, NEW v \in Value, Accepts(key, v)
  PROVE  Assigned(c, key, v) \in Command
  <1>1. CASE key = "unit"
    <2>1. UnitId(v) \in 0..255
      BY AtoiType DEF UnitId
    <2> QED BY <1>1, <2>1 DEF Assigned, Command
  <1>2. CASE key = "mode"
    <2>1. WorkMode[v.word] \in {0, 1, 2, 3, 7}
      BY <1>2 DEF Accepts, WorkMode
    <2> QED BY <1>2, <2>1 DEF Assigned, Command
  <1>3. CASE key = "power"
    <2>1. PowerMode[v.word] \in {96, 97}
      BY <1>3 DEF Accepts, PowerMode
    <2> QED BY <1>3, <2>1 DEF Assigned, Command
  <1>4. CASE key = "wind"
    <2>1. WindLevel[v.word] \in {16, 32, 48, 64, 80}
      BY <1>4 DEF Accepts, WindLevel
    <2> QED BY <1>4, <2>1 DEF Assigned, Command
  <1>5. CASE key = "temp"
    <2>1. Hundredths(v.num) \in 0..3500
      BY <1>5 DEF Accepts
    <2> QED BY <1>5, <2>1 DEF Assigned, Command
  <1> QED BY <1>1, <1>2, <1>3, <1>4, <1>5 DEF Accepts

LEMMA RegValueType ==
  ASSUME NEW c \in Command
  PROVE  RegValue(c)[1] \in 0..255 /\ RegValue(c)[2] \in 0..255
  <1>1. Half(c.windLevel) \in 0..255 /\ Half(c.powerOn) \in 0..255
    BY DEF Half, Command, NotSet
  <1>2. Tenths(c.temp) \in 0..350
    BY TenthsRange
  <1>3. Tenths(c.temp) \div 256 \in 0..255 /\ Tenths(c.temp) % 256 \in 0..255
    BY <1>2
  <1>4. CASE c.windLevel # NotSet \/ c.powerOn # NotSet
    BY <1>1, <1>4 DEF RegValue
  <1>5. CASE ~(c.windLevel # NotSet \/ c.powerOn # NotSet) /\ c.workMode # ModeNotSet
    BY <1>5 DEF RegValue, Command, ModeNotSet
  <1>6. CASE ~(c.windLevel # NotSet \/ c.powerOn # NotSet) /\ c.workMode = ModeNotSet
    BY <1>3, <1>6 DEF RegValue
  <1> QED BY <1>4, <1>5, <1>6

-----------------------------------------------------------------------------
(* The type invariant *)

\* A value that no parameter left may be found before the first one only, and a
\* line that is full is parsed at once.
TypeInv ==
    /\ TypeOK
    /\ at > 1 => value # Unassigned
    /\ pc = "read" => Len(aline) < LineRoom

LEMMA Assumed ==
  /\ \A t \in Texts : t.lines \in Seq(Seq(Param)) /\ t \in Text
  /\ LineRoom \in Nat \ {0} /\ CmdCap \in Nat \ {0} /\ MaxTexts \in Nat
  /\ \A v \in StrayValues : v \in Value
  BY CmdAssumption, SMT DEF CmdAssumption, Text

LEMMA EmptySequences ==
  << >> \in Seq(Param) /\ << >> \in Seq(Seq(Param)) /\ << >> \in Seq(Command) /\ Len(<< >>) = 0
  OBVIOUS

LEMMA NoTextType == NoText \in Text
  <1>1. << << >> >> \in Seq(Seq(Param))
    OBVIOUS
  <1> QED BY <1>1 DEF NoText, Text

LEMMA Init_Type ==
  ASSUME Init
  PROVE  TypeInv
  <1>1. [u \in Devices |-> [windLevel |-> WindLevel.l, power |-> PowerMode.off]]
          \in [Devices -> Setting]
    BY DEF Setting, WindLevel, PowerMode
  <1>2. iu \in [Devices -> Setting] /\ setting \in [Devices -> Setting]
    BY <1>1 DEF Init
  <1>3. found \in BOOLEAN
    BY Zenon DEF Init
  <1> QED BY <1>2, <1>3, NewCommandType, NoTextType, EmptySequences, Assumed
          DEF Init, TypeInv, TypeOK

\* What the lines share.
LEMMA ParseLineType ==
  ASSUME ParseLine
  PROVE  /\ pc' = "params" /\ at' = 1 /\ iuc' \in Command /\ found' \in BOOLEAN
         /\ errors' \in Nat /\ value' = Unassigned
  <1>1. found' \in BOOLEAN
    BY Zenon DEF ParseLine
  <1> QED BY <1>1, NewCommandType DEF ParseLine

LEMMA ReadType ==
  ASSUME TypeInv, ReadParam
  PROVE  TypeInv'
  <1>1. unread[1] \in Seq(Param) /\ unread[1] # << >> /\ 1 \in 1..Len(unread)
    BY DEF ReadParam, TypeInv, TypeOK
  <1>2. Head(unread[1]) \in Param /\ Tail(unread[1]) \in Seq(Param)
    BY <1>1
  <1>3. aline' \in Seq(Param) /\ Len(aline') = Len(aline) + 1
    BY <1>2 DEF ReadParam, TypeInv, TypeOK
  <1>4. unread' \in Seq(Seq(Param))
    BY <1>2 DEF ReadParam, TypeInv, TypeOK
  <1>5. Len(aline') <= LineRoom
    BY <1>3, Assumed DEF TypeInv, TypeOK, ReadParam
  <1>6. CASE LineFull(aline')
    BY <1>3, <1>4, <1>5, <1>6, ParseLineType DEF ReadParam, TypeInv, TypeOK
  <1>7. CASE ~LineFull(aline')
    <2>1. Len(aline') < LineRoom
      BY <1>3, <1>5, <1>7, Assumed DEF LineFull
    <2>2. UNCHANGED <<pc, at, iuc, found, errors, value>>
      BY <1>7 DEF ReadParam, lineVars
    <2>3. UNCHANGED <<text, before, ret, cmds, written, iu, texts, setting>>
      BY DEF ReadParam
    <2>4. aline' \in Seq(Param) /\ Len(aline') <= LineRoom
      BY <1>3, <1>5
    <2> QED BY <1>4, <2>1, <2>2, <2>3, <2>4 DEF TypeInv, TypeOK
  <1> QED BY <1>6, <1>7

LEMMA TakeParamType ==
  ASSUME TypeInv, TakeParam
  PROVE  TypeInv'
  <1>1. aline[at] \in Param /\ at \in Nat \ {0}
    <2>1. aline \in Seq(Param) /\ at \in Nat \ {0} /\ at <= Len(aline)
      BY DEF TakeParam, TypeInv, TypeOK
    <2> QED BY <2>1
  <1>2. PICK v \in ValuesOf(aline[at]) :
          /\ value' = v
          /\ LET key == aline[at].key
             IN  IF key = "" \/ v = Empty THEN UNCHANGED <<iuc, found, errors>>
                 ELSE /\ found' = TRUE
                      /\ IF Accepts(key, v)
                           THEN iuc' = Assigned(iuc, key, v) /\ UNCHANGED errors
                           ELSE errors' = errors + 1 /\ UNCHANGED iuc
    BY DEF TakeParam
  <1>3. v \in Value
    <2>1. aline[at].value \in Value
      BY <1>1 DEF Param
    <2> QED BY <2>1, Assumed DEF ValuesOf, TypeInv, TypeOK
  <1>4. v # Unassigned
    BY <1>3 DEF Value
  <1>5. iuc \in Command /\ errors \in Nat /\ found \in BOOLEAN
    BY DEF TypeInv, TypeOK
  <1>6. \/ iuc' = iuc /\ found' = found /\ errors' = errors
        \/ found' = TRUE /\ Accepts(aline[at].key, v) /\ errors' = errors
           /\ iuc' = Assigned(iuc, aline[at].key, v)
        \/ found' = TRUE /\ errors' = errors + 1 /\ iuc' = iuc
    BY <1>2, Zenon
  <1>7. iuc' \in Command /\ errors' \in Nat
    BY <1>3, <1>5, <1>6, AssignedType
  <1>10. found' \in BOOLEAN
    BY <1>5, <1>6, Zenon
  <1>8. /\ at' = at + 1
        /\ UNCHANGED <<pc, text, unread, before, aline, ret, cmds, written, iu, texts, setting>>
    BY DEF TakeParam, readVars
  <1>9. value' \in Value \cup {Unassigned} /\ value' # Unassigned /\ at' \in Nat \ {0}
    <2>1. value' = v
      BY <1>2
    <2> QED BY <1>1, <1>3, <1>4, <1>8, <2>1
  <1> QED BY <1>7, <1>8, <1>9, <1>10 DEF TypeInv, TypeOK

LEMMA EndLineType ==
  ASSUME TypeInv, EndLine
  PROVE  TypeInv'
  <1>1. cmds' \in Seq(Command) /\ Len(cmds') <= CmdCap /\ ret' \in {0, -1}
    <2>1. CASE LineGood /\ Len(cmds) < CmdCap
      <3>1. cmds' = Append(cmds, iuc) /\ ret' = 0
        BY <2>1 DEF EndLine
      <3> QED BY <2>1, <3>1, Assumed DEF TypeInv, TypeOK
    <2>2. CASE ~(LineGood /\ Len(cmds) < CmdCap)
      <3>1. cmds' = cmds /\ ret' = -1
        BY <2>2 DEF EndLine
      <3> QED BY <3>1 DEF TypeInv, TypeOK
    <2> QED BY <2>1, <2>2
  <1>2. setting' \in [Devices -> Setting]
    <2>1. CASE setting' = setting
      BY <2>1 DEF TypeInv, TypeOK
    <2>2. CASE setting' = Settled(iuc)
      <3>1. iuc.windLevel \in -1..255 /\ iuc.powerOn \in -1..255
        <4>1. iuc \in Command
          BY DEF TypeInv, TypeOK
        <4> QED BY <4>1 DEF Command, NotSet
      <3>2. \A u \in Devices : setting[u].windLevel \in -1..255 /\ setting[u].power \in -1..255
                               /\ setting[u] \in Setting
        BY DEF TypeInv, TypeOK, Setting
      <3> QED BY <2>2, <3>1, <3>2 DEF Settled, Setting, Unclaimed
    <2> QED BY <2>1, <2>2 DEF EndLine
  <1>3. /\ pc' = "read" /\ aline' = << >>
        /\ UNCHANGED <<text, unread, before, at, iuc, found, errors, value, written, iu, texts>>
    BY DEF EndLine, readVars, lineVars
  <1> QED BY <1>1, <1>2, <1>3, EmptySequences, Assumed DEF TypeInv, TypeOK

LEMMA WriteType ==
  ASSUME TypeInv, WriteCommand
  PROVE  TypeInv'
  <1>1. written + 1 \in 1..Len(cmds) /\ cmds[written + 1] \in Command
    BY DEF WriteCommand, TypeInv, TypeOK
  <1>2. iu' \in [Devices -> Setting]
    <2>1. PICK reg, hi, lo : hi \in 0..255 /\ lo \in 0..255 /\ iu' = Preset(reg, hi, lo)
      BY <1>1, RegValueType DEF WriteCommand
    <2> QED BY <2>1 DEF Preset, Setting, TypeInv, TypeOK
  <1>3. /\ written' \in 0..CmdCap
    BY <1>1, Assumed DEF WriteCommand, TypeInv, TypeOK
  <1> QED BY <1>2, <1>3 DEF WriteCommand, readVars, lineVars, TypeInv, TypeOK

LEMMA Step_Type ==
  ASSUME TypeInv, [Next]_vars
  PROVE  TypeInv'
  <1> USE Assumed, EmptySequences
  <1>1. CASE TakeText
    <2>1. PICK t \in Texts : text' = t /\ unread' = t.lines
      BY <1>1 DEF TakeText
    <2>2. text' \in Text /\ unread' \in Seq(Seq(Param))
      BY <2>1
    <2>3. texts' \in 0..MaxTexts
      BY <1>1 DEF TakeText, TypeInv, TypeOK
    <2> QED BY <1>1, <2>2, <2>3 DEF TakeText, lineVars, TypeInv, TypeOK
  <1>2. CASE ReadNewline
    <2>1. unread' \in Seq(Seq(Param))
      BY <1>2 DEF ReadNewline, TypeInv, TypeOK
    <2> QED BY <1>2, <2>1, ParseLineType DEF ReadNewline, TypeInv, TypeOK
  <1>3. CASE ReadEnd
    <2>1. CASE Unfinished
      BY <1>3, <2>1, ParseLineType DEF ReadEnd, TypeInv, TypeOK
    <2>2. CASE ~Unfinished
      BY <1>3, <2>2 DEF ReadEnd, lineVars, TypeInv, TypeOK
    <2> QED BY <2>1, <2>2
  <1>4. CASE Return
    BY <1>4, NoTextType DEF Return, lineVars, TypeInv, TypeOK
  <1>5. CASE WriteComplete
    BY <1>5 DEF WriteComplete, readVars, lineVars, TypeInv, TypeOK
  <1>6. CASE UNCHANGED vars
    BY <1>6 DEF vars, readVars, lineVars, TypeInv, TypeOK
  <1> QED BY <1>1, <1>2, <1>3, <1>4, <1>5, <1>6, ReadType, TakeParamType, EndLineType,
             WriteType DEF Next

LEMMA TypeHolds == Spec => []TypeInv
  BY Init_Type, Step_Type, PTL DEF Spec

-----------------------------------------------------------------------------
(* What a line means: one more parameter *)

LEMMA LatestIsLast ==
  ASSUME NEW n \in Nat, NEW s \in SUBSET (1..n), n \in s
  PROVE  Latest(s) = n
  <1>1. \A i \in s : (\A j \in s : j <= i) <=> i = n
    OBVIOUS
  <1> QED BY <1>1, Zenon DEF Latest

\* The value is that of the parameter, or the one before it stays.
LEMMA ValueStep ==
  ASSUME NEW l, NEW n \in Nat \ {0}
  PROVE  /\ l[n].eq => ValueAt(l, n) = l[n].value
         /\ ~l[n].eq => ValueAt(l, n) = ValueAt(l, n - 1)
  <1>1. CASE l[n].eq
    <2>1. n \in {j \in 1..n : l[j].eq}
      BY <1>1
    <2>2. Latest({j \in 1..n : l[j].eq}) = n
      BY <2>1, LatestIsLast
    <2> QED BY <1>1, <2>2 DEF ValueAt
  <1>2. CASE ~l[n].eq
    <2>1. {j \in 1..n : l[j].eq} = {j \in 1..(n - 1) : l[j].eq}
      BY <1>2
    <2> QED BY <1>2, <2>1 DEF ValueAt
  <1> QED BY <1>1, <1>2

LEMMA OneMore ==
  ASSUME NEW n \in Nat \ {0}
  PROVE  /\ \A i \in 1..n : i \in 1..(n - 1) \/ i = n
         /\ \A i \in 1..(n - 1) : i \in 1..n
         /\ n \in 1..n
  OBVIOUS

\* A parameter without a key or a value changes nothing of what the line says.
LEMMA PassedOver ==
  ASSUME NEW l, NEW n \in Nat \ {0}, l[n].key = "" \/ ValueAt(l, n) = Empty
  PROVE  /\ Counted(l, n) = Counted(l, n - 1)
         /\ \A key : Naming(l, n, key) = Naming(l, n - 1, key)
  <1>1. Counted(l, n) = Counted(l, n - 1)
    BY OneMore, Zenon DEF Counted
  <1> QED BY <1>1, Zenon DEF Naming

\* Any other one is the latest of its key, and leaves the other keys alone.
LEMMA TakenIn ==
  ASSUME NEW l, NEW n \in Nat \ {0}, l[n].key # "", ValueAt(l, n) # Empty
  PROVE  /\ Counted(l, n) = Counted(l, n - 1) \cup {n}
         /\ Says(l, n, l[n].key) /\ Said(l, n, l[n].key) = ValueAt(l, n)
         /\ \A key : key # l[n].key => /\ Says(l, n, key) <=> Says(l, n - 1, key)
                                       /\ Said(l, n, key) = Said(l, n - 1, key)
  <1>1. Counted(l, n) = Counted(l, n - 1) \cup {n}
    BY OneMore, Zenon DEF Counted
  <1>2. Naming(l, n, l[n].key) \in SUBSET (1..n) /\ n \in Naming(l, n, l[n].key)
    BY <1>1 DEF Naming, Counted
  <1>3. Latest(Naming(l, n, l[n].key)) = n
    BY <1>2, LatestIsLast
  <1>4. ASSUME NEW key, key # l[n].key PROVE Naming(l, n, key) = Naming(l, n - 1, key)
    <2>1. \A i : i \in Naming(l, n, key) <=> i \in Naming(l, n - 1, key)
      BY <1>1, <1>4, Zenon DEF Naming
    <2>2. \A i \in Naming(l, n, key) : i \in Naming(l, n - 1, key)
      BY <2>1, Zenon
    <2>3. \A i \in Naming(l, n - 1, key) : i \in Naming(l, n, key)
      BY <2>1, Zenon
    <2> QED BY <2>2, <2>3, Zenon
  <1> QED BY <1>1, <1>2, <1>3, <1>4, Zenon DEF Says, Said

LEMMA NothingYet ==
  ASSUME NEW l
  PROVE  Counted(l, 0) = {} /\ \A key : ~Says(l, 0, key)
  <1>1. Counted(l, 0) = {}
    BY DEF Counted
  <1> QED BY <1>1, Zenon DEF Says, Naming

-----------------------------------------------------------------------------
(* The invariant of a line *)

MeansTemp(l, n, c) ==
    c.temp = IF Says(l, n, "temp") THEN Hundredths(Said(l, n, "temp").num) ELSE NotSet

InRange(v) == v \in Value /\ Hundredths(v.num) \in 1500..3500

TempAccepted(l, n) == Says(l, n, "temp") => InRange(Said(l, n, "temp"))

\* What the loop knows before it takes a parameter.
LineInv ==
    pc = "params" /\ Defined(aline) =>
        /\ at > 1 => value = ValueAt(aline, at - 1)
        /\ found <=> Counted(aline, at - 1) # {}
        /\ errors = 0 <=> AllAccepted(aline, at - 1)
        /\ errors = 0 => /\ Means(aline, at - 1, iuc)
                         /\ MeansTemp(aline, at - 1, iuc)
                         /\ TempAccepted(aline, at - 1)

LEMMA LineBegins ==
  ASSUME ParseLine
  PROVE  LineInv'
  <1>1. /\ at' = 1 /\ iuc' = NewCommand /\ found' = FALSE /\ errors' = 0
        /\ at' - 1 = 0
    BY DEF ParseLine
  <1>2. Counted(aline', 0) = {} /\ \A key : ~Says(aline', 0, key)
    BY NothingYet
  <1>3. AllAccepted(aline', 0) /\ TempAccepted(aline', 0)
    BY <1>2 DEF AllAccepted, TempAccepted
  <1>4. Means(aline', 0, NewCommand) /\ MeansTemp(aline', 0, NewCommand)
    BY <1>2 DEF Means, MeansTemp, NewCommand
  <1> QED BY <1>1, <1>2, <1>3, <1>4 DEF LineInv

\* A parameter assigns its own field of the command.
LEMMA AssignsUnitId ==
  ASSUME NEW c \in Command, NEW v
  PROVE  LET d == Assigned(c, "unit", v)
         IN  /\ d.unitId = UnitId(v) /\ d.workMode = c.workMode /\ d.powerOn = c.powerOn
             /\ d.windLevel = c.windLevel /\ d.temp = c.temp
  <1>1. Assigned(c, "unit", v) = [c EXCEPT !.unitId = UnitId(v)]
    BY DEF Assigned
  <1>2. PICK x : x = UnitId(v)
    OBVIOUS
  <1>3. PICK d : d = [c EXCEPT !.unitId = x]
    OBVIOUS
  <1>4. /\ d.unitId = x /\ d.workMode = c.workMode /\ d.powerOn = c.powerOn
        /\ d.windLevel = c.windLevel /\ d.temp = c.temp
    BY <1>3 DEF Command
  <1> QED BY <1>1, <1>2, <1>3, <1>4

LEMMA AssignsWorkMode ==
  ASSUME NEW c \in Command, NEW v
  PROVE  LET d == Assigned(c, "mode", v)
         IN  /\ d.workMode = WorkMode[v.word] /\ d.unitId = c.unitId /\ d.powerOn = c.powerOn
             /\ d.windLevel = c.windLevel /\ d.temp = c.temp
  <1>1. Assigned(c, "mode", v) = [c EXCEPT !.workMode = WorkMode[v.word]]
    BY DEF Assigned
  <1>2. PICK x : x = WorkMode[v.word]
    OBVIOUS
  <1>3. PICK d : d = [c EXCEPT !.workMode = x]
    OBVIOUS
  <1>4. /\ d.workMode = x /\ d.unitId = c.unitId /\ d.powerOn = c.powerOn
        /\ d.windLevel = c.windLevel /\ d.temp = c.temp
    BY <1>3 DEF Command
  <1> QED BY <1>1, <1>2, <1>3, <1>4

LEMMA AssignsPowerOn ==
  ASSUME NEW c \in Command, NEW v
  PROVE  LET d == Assigned(c, "power", v)
         IN  /\ d.powerOn = PowerMode[v.word] /\ d.unitId = c.unitId /\ d.workMode = c.workMode
             /\ d.windLevel = c.windLevel /\ d.temp = c.temp
  <1>1. Assigned(c, "power", v) = [c EXCEPT !.powerOn = PowerMode[v.word]]
    BY DEF Assigned
  <1>2. PICK x : x = PowerMode[v.word]
    OBVIOUS
  <1>3. PICK d : d = [c EXCEPT !.powerOn = x]
    OBVIOUS
  <1>4. /\ d.powerOn = x /\ d.unitId = c.unitId /\ d.workMode = c.workMode
        /\ d.windLevel = c.windLevel /\ d.temp = c.temp
    BY <1>3 DEF Command
  <1> QED BY <1>1, <1>2, <1>3, <1>4

LEMMA AssignsWindLevel ==
  ASSUME NEW c \in Command, NEW v
  PROVE  LET d == Assigned(c, "wind", v)
         IN  /\ d.windLevel = WindLevel[v.word] /\ d.unitId = c.unitId /\ d.workMode = c.workMode
             /\ d.powerOn = c.powerOn /\ d.temp = c.temp
  <1>1. Assigned(c, "wind", v) = [c EXCEPT !.windLevel = WindLevel[v.word]]
    BY DEF Assigned
  <1>2. PICK x : x = WindLevel[v.word]
    OBVIOUS
  <1>3. PICK d : d = [c EXCEPT !.windLevel = x]
    OBVIOUS
  <1>4. /\ d.windLevel = x /\ d.unitId = c.unitId /\ d.workMode = c.workMode
        /\ d.powerOn = c.powerOn /\ d.temp = c.temp
    BY <1>3 DEF Command
  <1> QED BY <1>1, <1>2, <1>3, <1>4

LEMMA AssignsTemp ==
  ASSUME NEW c \in Command, NEW v
  PROVE  LET d == Assigned(c, "temp", v)
         IN  /\ d.temp = Hundredths(v.num) /\ d.unitId = c.unitId /\ d.workMode = c.workMode
             /\ d.powerOn = c.powerOn /\ d.windLevel = c.windLevel
  <1>1. Assigned(c, "temp", v) = [c EXCEPT !.temp = Hundredths(v.num)]
    BY DEF Assigned
  <1>2. PICK x : x = Hundredths(v.num)
    OBVIOUS
  <1>3. PICK d : d = [c EXCEPT !.temp = x]
    OBVIOUS
  <1>4. /\ d.temp = x /\ d.unitId = c.unitId /\ d.workMode = c.workMode
        /\ d.powerOn = c.powerOn /\ d.windLevel = c.windLevel
    BY <1>3 DEF Command
  <1> QED BY <1>1, <1>2, <1>3, <1>4

\* An accepted parameter decides what its key says.
LEMMA AssignedMeans ==
  ASSUME NEW l, NEW n \in Nat \ {0}, NEW c \in Command, NEW v \in Value, NEW key, NEW d,
         v = ValueAt(l, n), key = l[n].key, d = Assigned(c, key, v),
         key # "", v # Empty, Accepts(key, v),
         Means(l, n - 1, c), MeansTemp(l, n - 1, c), TempAccepted(l, n - 1)
  PROVE  Means(l, n, d) /\ MeansTemp(l, n, d) /\ TempAccepted(l, n)
  <1>1. /\ Says(l, n, key) /\ Said(l, n, key) = v
        /\ \A k : k # key => /\ Says(l, n, k) <=> Says(l, n - 1, k)
                             /\ Said(l, n, k) = Said(l, n - 1, k)
    BY TakenIn
  <1>2. CASE key = "unit"
    <2>1. /\ d.unitId = UnitId(v)
          /\ d.workMode = c.workMode /\ d.powerOn = c.powerOn
          /\ d.windLevel = c.windLevel /\ d.temp = c.temp
      BY <1>2, AssignsUnitId, Zenon
    <2>2. /\ (Says(l, n, "mode") <=> Says(l, n - 1, "mode")) /\ Said(l, n, "mode") = Said(l, n - 1, "mode")
          /\ (Says(l, n, "power") <=> Says(l, n - 1, "power")) /\ Said(l, n, "power") = Said(l, n - 1, "power")
          /\ (Says(l, n, "wind") <=> Says(l, n - 1, "wind")) /\ Said(l, n, "wind") = Said(l, n - 1, "wind")
          /\ (Says(l, n, "temp") <=> Says(l, n - 1, "temp")) /\ Said(l, n, "temp") = Said(l, n - 1, "temp")
      BY <1>1, <1>2
    <2>3. Says(l, n, "unit") /\ Said(l, n, "unit") = v
      BY <1>1, <1>2
    <2>5. Means(l, n, d)
      BY <2>1, <2>2, <2>3 DEF Means, UnitId
    <2>6. MeansTemp(l, n, d)
      BY <2>1, <2>2, <2>3 DEF MeansTemp
    <2>7. TempAccepted(l, n)
      BY <2>2, <2>3 DEF TempAccepted
    <2> QED BY <2>5, <2>6, <2>7
  <1>3. CASE key = "mode"
    <2>1. /\ d.workMode = WorkMode[v.word]
          /\ d.unitId = c.unitId /\ d.powerOn = c.powerOn
          /\ d.windLevel = c.windLevel /\ d.temp = c.temp
      BY <1>3, AssignsWorkMode, Zenon
    <2>2. /\ (Says(l, n, "unit") <=> Says(l, n - 1, "unit")) /\ Said(l, n, "unit") = Said(l, n - 1, "unit")
          /\ (Says(l, n, "power") <=> Says(l, n - 1, "power")) /\ Said(l, n, "power") = Said(l, n - 1, "power")
          /\ (Says(l, n, "wind") <=> Says(l, n - 1, "wind")) /\ Said(l, n, "wind") = Said(l, n - 1, "wind")
          /\ (Says(l, n, "temp") <=> Says(l, n - 1, "temp")) /\ Said(l, n, "temp") = Said(l, n - 1, "temp")
      BY <1>1, <1>3
    <2>3. Says(l, n, "mode") /\ Said(l, n, "mode") = v
      BY <1>1, <1>3
    <2>5. Means(l, n, d)
      BY <2>1, <2>2, <2>3 DEF Means
    <2>6. MeansTemp(l, n, d)
      BY <2>1, <2>2, <2>3 DEF MeansTemp
    <2>7. TempAccepted(l, n)
      BY <2>2, <2>3 DEF TempAccepted
    <2> QED BY <2>5, <2>6, <2>7
  <1>4. CASE key = "power"
    <2>1. /\ d.powerOn = PowerMode[v.word]
          /\ d.unitId = c.unitId /\ d.workMode = c.workMode
          /\ d.windLevel = c.windLevel /\ d.temp = c.temp
      BY <1>4, AssignsPowerOn, Zenon
    <2>2. /\ (Says(l, n, "unit") <=> Says(l, n - 1, "unit")) /\ Said(l, n, "unit") = Said(l, n - 1, "unit")
          /\ (Says(l, n, "mode") <=> Says(l, n - 1, "mode")) /\ Said(l, n, "mode") = Said(l, n - 1, "mode")
          /\ (Says(l, n, "wind") <=> Says(l, n - 1, "wind")) /\ Said(l, n, "wind") = Said(l, n - 1, "wind")
          /\ (Says(l, n, "temp") <=> Says(l, n - 1, "temp")) /\ Said(l, n, "temp") = Said(l, n - 1, "temp")
      BY <1>1, <1>4
    <2>3. Says(l, n, "power") /\ Said(l, n, "power") = v
      BY <1>1, <1>4
    <2>5. Means(l, n, d)
      BY <2>1, <2>2, <2>3 DEF Means
    <2>6. MeansTemp(l, n, d)
      BY <2>1, <2>2, <2>3 DEF MeansTemp
    <2>7. TempAccepted(l, n)
      BY <2>2, <2>3 DEF TempAccepted
    <2> QED BY <2>5, <2>6, <2>7
  <1>5. CASE key = "wind"
    <2>1. /\ d.windLevel = WindLevel[v.word]
          /\ d.unitId = c.unitId /\ d.workMode = c.workMode
          /\ d.powerOn = c.powerOn /\ d.temp = c.temp
      BY <1>5, AssignsWindLevel, Zenon
    <2>2. /\ (Says(l, n, "unit") <=> Says(l, n - 1, "unit")) /\ Said(l, n, "unit") = Said(l, n - 1, "unit")
          /\ (Says(l, n, "mode") <=> Says(l, n - 1, "mode")) /\ Said(l, n, "mode") = Said(l, n - 1, "mode")
          /\ (Says(l, n, "power") <=> Says(l, n - 1, "power")) /\ Said(l, n, "power") = Said(l, n - 1, "power")
          /\ (Says(l, n, "temp") <=> Says(l, n - 1, "temp")) /\ Said(l, n, "temp") = Said(l, n - 1, "temp")
      BY <1>1, <1>5
    <2>3. Says(l, n, "wind") /\ Said(l, n, "wind") = v
      BY <1>1, <1>5
    <2>5. Means(l, n, d)
      BY <2>1, <2>2, <2>3 DEF Means
    <2>6. MeansTemp(l, n, d)
      BY <2>1, <2>2, <2>3 DEF MeansTemp
    <2>7. TempAccepted(l, n)
      BY <2>2, <2>3 DEF TempAccepted
    <2> QED BY <2>5, <2>6, <2>7
  <1>6. CASE key = "temp"
    <2>1. /\ d.temp = Hundredths(v.num)
          /\ d.unitId = c.unitId /\ d.workMode = c.workMode
          /\ d.powerOn = c.powerOn /\ d.windLevel = c.windLevel
      BY <1>6, AssignsTemp, Zenon
    <2>2. /\ (Says(l, n, "unit") <=> Says(l, n - 1, "unit")) /\ Said(l, n, "unit") = Said(l, n - 1, "unit")
          /\ (Says(l, n, "mode") <=> Says(l, n - 1, "mode")) /\ Said(l, n, "mode") = Said(l, n - 1, "mode")
          /\ (Says(l, n, "power") <=> Says(l, n - 1, "power")) /\ Said(l, n, "power") = Said(l, n - 1, "power")
          /\ (Says(l, n, "wind") <=> Says(l, n - 1, "wind")) /\ Said(l, n, "wind") = Said(l, n - 1, "wind")
      BY <1>1, <1>6
    <2>3. Says(l, n, "temp") /\ Said(l, n, "temp") = v
      BY <1>1, <1>6
    <2>4. InRange(v)
      BY <1>6 DEF Accepts, InRange
    <2>5. Means(l, n, d)
      BY <2>1, <2>2, <2>3 DEF Means
    <2>6. MeansTemp(l, n, d)
      BY <2>1, <2>2, <2>3 DEF MeansTemp
    <2>7. TempAccepted(l, n)
      BY <2>2, <2>3, <2>4 DEF TempAccepted
    <2> QED BY <2>5, <2>6, <2>7
  <1> QED BY <1>2, <1>3, <1>4, <1>5, <1>6, Zenon DEF Accepts

LEMMA TakeParamLine ==
  ASSUME TypeInv, LineInv, TakeParam
  PROVE  LineInv'
  <1> SUFFICES ASSUME Defined(aline) PROVE LineInv'
    BY DEF TakeParam, LineInv
  <1>1. /\ aline # << >> /\ aline[at] \in Param /\ at \in Nat \ {0} /\ iuc \in Command /\ errors \in Nat
        /\ pc = "params" /\ aline' = aline /\ at' - 1 = at /\ at' > 1
    <2>1. aline \in Seq(Param) /\ at \in Nat \ {0} /\ iuc \in Command /\ errors \in Nat
      BY DEF TypeInv, TypeOK
    <2>2. at <= Len(aline) /\ pc = "params" /\ aline' = aline /\ at' = at + 1
      BY DEF TakeParam
    <2> QED BY <2>1, <2>2
  <1> DEFINE key == aline[at].key
             v == ValueAt(aline, at)
  <1>2. value' = v /\ v \in Value /\ ValuesOf(aline[at]) = {v}
    <2>1. CASE aline[at].eq
      <3>1. v = aline[at].value
        BY <1>1, <2>1, ValueStep
      <3>2. v \in Value
        BY <1>1, <3>1 DEF Param
      <3> QED BY <2>1, <3>1, <3>2, Zenon DEF ValuesOf, TakeParam
    <2>2. CASE ~aline[at].eq
      <3>1. at > 1
        BY <1>1, <2>2 DEF Defined
      <3>2. value = ValueAt(aline, at - 1) /\ value \in Value
        BY <1>1, <3>1 DEF LineInv, TypeInv, TypeOK
      <3>3. value = v /\ value # Unassigned
        BY <1>1, <2>2, <3>1, <3>2, ValueStep DEF TypeInv
      <3> QED BY <2>2, <3>2, <3>3, Zenon DEF ValuesOf, TakeParam
    <2> QED BY <2>1, <2>2
  <1>3. CASE key = "" \/ v = Empty
    <2>1. iuc' = iuc /\ found' = found /\ errors' = errors
      BY <1>2, <1>3, Zenon DEF TakeParam
    <2>2. /\ Counted(aline, at) = Counted(aline, at - 1)
          /\ \A k : Naming(aline, at, k) = Naming(aline, at - 1, k)
      BY <1>1, <1>3, PassedOver
    <2>3. \A k : /\ Says(aline, at, k) <=> Says(aline, at - 1, k)
                 /\ Said(aline, at, k) = Said(aline, at - 1, k)
      BY <2>2, Zenon DEF Says, Said
    <2>4. AllAccepted(aline, at) <=> AllAccepted(aline, at - 1)
      BY <2>2, Zenon DEF AllAccepted
    <2>5. /\ Means(aline, at, iuc) <=> Means(aline, at - 1, iuc)
          /\ MeansTemp(aline, at, iuc) <=> MeansTemp(aline, at - 1, iuc)
          /\ TempAccepted(aline, at) <=> TempAccepted(aline, at - 1)
      BY <2>3 DEF Means, MeansTemp, TempAccepted
    <2> QED BY <1>1, <1>2, <2>1, <2>2, <2>4, <2>5 DEF LineInv
  <1>4. CASE ~(key = "" \/ v = Empty)
    <2>1. /\ found' = TRUE
          /\ \/ Accepts(key, v) /\ errors' = errors /\ iuc' = Assigned(iuc, key, v)
             \/ ~Accepts(key, v) /\ errors' = errors + 1 /\ iuc' = iuc
      BY <1>2, <1>4, Zenon DEF TakeParam
    <2>2. Counted(aline, at) = Counted(aline, at - 1) \cup {at}
      BY <1>1, <1>4, TakenIn
    <2>3. AllAccepted(aline, at) <=> AllAccepted(aline, at - 1) /\ Accepts(key, v)
      BY <2>2, Zenon DEF AllAccepted
    <2>4. errors' = 0 <=> AllAccepted(aline, at)
      BY <1>1, <2>1, <2>3 DEF LineInv
    <2>5. errors' = 0 => /\ Means(aline, at, iuc') /\ MeansTemp(aline, at, iuc')
                         /\ TempAccepted(aline, at)
      <3>1. ASSUME errors' = 0
            PROVE  /\ Accepts(key, v) /\ iuc' = Assigned(iuc, key, v)
                   /\ Means(aline, at - 1, iuc) /\ MeansTemp(aline, at - 1, iuc)
                   /\ TempAccepted(aline, at - 1)
        BY <1>1, <2>1, <3>1 DEF LineInv
      <3> QED BY <1>1, <1>2, <1>4, <3>1, AssignedMeans
    <2>6. found' <=> Counted(aline, at) # {}
      BY <2>1, <2>2, Zenon
    <2> QED BY <1>1, <1>2, <2>4, <2>5, <2>6 DEF LineInv
  <1> QED BY <1>3, <1>4

LEMMA Step_Line ==
  ASSUME TypeInv, LineInv, [Next]_vars
  PROVE  LineInv'
  <1>1. CASE ReadParam
    <2>1. CASE LineFull(aline')
      BY <1>1, <2>1, LineBegins DEF ReadParam
    <2>2. CASE ~LineFull(aline')
      BY <1>1, <2>2 DEF ReadParam, LineInv
    <2> QED BY <2>1, <2>2
  <1>2. CASE ReadNewline
    BY <1>2, LineBegins DEF ReadNewline
  <1>3. CASE ReadEnd
    BY <1>3, LineBegins DEF ReadEnd, LineInv
  <1>4. CASE TakeText \/ EndLine \/ Return \/ WriteCommand \/ WriteComplete
    <2>1. pc' # "params"
      BY <1>4 DEF TakeText, EndLine, Return, WriteCommand, WriteComplete
    <2> QED BY <2>1 DEF LineInv
  <1>5. CASE UNCHANGED vars
    BY <1>5 DEF vars, lineVars, LineInv
  <1> QED BY <1>1, <1>2, <1>3, <1>4, <1>5, TakeParamLine DEF Next

LEMMA LineHolds == Spec => []LineInv
  <1>1. Init => LineInv
    BY DEF Init, LineInv
  <1> QED BY <1>1, Step_Line, TypeHolds, PTL DEF Spec

-----------------------------------------------------------------------------
(* Temperatures *)

\* A tenth that is lost is lost once: the next lower one is stable.
LEMMA LosesOnce ==
  ASSUME NEW q \in Int, LosesOne(10 * q)
  PROVE  ~LosesOne(10 * (q - 1))
  <1>1. PICK k \in Int, s \in 33..50 :
          \/ 10 * q \in 1600..2047 /\ 560 * q = 100 * k + s
          \/ 10 * q >= 3200 /\ 280 * q = 100 * k + s
    <2>1. CASE 10 * q \in 1600..2047 /\ (56 * (10 * q)) % 100 \in 33..50
      <3>1. 560 * q = 100 * ((560 * q) \div 100) + ((560 * q) % 100)
        OBVIOUS
      <3> QED BY <2>1, <3>1
    <2>2. CASE 10 * q >= 3200 /\ (28 * (10 * q)) % 100 \in 33..50
      <3>1. 280 * q = 100 * ((280 * q) \div 100) + ((280 * q) % 100)
        OBVIOUS
      <3> QED BY <2>2, <3>1
    <2> QED BY <2>1, <2>2 DEF LosesOne
  <1>2. CASE 10 * q \in 1600..2047 /\ 560 * q = 100 * k + s
    <2>1. s = 40
      BY <1>2
    <2>2. (56 * (10 * (q - 1))) % 100 = 80
      BY <1>2, <2>1
    <2> QED BY <1>2, <2>2 DEF LosesOne
  <1>3. CASE 10 * q >= 3200 /\ 280 * q = 100 * k + s
    <2>1. s = 40
      BY <1>3
    <2>2. (28 * (10 * (q - 1))) % 100 = 60
      BY <1>3, <2>1
    <2> QED BY <1>3, <2>2 DEF LosesOne
  <1> QED BY <1>1, <1>2, <1>3

LEMMA AgainType ==
  ASSUME NEW q \in Int
  PROVE  Again(q) = IF LosesOne(10 * q) THEN q - 1 ELSE q
  <1>1. (10 * q) \div 10 = q /\ (10 * q - 1) \div 10 = q - 1
    OBVIOUS
  <1> QED BY <1>1 DEF Again, Tenths, Hundredths

LEMMA WithinTenth ==
  ASSUME NEW n \in Int
  PROVE  LET tenths == Tenths(Hundredths(n))
         IN  /\ tenths <= Tenths(n)
             /\ Again(tenths) >= Tenths(n) - 1
             /\ Again(Again(tenths)) = Again(tenths)
  <1>1. PICK q \in Int, r \in 0..9 : n = 10 * q + r
    <2>1. n = 10 * (n \div 10) + (n % 10) /\ n % 10 \in 0..9 /\ n \div 10 \in Int
      OBVIOUS
    <2> QED BY <2>1
  <1>2. Tenths(n) = q
    BY <1>1 DEF Tenths
  <1> DEFINE t == Tenths(Hundredths(n))
  <1>3. t \in Int /\ (t = q \/ (t = q - 1 /\ LosesOne(10 * q)))
    <2>1. CASE LosesOne(n) /\ r = 0
      <3>1. n = 10 * q /\ (n - 1) \div 10 = q - 1
        BY <1>1, <2>1
      <3> QED BY <2>1, <3>1 DEF Tenths, Hundredths
    <2>2. CASE LosesOne(n) /\ r # 0
      <3>1. (n - 1) \div 10 = q
        <4>1. n - 1 = 10 * q + (r - 1) /\ r - 1 \in 0..9
          BY <1>1, <2>2
        <4> QED BY <4>1
      <3>2. Tenths(Hundredths(n)) = q
        BY <2>2, <3>1 DEF Tenths, Hundredths
      <3> QED BY <3>2
    <2>3. CASE ~LosesOne(n)
      <3>1. Tenths(Hundredths(n)) = q
        BY <1>2, <2>3 DEF Tenths, Hundredths
      <3> QED BY <3>1
    <2> QED BY <2>1, <2>2, <2>3
  <1> HIDE DEF t
  <1>4. /\ Again(t) = IF LosesOne(10 * t) THEN t - 1 ELSE t
        /\ Again(t - 1) = IF LosesOne(10 * (t - 1)) THEN t - 2 ELSE t - 1
    <2>1. t - 1 \in Int /\ (t - 1) - 1 = t - 2
      BY <1>3
    <2> QED BY <1>3, <2>1, AgainType
  <1>5. LosesOne(10 * t) => ~LosesOne(10 * (t - 1))
    BY <1>3, LosesOnce
  <1>6. t = q - 1 /\ LosesOne(10 * q) => ~LosesOne(10 * t)
    BY LosesOnce
  <1>7. Again(Again(t)) = Again(t)
    BY <1>3, <1>4, <1>5
  <1>8. t <= q /\ Again(t) >= q - 1
    BY <1>3, <1>4, <1>6
  <1> QED BY <1>2, <1>7, <1>8 DEF t

-----------------------------------------------------------------------------
(* The settings *)

\* The commands that are still to be written to a unit, and those of them that
\* decide its wind level: all but the ones that set the power alone.
Waiting(u) == {i \in written + 1..Len(cmds) : cmds[i].unitId = u}
DecidesWind(c) == c.windLevel # NotSet \/ c.powerOn = NotSet
DecidesPower(c) == c.powerOn # NotSet \/ c.windLevel = NotSet
WindWaiting(u) == {i \in Waiting(u) : DecidesWind(cmds[i])}
PowerWaiting(u) == {i \in Waiting(u) : DecidesPower(cmds[i])}

\* A setting that no waiting command decides is in the unit, another one is that
\* of the last command that does.
WindInv(u) ==
    /\ WindWaiting(u) = {} => setting[u].windLevel \in {Unclaimed, iu[u].windLevel}
    /\ \A i \in WindWaiting(u) : (\A j \in WindWaiting(u) : j <= i) =>
          setting[u].windLevel = IF cmds[i].windLevel = NotSet THEN Unclaimed
                                 ELSE cmds[i].windLevel

PowerInv(u) ==
    /\ PowerWaiting(u) = {} => setting[u].power \in {Unclaimed, iu[u].power}
    /\ \A i \in PowerWaiting(u) : (\A j \in PowerWaiting(u) : j <= i) =>
          setting[u].power = IF cmds[i].powerOn = NotSet THEN Unclaimed ELSE cmds[i].powerOn

SettingInv ==
    /\ written <= Len(cmds)
    /\ pc # "write" => written = 0
    /\ \A u \in Devices : WindInv(u) /\ PowerInv(u)

LEMMA RegisterOf == \A u, v \in 0..255 : PRESET_REG(u) = PRESET_REG(v) <=> u = v
  BY DEF PRESET_REG, REG_START

\* What a command writes into the half of the register that it decides.
LEMMA Halves ==
  ASSUME NEW c \in Command
  PROVE  /\ ~DecidesWind(c) => RegValue(c)[1] = 255
         /\ c.windLevel # NotSet => RegValue(c)[1] = c.windLevel /\ c.windLevel # 255
         /\ ~DecidesPower(c) => RegValue(c)[2] = 255
         /\ c.powerOn # NotSet => RegValue(c)[2] = c.powerOn /\ c.powerOn # 255
  <1>1. c.windLevel # 255 /\ c.powerOn # 255
    BY DEF Command, NotSet
  <1>2. c.windLevel # NotSet \/ c.powerOn # NotSet =>
          RegValue(c)[1] = Half(c.windLevel) /\ RegValue(c)[2] = Half(c.powerOn)
    BY DEF RegValue
  <1> QED BY <1>1, <1>2 DEF Half, DecidesWind, DecidesPower

\* The unit that a command writes to, and the others.
LEMMA PresetUnit ==
  ASSUME TypeInv, WriteCommand, NEW u \in Devices
  PROVE  LET c == cmds[written + 1]
         IN  /\ c \in Command
             /\ u # c.unitId => iu'[u] = iu[u]
             /\ u = c.unitId =>
                  /\ iu'[u].windLevel = IF RegValue(c)[1] = 255 THEN iu[u].windLevel ELSE RegValue(c)[1]
                  /\ iu'[u].power = IF RegValue(c)[2] = 255 THEN iu[u].power ELSE RegValue(c)[2]
  <1>1. PICK c \in Command : c = cmds[written + 1] /\ written + 1 \in 1..Len(cmds)
    BY DEF WriteCommand, TypeInv, TypeOK
  <1>2. iu' = Preset(PRESET_REG(c.unitId), RegValue(c)[1], RegValue(c)[2])
    BY <1>1, Zenon DEF WriteCommand
  <1>3. u \in 0..255 /\ c.unitId \in 0..255
    BY CmdAssumption DEF Command
  <1>4. PRESET_REG(u) = PRESET_REG(c.unitId) <=> u = c.unitId
    BY <1>3, RegisterOf
  <1>5. iu'[u] = IF PRESET_REG(u) # PRESET_REG(c.unitId) THEN iu[u]
                 ELSE [windLevel |-> IF RegValue(c)[1] = 255 THEN iu[u].windLevel ELSE RegValue(c)[1],
                       power |-> IF RegValue(c)[2] = 255 THEN iu[u].power ELSE RegValue(c)[2]]
    BY <1>2, Zenon DEF Preset
  <1> QED BY <1>1, <1>4, <1>5

LEMMA WriteWind ==
  ASSUME TypeInv, SettingInv, WriteCommand, NEW u \in Devices
  PROVE  WindInv(u)'
  <1> DEFINE w == WindWaiting(u)
             i == written + 1
  <1>1. PICK c \in Command : c = cmds[i]
    BY PresetUnit
  <1>2. written \in Nat /\ i <= Len(cmds) /\ Len(cmds) \in Nat /\ cmds' = cmds /\ written' = i
        /\ setting' = setting
    BY DEF WriteCommand, TypeInv, TypeOK
  <1>3. \A j : j \in WindWaiting(u)' <=> j \in w /\ j # i
    <2>1. \A j \in Nat : j \in i + 1..Len(cmds) <=> j \in written + 1..Len(cmds) /\ j # i
      BY <1>2
    <2>2. /\ \A j \in i + 1..Len(cmds) : j \in Nat
          /\ \A j \in written + 1..Len(cmds) : j \in Nat
      BY <1>2
    <2> QED BY <1>2, <2>1, <2>2, Zenon DEF WindWaiting, Waiting
  <1>4. i \in w <=> u = c.unitId /\ DecidesWind(c)
    <2>1. i \in written + 1..Len(cmds)
      BY <1>2
    <2> QED BY <1>1, <2>1, Zenon DEF WindWaiting, Waiting
  <1>5. /\ u # c.unitId \/ ~DecidesWind(c) => iu'[u].windLevel = iu[u].windLevel
        /\ u = c.unitId /\ c.windLevel # NotSet => iu'[u].windLevel = c.windLevel
    BY <1>1, PresetUnit, Halves
  <1>6. WindInv(u)
    BY DEF SettingInv
  <1>7. CASE WindWaiting(u)' = {}
    <2>1. CASE i \in w
      <3>1. \A j \in w : j <= i
        BY <1>2, <1>3, <1>7
      <3>2. setting[u].windLevel = IF c.windLevel = NotSet THEN Unclaimed ELSE c.windLevel
        BY <1>1, <1>6, <2>1, <3>1 DEF WindInv
      <3> QED BY <1>2, <1>4, <1>5, <1>7, <2>1, <3>2 DEF WindInv
    <2>2. CASE i \notin w
      <3>1. w = {}
        BY <1>3, <1>7, <2>2
      <3> QED BY <1>2, <1>4, <1>5, <1>6, <1>7, <2>2, <3>1 DEF WindInv
    <2> QED BY <2>1, <2>2
  <1>8. CASE WindWaiting(u)' # {}
    <2>1. ASSUME NEW k \in WindWaiting(u)', \A j \in WindWaiting(u)' : j <= k
          PROVE  setting[u].windLevel = IF cmds[k].windLevel = NotSet THEN Unclaimed ELSE cmds[k].windLevel
      <3>1. k \in w /\ i <= k
        BY <1>2, <1>3 DEF WindWaiting, Waiting
      <3>2. \A j \in w : j <= k
        BY <1>3, <2>1, <3>1
      <3> QED BY <1>6, <3>1, <3>2 DEF WindInv
    <2> QED BY <1>2, <1>8, <2>1 DEF WindInv
  <1> QED BY <1>7, <1>8

LEMMA WritePower ==
  ASSUME TypeInv, SettingInv, WriteCommand, NEW u \in Devices
  PROVE  PowerInv(u)'
  <1> DEFINE w == PowerWaiting(u)
             i == written + 1
  <1>1. PICK c \in Command : c = cmds[i]
    BY PresetUnit
  <1>2. written \in Nat /\ i <= Len(cmds) /\ Len(cmds) \in Nat /\ cmds' = cmds /\ written' = i
        /\ setting' = setting
    BY DEF WriteCommand, TypeInv, TypeOK
  <1>3. \A j : j \in PowerWaiting(u)' <=> j \in w /\ j # i
    <2>1. \A j \in Nat : j \in i + 1..Len(cmds) <=> j \in written + 1..Len(cmds) /\ j # i
      BY <1>2
    <2>2. /\ \A j \in i + 1..Len(cmds) : j \in Nat
          /\ \A j \in written + 1..Len(cmds) : j \in Nat
      BY <1>2
    <2> QED BY <1>2, <2>1, <2>2, Zenon DEF PowerWaiting, Waiting
  <1>4. i \in w <=> u = c.unitId /\ DecidesPower(c)
    <2>1. i \in written + 1..Len(cmds)
      BY <1>2
    <2> QED BY <1>1, <2>1, Zenon DEF PowerWaiting, Waiting
  <1>5. /\ u # c.unitId \/ ~DecidesPower(c) => iu'[u].power = iu[u].power
        /\ u = c.unitId /\ c.powerOn # NotSet => iu'[u].power = c.powerOn
    BY <1>1, PresetUnit, Halves
  <1>6. PowerInv(u)
    BY DEF SettingInv
  <1>7. CASE PowerWaiting(u)' = {}
    <2>1. CASE i \in w
      <3>1. \A j \in w : j <= i
        BY <1>2, <1>3, <1>7
      <3>2. setting[u].power = IF c.powerOn = NotSet THEN Unclaimed ELSE c.powerOn
        BY <1>1, <1>6, <2>1, <3>1 DEF PowerInv
      <3> QED BY <1>2, <1>4, <1>5, <1>7, <2>1, <3>2 DEF PowerInv
    <2>2. CASE i \notin w
      <3>1. w = {}
        BY <1>3, <1>7, <2>2
      <3> QED BY <1>2, <1>4, <1>5, <1>6, <1>7, <2>2, <3>1 DEF PowerInv
    <2> QED BY <2>1, <2>2
  <1>8. CASE PowerWaiting(u)' # {}
    <2>1. ASSUME NEW k \in PowerWaiting(u)', \A j \in PowerWaiting(u)' : j <= k
          PROVE  setting[u].power = IF cmds[k].powerOn = NotSet THEN Unclaimed ELSE cmds[k].powerOn
      <3>1. k \in w /\ i <= k
        BY <1>2, <1>3 DEF PowerWaiting, Waiting
      <3>2. \A j \in w : j <= k
        BY <1>3, <2>1, <3>1
      <3> QED BY <1>6, <3>1, <3>2 DEF PowerInv
    <2> QED BY <1>2, <1>8, <2>1 DEF PowerInv
  <1> QED BY <1>7, <1>8

LEMMA PushWind ==
  ASSUME TypeInv, SettingInv, EndLine, cmds' = Append(cmds, iuc), setting' = Settled(iuc),
         NEW u \in Devices
  PROVE  WindInv(u)'
  <1> DEFINE w == WindWaiting(u)
             n == Len(cmds) + 1
  <1>1. /\ written = 0 /\ written' = 0 /\ iu' = iu /\ iuc \in Command /\ cmds \in Seq(Command)
    BY DEF EndLine, SettingInv, TypeInv, TypeOK
  <1>2. /\ Len(cmds) \in Nat /\ Len(cmds') = n /\ cmds'[n] = iuc
        /\ \A j \in 1..Len(cmds) : cmds'[j] = cmds[j]
    BY <1>1
  <1>3. \A j \in w : j \in 1..Len(cmds) /\ j \in Nat /\ j < n
    BY <1>1, <1>2 DEF WindWaiting, Waiting
  <1>4. \A j : j \in WindWaiting(u)' <=> j \in w \/ (j = n /\ u = iuc.unitId /\ DecidesWind(iuc))
    <2>1. \A j \in written' + 1..Len(cmds') : j \in written + 1..Len(cmds) \/ j = n
      BY <1>1, <1>2
    <2>2. \A j \in written + 1..Len(cmds) : j \in written' + 1..Len(cmds') /\ j # n
                                              /\ cmds'[j] = cmds[j]
      BY <1>1, <1>2
    <2>3. n \in written' + 1..Len(cmds')
      BY <1>1, <1>2
    <2> QED BY <1>2, <2>1, <2>2, <2>3, Zenon DEF WindWaiting, Waiting
  <1>5. WindInv(u)
    BY DEF SettingInv
  <1>6. CASE u = iuc.unitId /\ DecidesWind(iuc)
    <2>1. setting'[u].windLevel = IF iuc.windLevel = NotSet THEN Unclaimed ELSE iuc.windLevel
      BY <1>6 DEF Settled, DecidesWind
    <2>2. \A k \in WindWaiting(u)' : (\A j \in WindWaiting(u)' : j <= k) => k = n
      BY <1>2, <1>3, <1>4, <1>6
    <2>3. WindWaiting(u)' # {}
      BY <1>4, <1>6
    <2> QED BY <1>2, <2>1, <2>2, <2>3 DEF WindInv
  <1>7. CASE ~(u = iuc.unitId /\ DecidesWind(iuc))
    <2>1. setting'[u].windLevel = setting[u].windLevel
      BY <1>7 DEF Settled, DecidesWind
    <2>2. WindWaiting(u)' = w
      BY <1>4, <1>7
    <2>3. \A j \in w : cmds'[j] = cmds[j]
      BY <1>2, <1>3
    <2> QED BY <1>1, <1>5, <2>1, <2>2, <2>3 DEF WindInv
  <1> QED BY <1>6, <1>7

LEMMA PushPower ==
  ASSUME TypeInv, SettingInv, EndLine, cmds' = Append(cmds, iuc), setting' = Settled(iuc),
         NEW u \in Devices
  PROVE  PowerInv(u)'
  <1> DEFINE w == PowerWaiting(u)
             n == Len(cmds) + 1
  <1>1. /\ written = 0 /\ written' = 0 /\ iu' = iu /\ iuc \in Command /\ cmds \in Seq(Command)
    BY DEF EndLine, SettingInv, TypeInv, TypeOK
  <1>2. /\ Len(cmds) \in Nat /\ Len(cmds') = n /\ cmds'[n] = iuc
        /\ \A j \in 1..Len(cmds) : cmds'[j] = cmds[j]
    BY <1>1
  <1>3. \A j \in w : j \in 1..Len(cmds) /\ j \in Nat /\ j < n
    BY <1>1, <1>2 DEF PowerWaiting, Waiting
  <1>4. \A j : j \in PowerWaiting(u)' <=> j \in w \/ (j = n /\ u = iuc.unitId /\ DecidesPower(iuc))
    <2>1. \A j \in written' + 1..Len(cmds') : j \in written + 1..Len(cmds) \/ j = n
      BY <1>1, <1>2
    <2>2. \A j \in written + 1..Len(cmds) : j \in written' + 1..Len(cmds') /\ j # n
                                              /\ cmds'[j] = cmds[j]
      BY <1>1, <1>2
    <2>3. n \in written' + 1..Len(cmds')
      BY <1>1, <1>2
    <2> QED BY <1>2, <2>1, <2>2, <2>3, Zenon DEF PowerWaiting, Waiting
  <1>5. PowerInv(u)
    BY DEF SettingInv
  <1>6. CASE u = iuc.unitId /\ DecidesPower(iuc)
    <2>1. setting'[u].power = IF iuc.powerOn = NotSet THEN Unclaimed ELSE iuc.powerOn
      BY <1>6 DEF Settled, DecidesPower
    <2>2. \A k \in PowerWaiting(u)' : (\A j \in PowerWaiting(u)' : j <= k) => k = n
      BY <1>2, <1>3, <1>4, <1>6
    <2>3. PowerWaiting(u)' # {}
      BY <1>4, <1>6
    <2> QED BY <1>2, <2>1, <2>2, <2>3 DEF PowerInv
  <1>7. CASE ~(u = iuc.unitId /\ DecidesPower(iuc))
    <2>1. setting'[u].power = setting[u].power
      BY <1>7 DEF Settled, DecidesPower
    <2>2. PowerWaiting(u)' = w
      BY <1>4, <1>7
    <2>3. \A j \in w : cmds'[j] = cmds[j]
      BY <1>2, <1>3
    <2> QED BY <1>1, <1>5, <2>1, <2>2, <2>3 DEF PowerInv
  <1> QED BY <1>6, <1>7

\* Whatever leaves the commands, the units and the settings alone.
LEMMA NothingSet ==
  ASSUME SettingInv, UNCHANGED <<cmds, written, iu, setting>>, pc' # "write" => written = 0
  PROVE  SettingInv'
  <1>1. ASSUME NEW u \in Devices
        PROVE  WindInv(u)' /\ PowerInv(u)'
    <2>1. WindWaiting(u)' = WindWaiting(u) /\ PowerWaiting(u)' = PowerWaiting(u)
      BY Zenon DEF WindWaiting, PowerWaiting, Waiting
    <2> QED BY <2>1 DEF SettingInv, WindInv, PowerInv
  <1> QED BY <1>1 DEF SettingInv

LEMMA NoneWaiting ==
  ASSUME NEW u, written \in Nat, Len(cmds) \in Nat, written >= Len(cmds)
  PROVE  WindWaiting(u) = {} /\ PowerWaiting(u) = {}
  BY DEF WindWaiting, PowerWaiting, Waiting

LEMMA Step_Setting ==
  ASSUME TypeInv, SettingInv, [Next]_vars
  PROVE  SettingInv'
  <1>1. CASE TakeText \/ ReadParam \/ ReadNewline \/ ReadEnd \/ TakeParam
    <2>1. UNCHANGED <<cmds, written, iu, setting>> /\ pc # "write"
      BY <1>1 DEF TakeText, ReadParam, ReadNewline, ReadEnd, TakeParam
    <2>2. pc' # "write" => written = 0
      BY <2>1 DEF SettingInv
    <2> QED BY <2>1, <2>2, NothingSet
  <1>2. CASE EndLine
    <2>1. CASE LineGood /\ Len(cmds) < CmdCap
      <3>1. cmds' = Append(cmds, iuc) /\ setting' = Settled(iuc)
        BY <1>2, <2>1 DEF EndLine
      <3>2. written' = 0 /\ Len(cmds') \in Nat
        BY <1>2, <3>1 DEF EndLine, SettingInv, TypeInv, TypeOK
      <3> QED BY <1>2, <3>1, <3>2, PushWind, PushPower DEF SettingInv
    <2>2. CASE ~(LineGood /\ Len(cmds) < CmdCap)
      <3>1. UNCHANGED <<cmds, written, iu, setting>> /\ pc # "write"
        BY <1>2, <2>2 DEF EndLine
      <3>2. pc' # "write" => written = 0
        BY <3>1 DEF SettingInv
      <3> QED BY <3>1, <3>2, NothingSet
    <2> QED BY <2>1, <2>2
  <1>3. CASE Return
    <2>1. UNCHANGED <<cmds, written, iu, setting>> /\ pc # "write"
      BY <1>3 DEF Return
    <2>2. pc' # "write" => written = 0
      BY <2>1 DEF SettingInv
    <2> QED BY <2>1, <2>2, NothingSet
  <1>4. CASE WriteCommand
    <2>1. pc' = "write" /\ written' <= Len(cmds')
      BY <1>4 DEF WriteCommand, TypeInv, TypeOK
    <2> QED BY <1>4, <2>1, WriteWind, WritePower DEF SettingInv
  <1>5. CASE WriteComplete
    <2>1. /\ written \in Nat /\ Len(cmds) \in Nat /\ written = Len(cmds)
          /\ written' = 0 /\ Len(cmds') = 0 /\ iu' = iu /\ setting' = setting
      BY <1>5 DEF WriteComplete, TypeInv, TypeOK
    <2>2. ASSUME NEW u \in Devices
          PROVE  WindInv(u)' /\ PowerInv(u)'
      <3>1. WindWaiting(u) = {} /\ PowerWaiting(u) = {}
        BY <2>1, NoneWaiting
      <3>2. WindWaiting(u)' = {} /\ PowerWaiting(u)' = {}
        BY <2>1 DEF WindWaiting, PowerWaiting, Waiting
      <3> QED BY <2>1, <3>1, <3>2 DEF SettingInv, WindInv, PowerInv
    <2> QED BY <2>1, <2>2 DEF SettingInv
  <1>6. CASE UNCHANGED vars
    <2>1. UNCHANGED <<cmds, written, iu, setting>> /\ pc' = pc
      BY <1>6 DEF vars
    <2> QED BY <2>1, NothingSet DEF SettingInv
  <1> QED BY <1>1, <1>2, <1>3, <1>4, <1>5, <1>6 DEF Next

LEMMA Init_Setting ==
  ASSUME Init
  PROVE  SettingInv
  <1>1. written = 0 /\ Len(cmds) = 0 /\ setting = iu
    BY DEF Init
  <1>2. \A u \in Devices : WindWaiting(u) = {} /\ PowerWaiting(u) = {}
    BY <1>1, NoneWaiting
  <1> QED BY <1>1, <1>2 DEF SettingInv, WindInv, PowerInv

LEMMA SettingHolds == Spec => []SettingInv
  BY Init_Setting, Step_Setting, TypeHolds, PTL DEF Spec

-----------------------------------------------------------------------------
(* Induction over a set of numbers *)

LEMMA NatSet ==
  ASSUME NEW S, 0 \in S, \A n \in Nat : n \in S => n + 1 \in S
  PROVE  \A n \in Nat : n \in S
  <1> SUFFICES ASSUME Nat \ S # {} PROVE FALSE
    OBVIOUS
  <1> DEFINE Less == {ss \in Nat \X Nat : ss[1] < ss[2]}
  <1>1. IsWellFoundedOn(Less, Nat)
    BY NatLessThanWellFounded DEF OpToRel
  <1>2. \A m, n \in Nat : m < n => <<m, n>> \in Less
    OBVIOUS
  <1> HIDE DEF Less
  <1>3. PICK x \in Nat \ S : \A y \in Nat \ S : ~(<<y, x>> \in Less)
    BY <1>1, WFMin
  <1>4. x - 1 \in Nat /\ x - 1 < x /\ x - 1 + 1 = x
    BY <1>3
  <1>5. x - 1 \in S
    BY <1>2, <1>3, <1>4
  <1> QED BY <1>3, <1>4, <1>5

-----------------------------------------------------------------------------
(* The pieces of a line *)

LEMMA DivMod ==
  ASSUME NEW r \in Nat \ {0}, NEW n \in Nat
  PROVE  n \div r \in Nat /\ n % r \in 0..(r - 1) /\ n = (r * (n \div r)) + (n % r)
  OBVIOUS

LEMMA DivUnique ==
  ASSUME NEW r \in Nat \ {0}, NEW q \in Nat, NEW m \in 0..(r - 1), NEW n, n = (r * q) + m
  PROVE  n \div r = q /\ n % r = m
  OBVIOUS

\* One parameter more.
LEMMA DivNext ==
  ASSUME NEW r \in Nat \ {0}, NEW n \in Nat
  PROVE  /\ (n % r) + 1 < r => (n + 1) \div r = n \div r /\ (n + 1) % r = (n % r) + 1
         /\ (n % r) + 1 = r => (n + 1) \div r = (n \div r) + 1 /\ (n + 1) % r = 0
  <1> DEFINE q == n \div r
             m == n % r
  <1>1. q \in Nat /\ m \in 0..(r - 1) /\ n = (r * q) + m
    BY DivMod
  <1> HIDE DEF q, m
  <1>2. CASE m + 1 < r
    <2>1. PICK k \in 0..(r - 1) : k = m + 1
      BY <1>1, <1>2
    <2>2. n + 1 = (r * q) + k
      BY <1>1, <2>1
    <2>3. (n + 1) \div r = q /\ (n + 1) % r = k
      BY <1>1, <2>2, DivUnique
    <2> QED BY <1>2, <2>1, <2>3 DEF q, m
  <1>3. CASE m + 1 = r
    <2>1. PICK p \in Nat : p = q + 1
      BY <1>1
    <2>2. r * p = (r * q) + r
      BY <1>1, <2>1
    <2>3. n + 1 = (r * p) + 0 /\ 0 \in 0..(r - 1)
      BY <1>1, <1>3, <2>2
    <2>4. (n + 1) \div r = p /\ (n + 1) % r = 0
      BY <2>3, DivUnique
    <2> QED BY <1>3, <2>1, <2>4 DEF q, m
  <1> QED BY <1>2, <1>3 DEF q, m

\* Whole pieces, and a last one that may be empty.
LEMMA PieceOf ==
  ASSUME NEW l \in Seq(Param), NEW k \in 1..(Len(l) \div LineRoom) + 1
  PROVE  /\ Pieces(l)[k] \in Seq(Param)
         /\ k <= Len(l) \div LineRoom => Len(Pieces(l)[k]) = LineRoom
         /\ k = (Len(l) \div LineRoom) + 1 => Len(Pieces(l)[k]) = Len(l) % LineRoom
         /\ \A i \in 1..Len(Pieces(l)[k]) : Pieces(l)[k][i] = l[(LineRoom * (k - 1)) + i]
  <1> DEFINE q == Len(l) \div LineRoom
             m == Len(l) % LineRoom
             from == LineRoom * (k - 1)
             to == Least(LineRoom * k, Len(l))
  <1>0. LineRoom \in Nat \ {0} /\ Len(l) \in Nat
    <2>1. LineRoom \in Nat \ {0}
      BY Assumed
    <2>2. Len(l) \in Nat
      OBVIOUS
    <2> QED BY <2>1, <2>2
  <1>1. q \in Nat /\ m \in 0..(LineRoom - 1) /\ Len(l) = (LineRoom * q) + m
    BY <1>0, DivMod
  <1> HIDE DEF q, m
  <1>2. k \in 1..q + 1
    BY DEF q
  <1>3. /\ LineRoom * k = from + LineRoom /\ from \in Nat /\ k \in Nat
        /\ (k - 1) * LineRoom = from /\ k * LineRoom = LineRoom * k
    BY <1>0, <1>1, <1>2
  <1>4. k <= q => LineRoom * k <= LineRoom * q
    BY <1>0, <1>1, <1>2
  <1>5. k = q + 1 => from = LineRoom * q
    BY <1>1
  <1>6. /\ k <= q => to = from + LineRoom
        /\ k = q + 1 => to = from + m
    BY <1>0, <1>1, <1>3, <1>4, <1>5 DEF Least
  <1>7. to \in Nat /\ from <= to /\ to <= Len(l)
    BY <1>0, <1>1, <1>2, <1>3, <1>4, <1>5, <1>6
  <1>8. Pieces(l)[k] = SubSeq(l, from + 1, to)
    <2>1. Pieces(l)[k] = SubSeq(l, ((k - 1) * LineRoom) + 1, Least(k * LineRoom, Len(l)))
      BY <1>0 DEF Pieces
    <2> QED BY <1>3, <2>1
  <1> HIDE DEF from, to
  <1>9. /\ SubSeq(l, from + 1, to) \in Seq(Param) /\ Len(SubSeq(l, from + 1, to)) = to - from
        /\ \A i \in 1..to - from : SubSeq(l, from + 1, to)[i] = l[from + i]
    BY <1>3, <1>7
  <1>10. (k <= q => to - from = LineRoom) /\ (k = q + 1 => to - from = m)
    BY <1>0, <1>1, <1>3, <1>6
  <1>11. Pieces(l)[k] \in Seq(Param) /\ Len(Pieces(l)[k]) = to - from
    BY <1>8, <1>9
  <1>12. k <= q => Len(Pieces(l)[k]) = LineRoom
    BY <1>10, <1>11
  <1>13. k = q + 1 => Len(Pieces(l)[k]) = m
    BY <1>10, <1>11
  <1>14. \A i \in 1..Len(Pieces(l)[k]) : Pieces(l)[k][i] = l[(LineRoom * (k - 1)) + i]
    BY <1>8, <1>9 DEF from
  <1> QED BY <1>11, <1>12, <1>13, <1>14 DEF q, m

LEMMA PiecesType ==
  ASSUME NEW l \in Seq(Param)
  PROVE  /\ Pieces(l) \in Seq(Seq(Param))
         /\ Len(Pieces(l)) = (Len(l) \div LineRoom) + 1
         /\ Len(Pieces(l)) \in Nat \ {0}
  <1>1. Len(l) \div LineRoom \in Nat
    <2>1. LineRoom \in Nat \ {0} /\ Len(l) \in Nat
      BY Assumed
    <2> QED BY <2>1, DivMod
  <1>2. DOMAIN Pieces(l) = 1..(Len(l) \div LineRoom) + 1
    BY DEF Pieces
  <1>3. \A k \in 1..(Len(l) \div LineRoom) + 1 : Pieces(l)[k] \in Seq(Param)
    BY PieceOf
  <1>4. Pieces(l) \in [1..(Len(l) \div LineRoom) + 1 -> Seq(Param)]
    BY <1>2, <1>3 DEF Pieces
  <1> QED BY <1>1, <1>4

-----------------------------------------------------------------------------
(* The pieces of a text *)

LEMMA UpToIs ==
  ASSUME NEW s \in Seq(Seq(Param))
  PROVE  PiecesUpTo(s) = [k \in 0..Len(s) |->
             IF k = 0 THEN << >> ELSE PiecesUpTo(s)[k - 1] \o Pieces(s[k])]
  <1> DEFINE Is(f, n) == f = [k \in 0..n |-> IF k = 0 THEN << >> ELSE f[k - 1] \o Pieces(s[k])]
             S == {n \in Nat : \E f : Is(f, n)}
  <1>1. 0 \in S
    <2>1. Is([k \in 0..0 |-> << >>], 0)
      OBVIOUS
    <2> QED BY <2>1
  <1>2. ASSUME NEW n \in Nat, n \in S PROVE n + 1 \in S
    <2>1. PICK f : Is(f, n)
      BY <1>2
    <2> DEFINE g == [k \in 0..n + 1 |-> IF k = n + 1 THEN f[n] \o Pieces(s[n + 1]) ELSE f[k]]
    <2>2. \A k \in 0..n : g[k] = f[k]
      OBVIOUS
    <2>3. \A k \in 0..n + 1 : g[k] = IF k = 0 THEN << >> ELSE g[k - 1] \o Pieces(s[k])
      <3> SUFFICES ASSUME NEW k \in 0..n + 1
                   PROVE  g[k] = IF k = 0 THEN << >> ELSE g[k - 1] \o Pieces(s[k])
        OBVIOUS
      <3>1. CASE k = n + 1
        <4>1. g[n] = f[n] /\ k - 1 = n /\ k # 0
          BY <2>2, <3>1
        <4>2. g[k] = f[n] \o Pieces(s[k])
          BY <3>1
        <4> HIDE DEF g
        <4> QED BY <4>1, <4>2
      <3>2. CASE k # n + 1
        <4>0. k \in 0..n
          BY <3>2
        <4>1. k \in 0..n /\ f[k] = IF k = 0 THEN << >> ELSE f[k - 1] \o Pieces(s[k])
          BY <2>1, <4>0, Zenon
        <4>2. k # 0 => k - 1 \in 0..n
          BY <4>1
        <4> QED BY <2>2, <4>1, <4>2
      <3> QED BY <3>1, <3>2
    <2>4. Is(g, n + 1)
      BY <2>3
    <2> HIDE DEF g, Is
    <2> QED BY <2>4
  <1>3. Len(s) \in S
    <2> HIDE DEF S
    <2>1. \A n \in Nat : n \in S
      BY <1>1, <1>2, NatSet
    <2> QED BY <2>1
  <1>4. \E f : Is(f, Len(s))
    BY <1>3
  <1>5. PiecesUpTo(s) = CHOOSE f : Is(f, Len(s))
    BY DEF PiecesUpTo
  <1>6. Is(PiecesUpTo(s), Len(s))
    <2> HIDE DEF Is
    <2> QED BY <1>4, <1>5
  <1> QED BY <1>6

LEMMA Joined ==
  ASSUME NEW S, NEW a \in Seq(S), NEW b \in Seq(S), NEW c, c = a \o b
  PROVE  /\ c \in Seq(S) /\ Len(a) \in Nat /\ Len(b) \in Nat /\ Len(c) = Len(a) + Len(b)
         /\ \A i \in 1..Len(a) : c[i] = a[i]
         /\ \A i \in 1..Len(b) : c[Len(a) + i] = b[i]
  OBVIOUS

LEMMA LengthIsNat == ASSUME NEW S, NEW a \in Seq(S) PROVE Len(a) \in Nat
  OBVIOUS

LEMMA LinesOf ==
  ASSUME NEW s \in Seq(Seq(Param))
  PROVE  /\ Len(s) \in Nat
         /\ \A k \in 1..Len(s) : /\ s[k] \in Seq(Param) /\ Pieces(s[k]) \in Seq(Seq(Param))
                                 /\ Len(Pieces(s[k])) = (Len(s[k]) \div LineRoom) + 1
  <1>1. Len(s) \in Nat /\ \A k \in 1..Len(s) : s[k] \in Seq(Param)
    OBVIOUS
  <1> QED BY <1>1, PiecesType

\* The first lines give the first pieces.
LEMMA UpToStep ==
  ASSUME NEW s \in Seq(Seq(Param))
  PROVE  /\ PiecesUpTo(s)[0] = << >>
         /\ \A k \in 1..Len(s) : PiecesUpTo(s)[k] = PiecesUpTo(s)[k - 1] \o Pieces(s[k])
         /\ \A k \in 0..Len(s) : PiecesUpTo(s)[k] \in Seq(Seq(Param))
  <1> DEFINE U == PiecesUpTo(s)
  <1>1. U = [k \in 0..Len(s) |-> IF k = 0 THEN << >> ELSE U[k - 1] \o Pieces(s[k])]
    BY UpToIs
  <1>2. Len(s) \in Nat /\ \A k \in 1..Len(s) : Pieces(s[k]) \in Seq(Seq(Param))
    BY LinesOf
  <1> HIDE DEF U
  <1>3. U[0] = << >> /\ \A k \in 1..Len(s) : U[k] = U[k - 1] \o Pieces(s[k])
    <2> DEFINE u(k) == IF k = 0 THEN << >> ELSE U[k - 1] \o Pieces(s[k])
    <2>0. U = [k \in 0..Len(s) |-> u(k)]
      BY <1>1
    <2> HIDE DEF u
    <2>a. \A k \in 0..Len(s) : U[k] = u(k)
      BY <2>0
    <2>1. \A k \in 0..Len(s) : U[k] = IF k = 0 THEN << >> ELSE U[k - 1] \o Pieces(s[k])
      BY <2>a DEF u
    <2>2. 0 \in 0..Len(s) /\ \A k \in 1..Len(s) : k \in 0..Len(s) /\ k # 0
      BY <1>2
    <2> QED BY <2>1, <2>2, Zenon
  <1> DEFINE S == {n \in Nat : n <= Len(s) => U[n] \in Seq(Seq(Param))}
  <1>4. 0 \in S
    BY <1>3, EmptySequences
  <1>5. ASSUME NEW n \in Nat, n \in S PROVE n + 1 \in S
    <2> SUFFICES ASSUME n + 1 <= Len(s) PROVE U[n + 1] \in Seq(Seq(Param))
      OBVIOUS
    <2>1. PICK k \in 1..Len(s) : k = n + 1 /\ k - 1 = n
      BY <1>2
    <2>2. U[n] \in Seq(Seq(Param))
      BY <1>2, <1>5, <2>1
    <2>3. U[k] = U[n] \o Pieces(s[k]) /\ Pieces(s[k]) \in Seq(Seq(Param))
      <3>1. U[k] = U[k - 1] \o Pieces(s[k])
        BY <1>3
      <3>2. U[k - 1] = U[n]
        BY <2>1
      <3> QED BY <1>2, <3>1, <3>2, Zenon
    <2> QED BY <2>1, <2>2, <2>3, Joined
  <1>6. \A n \in Nat : n \in S
    <2> HIDE DEF S
    <2> QED BY <1>4, <1>5, NatSet
  <1>7. \A k \in 0..Len(s) : U[k] \in Seq(Seq(Param))
    BY <1>2, <1>6
  <1> QED BY <1>3, <1>7 DEF U

LEMMA UpToPrefix ==
  ASSUME NEW s \in Seq(Seq(Param)), NEW k \in 0..Len(s), NEW m \in k..Len(s)
  PROVE  /\ Len(PiecesUpTo(s)[k]) <= Len(PiecesUpTo(s)[m])
         /\ \A i \in 1..Len(PiecesUpTo(s)[k]) : PiecesUpTo(s)[m][i] = PiecesUpTo(s)[k][i]
  <1> DEFINE U == PiecesUpTo(s)
  <1>1. /\ \A j \in 1..Len(s) : U[j] = U[j - 1] \o Pieces(s[j])
        /\ \A j \in 0..Len(s) : U[j] \in Seq(Seq(Param))
    BY UpToStep
  <1>2. Len(s) \in Nat /\ \A j \in 1..Len(s) : Pieces(s[j]) \in Seq(Seq(Param))
    BY LinesOf
  <1> HIDE DEF U
  <1> DEFINE Begins(n) == Len(U[k]) <= Len(U[n]) /\ \A i \in 1..Len(U[k]) : U[n][i] = U[k][i]
             S == {d \in Nat : k + d <= Len(s) => Begins(k + d)}
  <1>3. 0 \in S
    <2>1. U[k] \in Seq(Seq(Param)) /\ k + 0 = k
      BY <1>1
    <2>2. Len(U[k]) \in Nat
      BY <2>1, LengthIsNat
    <2> QED BY <2>1, <2>2
  <1>4. ASSUME NEW d \in Nat, d \in S PROVE d + 1 \in S
    <2> SUFFICES ASSUME k + (d + 1) <= Len(s) PROVE Begins(k + (d + 1))
      OBVIOUS
    <2>1. PICK n \in 0..Len(s) : n = k + d /\ n + 1 = k + (d + 1) /\ n + 1 \in 1..Len(s) /\ n + 1 - 1 = n
      BY <1>2
    <2>2. Begins(n)
      BY <1>4, <2>1
    <2> DEFINE p == n + 1
    <2>3. U[n] \in Seq(Seq(Param)) /\ Pieces(s[p]) \in Seq(Seq(Param)) /\ U[p] = U[n] \o Pieces(s[p])
      <3>1. U[n] \in Seq(Seq(Param)) /\ p \in 1..Len(s) /\ p - 1 = n
        BY <1>1, <2>1
      <3> HIDE DEF p
      <3>2. U[p] = U[p - 1] \o Pieces(s[p]) /\ Pieces(s[p]) \in Seq(Seq(Param))
        BY <1>1, <1>2, <3>1, Zenon
      <3>3. U[p - 1] = U[n]
        BY <3>1
      <3> QED BY <3>1, <3>2, <3>3, Zenon
    <2>4. Len(U[k]) \in Nat
      BY <1>1, LengthIsNat
    <2> HIDE DEF p
    <2>5. /\ Len(U[n]) \in Nat /\ Len(U[p]) \in Nat /\ Len(U[n]) <= Len(U[p])
          /\ \A i \in 1..Len(U[n]) : U[p][i] = U[n][i]
      <3>1. PICK a, b, c : a = U[n] /\ b = Pieces(s[p]) /\ c = U[p]
        OBVIOUS
      <3>2. a \in Seq(Seq(Param)) /\ b \in Seq(Seq(Param)) /\ c = a \o b
        BY <2>3, <3>1
      <3>3. /\ Len(a) \in Nat /\ Len(c) \in Nat /\ Len(a) <= Len(c)
            /\ \A i \in 1..Len(a) : c[i] = a[i]
        BY <3>2
      <3> QED BY <3>1, <3>3
    <2>6. Begins(p)
      <3>1. Len(U[k]) <= Len(U[p])
        <4>1. PICK a, b, c \in Nat : a = Len(U[k]) /\ b = Len(U[n]) /\ c = Len(U[p])
          BY <2>4, <2>5
        <4>2. a <= b /\ b <= c
          BY <2>2, <2>5, <4>1
        <4>3. a <= c
          BY <4>2
        <4> QED BY <4>1, <4>3
      <3>2. ASSUME NEW i \in 1..Len(U[k]) PROVE U[p][i] = U[k][i]
        <4>1. i \in 1..Len(U[n])
          BY <2>2, <2>4, <2>5
        <4>2. U[n][i] = U[k][i]
          BY <2>2
        <4> QED BY <2>5, <4>1, <4>2
      <3> QED BY <3>1, <3>2
    <2> QED BY <2>1, <2>6 DEF p
  <1>5. \A d \in Nat : d \in S
    <2> HIDE DEF S
    <2> QED BY <1>3, <1>4, NatSet
  <1>6. m - k \in Nat /\ k + (m - k) = m /\ m <= Len(s)
    BY <1>2
  <1>7. Begins(m)
    BY <1>5, <1>6
  <1> QED BY <1>7 DEF U

\* Where the pieces of a line are among those of the text.
LEMMA PieceAt ==
  ASSUME NEW s \in Seq(Seq(Param)), NEW k \in 0..Len(s) - 1, NEW j \in 1..(Len(s[k + 1]) \div LineRoom) + 1
  PROVE  /\ Len(PiecesUpTo(s)[k]) \in Nat
         /\ Len(PiecesUpTo(s)[k + 1]) = Len(PiecesUpTo(s)[k]) + (Len(s[k + 1]) \div LineRoom) + 1
         /\ Len(PiecesUpTo(s)[k]) + j \in 1..Len(PiecesUpTo(s)[Len(s)])
         /\ PiecesUpTo(s)[Len(s)][Len(PiecesUpTo(s)[k]) + j] = Pieces(s[k + 1])[j]
  <1> DEFINE U == PiecesUpTo(s)
             l == s[k + 1]
  <1>1. Len(s) \in Nat /\ k \in 0..Len(s) /\ k + 1 \in 1..Len(s) /\ k + 1 - 1 = k /\ Len(s) \in (k + 1)..Len(s)
        /\ k + 1 \in 0..Len(s) /\ Len(s) \in 0..Len(s)
    OBVIOUS
  <1>2. l \in Seq(Param)
    BY <1>1
  <1> HIDE DEF l
  <1>3. Pieces(l) \in Seq(Seq(Param)) /\ Len(Pieces(l)) = (Len(l) \div LineRoom) + 1
    BY <1>2, PiecesType
  <1>4. U[k + 1] = U[k] \o Pieces(l) /\ U[k] \in Seq(Seq(Param)) /\ U[k + 1] \in Seq(Seq(Param))
        /\ U[Len(s)] \in Seq(Seq(Param))
    <2> DEFINE p == k + 1
    <2>1. p \in 1..Len(s) /\ p \in 0..Len(s) /\ p - 1 = k
      BY <1>1
    <2> HIDE DEF p, U
    <2>2. /\ \A i \in 1..Len(s) : U[i] = U[i - 1] \o Pieces(s[i])
          /\ \A i \in 0..Len(s) : U[i] \in Seq(Seq(Param))
      BY UpToStep DEF U
    <2>3. U[p] = U[p - 1] \o Pieces(s[p])
      BY <2>1, <2>2, Zenon
    <2>4. U[p] = U[k] \o Pieces(s[p])
      BY <2>1, <2>3
    <2> QED BY <1>1, <2>1, <2>2, <2>4, Zenon DEF l, p
  <1>5. /\ Len(U[k + 1]) <= Len(U[Len(s)])
        /\ \A i \in 1..Len(U[k + 1]) : U[Len(s)][i] = U[k + 1][i]
    BY <1>1, UpToPrefix
  <1>6. j \in 1..Len(Pieces(l))
    BY <1>3 DEF l
  <1> HIDE DEF U
  <1>7. /\ Len(U[k]) \in Nat /\ Len(U[k + 1]) = Len(U[k]) + Len(Pieces(l)) /\ Len(Pieces(l)) \in Nat
        /\ Len(U[Len(s)]) \in Nat
    <2>1. Len(U[Len(s)]) \in Nat
      BY <1>4, LengthIsNat
    <2>2. Len(U[k]) \in Nat /\ Len(U[k + 1]) = Len(U[k]) + Len(Pieces(l)) /\ Len(Pieces(l)) \in Nat
      <3>1. PICK a, b, c : a = U[k] /\ b = Pieces(l) /\ c = U[k + 1]
        OBVIOUS
      <3>2. a \in Seq(Seq(Param)) /\ b \in Seq(Seq(Param)) /\ c = a \o b
        BY <1>3, <1>4, <3>1
      <3>3. Len(a) \in Nat /\ Len(b) \in Nat /\ Len(c) = Len(a) + Len(b)
        BY <3>2
      <3> QED BY <3>1, <3>3
    <2> QED BY <2>1, <2>2
  <1>8. Len(U[k]) + j \in 1..Len(U[k + 1]) /\ U[k + 1][Len(U[k]) + j] = Pieces(l)[j]
    <2>1. U[k + 1][Len(U[k]) + j] = Pieces(l)[j]
      BY <1>3, <1>4, <1>6, Joined
    <2> QED BY <1>6, <1>7, <2>1
  <1>9. Len(U[k]) + j \in 1..Len(U[Len(s)]) /\ U[Len(s)][Len(U[k]) + j] = Pieces(l)[j]
    <2>1. U[Len(s)][Len(U[k]) + j] = U[k + 1][Len(U[k]) + j]
      BY <1>5, <1>8
    <2>2. Len(U[k]) + j \in 1..Len(U[Len(s)])
      <3> DEFINE a == Len(U[k + 1])
                 b == Len(U[Len(s)])
      <3>1. a \in Nat /\ b \in Nat /\ a <= b /\ Len(U[k]) + j \in 1..a
        BY <1>5, <1>7, <1>8
      <3> HIDE DEF a, b
      <3> QED BY <3>1 DEF b
    <2> QED BY <1>8, <2>1, <2>2
  <1>10. Len(U[k + 1]) = Len(U[k]) + (Len(l) \div LineRoom) + 1
    <2> DEFINE d == Len(l) \div LineRoom
    <2>1. d \in Nat
      <3>1. Len(l) \in Nat
        BY <1>2, LengthIsNat
      <3>2. LineRoom \in Nat \ {0}
        BY Assumed
      <3> QED BY <3>1, <3>2, DivMod
    <2> HIDE DEF d
    <2>2. Len(Pieces(l)) = d + 1
      BY <1>3 DEF d
    <2>3. Len(U[k + 1]) = Len(U[k]) + d + 1
      <3>1. PICK a \in Nat : a = Len(U[k])
        BY <1>7
      <3>2. Len(U[k + 1]) = a + (d + 1)
        BY <1>7, <2>2, <3>1
      <3>3. a + (d + 1) = a + d + 1
        BY <2>1
      <3> QED BY <3>1, <3>2, <3>3
    <2> QED BY <2>3 DEF d
  <1> QED BY <1>7, <1>9, <1>10 DEF U, l

-----------------------------------------------------------------------------
(* The good ones among the pieces *)

LEMMA GoodAmongStep ==
  ASSUME NEW s, NEW n \in Nat
  PROVE  /\ GoodAmong(s, n) \in Nat
         /\ GoodAmong(s, 0) = 0
         /\ GoodAmong(s, n + 1) = IF GoodLine(s[n + 1]) THEN GoodAmong(s, n) + 1 ELSE GoodAmong(s, n)
  <1> DEFINE G(m) == {i \in 1..m : GoodLine(s[i])}
  <1>1. IsFiniteSet(G(n)) /\ Cardinality(G(n)) \in Nat
    <2>1. IsFiniteSet(1..n)
      BY FS_Interval
    <2> QED BY <2>1, FS_Subset, FS_CardinalityType
  <1>2. G(0) = {}
    OBVIOUS
  <1>3. CASE GoodLine(s[n + 1])
    <2>1. G(n + 1) = G(n) \cup {n + 1} /\ n + 1 \notin G(n)
      BY <1>3
    <2> HIDE DEF G
    <2>2. Cardinality(G(n + 1)) = Cardinality(G(n)) + 1
      BY <1>1, <2>1, FS_AddElement
    <2> QED BY <1>1, <1>2, <1>3, <2>2, FS_EmptySet DEF GoodAmong, G
  <1>4. CASE ~GoodLine(s[n + 1])
    <2>1. G(n + 1) = G(n)
      BY <1>4
    <2> QED BY <1>1, <1>2, <1>4, <2>1, FS_EmptySet DEF GoodAmong
  <1> QED BY <1>3, <1>4

LEMMA GoodAmongGrows ==
  ASSUME NEW s, NEW n \in Nat, NEW j \in 0..n
  PROVE  GoodAmong(s, j) \in Nat /\ GoodAmong(s, n) \in Nat /\ GoodAmong(s, j) <= GoodAmong(s, n)
  <1> DEFINE G(m) == {i \in 1..m : GoodLine(s[i])}
  <1>1. IsFiniteSet(G(n)) /\ G(j) \subseteq G(n)
    <2>1. IsFiniteSet(1..n) /\ G(n) \subseteq 1..n
      BY FS_Interval
    <2>2. IsFiniteSet(G(n))
      BY <2>1, FS_Subset
    <2> QED BY <2>2
  <1> HIDE DEF G
  <1>2. Cardinality(G(j)) <= Cardinality(G(n)) /\ IsFiniteSet(G(j))
    BY <1>1, FS_Subset
  <1>3. Cardinality(G(j)) \in Nat /\ Cardinality(G(n)) \in Nat
    BY <1>1, <1>2, FS_CardinalityType
  <1> QED BY <1>2, <1>3 DEF GoodAmong, G

\* Only the first n pieces matter.
LEMMA GoodAmongSame ==
  ASSUME NEW s, NEW t, NEW n \in Nat, \A i \in 1..n : s[i] = t[i]
  PROVE  \A j \in 0..n : GoodAmong(s, j) = GoodAmong(t, j)
  <1> SUFFICES ASSUME NEW j \in 0..n PROVE {i \in 1..j : GoodLine(s[i])} = {i \in 1..j : GoodLine(t[i])}
    BY DEF GoodAmong
  <1> QED OBVIOUS

-----------------------------------------------------------------------------
(* Texts *)

AllPieces == PiecesUpTo(text.lines)[Len(text.lines)]

\* The line that is read, and how many of its parameters were.
Gone == Len(text.lines) - Len(unread)
Line == text.lines[Gone + 1]
Taken == IF unread = << >> THEN 0 ELSE Len(Line) - Len(unread[1])

\* The pieces that were cut off, the one that is parsed included.
Cut == Len(PiecesUpTo(text.lines)[Gone]) + (Taken \div LineRoom)

\* What was not read is the rest of the text.
UnreadInv ==
    /\ text \in Texts
    /\ Len(unread) <= Len(text.lines)
    /\ unread # << >> =>
          /\ Len(unread[1]) <= Len(Line)
          /\ \A i \in 1..Len(unread[1]) : unread[1][i] = Line[Taken + i]
    /\ \A i \in 2..Len(unread) : unread[i] = text.lines[Gone + i]
    /\ unread = << >> => text.closed \/ AllPieces[Len(AllPieces)] # << >>

\* What is collected is the beginning of a piece, what is parsed is a whole one.
PieceInv ==
    /\ pc = "read" =>
          /\ Len(aline) = Taken % LineRoom
          /\ \A i \in 1..Len(aline) : aline[i] = Line[LineRoom * (Taken \div LineRoom) + i]
    /\ pc = "params" =>
          /\ Taken % LineRoom = 0
          /\ Cut \in 1..Len(AllPieces) /\ aline = AllPieces[Cut]
          /\ at <= Len(aline) + 1

\* The commands of the first n pieces were pushed.
Place(lines, j) == Len(before) + GoodAmong(lines, j)

Pushed(lines, n) ==
    (\A i \in 1..n : Defined(lines[i])) =>
        /\ Len(cmds) = Least(Place(lines, n), CmdCap)
        /\ \A i \in DOMAIN before : cmds[i] = before[i]
        /\ \A j \in 1..n : GoodLine(lines[j]) /\ Place(lines, j) <= CmdCap
                              => Means(lines[j], Len(lines[j]), cmds[Place(lines, j)])
        /\ n > 0 => (ret = 0 <=> GoodLine(lines[n]) /\ Place(lines, n) <= CmdCap)

BatchInv ==
    /\ pc \in {"read", "params", "return"} => Len(before) <= CmdCap
    /\ pc \in {"read", "params"} => UnreadInv /\ PieceInv
    /\ pc = "read" => Pushed(AllPieces, Cut)
    /\ pc = "params" => Pushed(AllPieces, Cut - 1)
    /\ pc = "return" => /\ PiecesOf(text) \in Seq(Seq(Param)) \ {<< >>}
                        /\ Pushed(PiecesOf(text), Len(PiecesOf(text)))

LEMMA DivGrows ==
  ASSUME NEW r \in Nat \ {0}, NEW m \in Nat, NEW n \in Nat, m <= n
  PROVE  m \div r <= n \div r
  <1> DEFINE p == m \div r
             q == n \div r
  <1>1. p \in Nat /\ m % r \in 0..(r - 1) /\ m = (r * p) + (m % r)
    BY DivMod
  <1>2. q \in Nat /\ n % r \in 0..(r - 1) /\ n = (r * q) + (n % r)
    BY DivMod
  <1> HIDE DEF p, q
  <1>3. ASSUME q < p PROVE FALSE
    <2>1. r * (q + 1) <= r * p
      BY <1>1, <1>2, <1>3
    <2>2. r * (q + 1) = (r * q) + r
      BY <1>2
    <2> QED BY <1>1, <1>2, <2>1, <2>2
  <1>4. p <= q
    BY <1>1, <1>2, <1>3
  <1> QED BY <1>4 DEF p, q

\* The text that is read is one of the texts.
LEMMA TextLines ==
  ASSUME TypeInv, UnreadInv
  PROVE  /\ text.lines \in Seq(Seq(Param)) /\ Len(text.lines) \in Nat \ {0}
         /\ unread \in Seq(Seq(Param)) /\ Len(unread) \in 0..Len(text.lines)
         /\ Gone \in 0..Len(text.lines)
         /\ Taken \in Nat
         /\ unread # << >> => /\ Gone \in 0..Len(text.lines) - 1
                              /\ Line \in Seq(Param) /\ unread[1] \in Seq(Param)
                              /\ Taken = Len(Line) - Len(unread[1]) /\ Taken <= Len(Line)
         /\ unread = << >> => Gone = Len(text.lines) /\ Taken = 0
  <1>1. text.lines \in Seq(Seq(Param)) /\ text.lines # << >>
    BY CmdAssumption, Assumed DEF UnreadInv
  <1>2. Len(text.lines) \in Nat \ {0}
    BY <1>1
  <1>3. unread \in Seq(Seq(Param)) /\ Len(unread) \in 0..Len(text.lines)
    <2>1. unread \in Seq(Seq(Param))
      BY DEF TypeInv, TypeOK
    <2>2. Len(unread) \in Nat
      BY <2>1, LengthIsNat
    <2> QED BY <1>2, <2>1, <2>2 DEF UnreadInv
  <1>4. Gone \in 0..Len(text.lines)
    BY <1>2, <1>3 DEF Gone
  <1>5. CASE unread # << >>
    <2>1. Len(unread) \in 1..Len(text.lines)
      BY <1>3, <1>5
    <2>2. Gone \in 0..Len(text.lines) - 1 /\ Gone + 1 \in 1..Len(text.lines)
      BY <1>2, <2>1 DEF Gone
    <2>3. Line \in Seq(Param) /\ unread[1] \in Seq(Param)
      BY <1>1, <1>3, <2>1, <2>2 DEF Line
    <2>4. Len(Line) \in Nat /\ Len(unread[1]) \in Nat
      BY <2>3, LengthIsNat
    <2>5. Taken = Len(Line) - Len(unread[1]) /\ Len(unread[1]) <= Len(Line)
      BY <1>5 DEF Taken, UnreadInv
    <2>6. Taken \in Nat /\ Taken <= Len(Line)
      BY <2>4, <2>5
    <2> QED BY <1>1, <1>2, <1>3, <1>4, <1>5, <2>2, <2>3, <2>5, <2>6
  <1>6. CASE unread = << >>
    <2>1. Len(unread) = 0
      BY <1>6
    <2> QED BY <1>1, <1>2, <1>3, <1>4, <1>6, <2>1 DEF Gone, Taken
  <1> QED BY <1>5, <1>6

\* What was cut off, and where the next piece of the line is.
LEMMA CutAt ==
  ASSUME TypeInv, UnreadInv
  PROVE  /\ Cut \in Nat
         /\ unread # << >> =>
              \A j \in 1..(Len(Line) \div LineRoom) + 1 :
                 /\ Len(PiecesUpTo(text.lines)[Gone]) + j \in 1..Len(AllPieces)
                 /\ AllPieces[Len(PiecesUpTo(text.lines)[Gone]) + j] = Pieces(Line)[j]
         /\ unread = << >> => Cut = Len(AllPieces) /\ Cut # 0
  <1> DEFINE s == text.lines
  <1>1. s \in Seq(Seq(Param)) /\ Len(s) \in Nat \ {0} /\ Gone \in 0..Len(s) /\ Taken \in Nat
    BY TextLines
  <1>2. PiecesUpTo(s)[Gone] \in Seq(Seq(Param))
    BY <1>1, UpToStep
  <1>3. Len(PiecesUpTo(s)[Gone]) \in Nat
    BY <1>2, LengthIsNat
  <1>4. LineRoom \in Nat \ {0}
    BY Assumed
  <1>5. Taken \div LineRoom \in Nat
    BY <1>1, <1>4, DivMod
  <1>6. Cut \in Nat
    <2> DEFINE a == Len(PiecesUpTo(text.lines)[Gone])
               b == Taken \div LineRoom
    <2>1. a \in Nat /\ b \in Nat
      BY <1>3, <1>5
    <2> HIDE DEF a, b
    <2>2. a + b \in Nat
      BY <2>1
    <2> QED BY <2>2 DEF Cut, a, b
  <1>7. ASSUME unread # << >>, NEW j \in 1..(Len(Line) \div LineRoom) + 1
        PROVE  /\ Len(PiecesUpTo(s)[Gone]) + j \in 1..Len(AllPieces)
               /\ AllPieces[Len(PiecesUpTo(s)[Gone]) + j] = Pieces(Line)[j]
    <2>1. Gone \in 0..Len(s) - 1
      BY <1>7, TextLines
    <2> QED BY <1>1, <1>7, <2>1, PieceAt DEF Line, AllPieces
  <1>8. ASSUME unread = << >> PROVE Cut = Len(AllPieces) /\ Cut # 0
    <2>1. Gone = Len(s) /\ Taken = 0
      BY <1>8, TextLines
    <2>2. 0 \div LineRoom = 0
      BY <1>4
    <2>3. Cut = Len(AllPieces)
      <3>1. PICK a \in Nat : a = Len(PiecesUpTo(s)[Gone])
        BY <1>3
      <3> QED BY <2>1, <2>2, <3>1 DEF Cut, AllPieces
    <2>4. Len(AllPieces) # 0
      <3>0. PICK n \in Nat \ {0} : n = Len(s)
        BY <1>1
      <3>1. PICK k \in 0..Len(s) - 1 : k + 1 \in 1..Len(s)
        <4>1. n - 1 \in 0..n - 1 /\ n - 1 + 1 \in 1..n
          OBVIOUS
        <4> QED BY <3>0, <4>1
      <3>2. s[k + 1] \in Seq(Param)
        BY <1>1, <3>1
      <3>3. Len(s[k + 1]) \in Nat
        BY <3>2, LengthIsNat
      <3>4. Len(s[k + 1]) \div LineRoom \in Nat
        BY <1>4, <3>3, DivMod
      <3>5. 1 \in 1..(Len(s[k + 1]) \div LineRoom) + 1
        BY <3>4
      <3>6. Len(PiecesUpTo(s)[k]) + 1 \in 1..Len(AllPieces)
        BY <1>1, <3>5, PieceAt DEF AllPieces
      <3> QED BY <3>6
    <2> QED BY <2>3, <2>4
  <1> QED BY <1>6, <1>7, <1>8

LEMMA SameSequence ==
  ASSUME NEW S, NEW a \in Seq(S), NEW b \in Seq(S), Len(a) = Len(b),
         \A i \in 1..Len(a) : a[i] = b[i]
  PROVE  a = b
  OBVIOUS

LEMMA TailOfOne ==
  ASSUME NEW S, NEW a \in Seq(S), Len(a) = 1
  PROVE  Tail(a) = << >>
  <1>1. a # << >>
    BY EmptySequences
  <1>2. Tail(a) \in Seq(S) /\ Len(Tail(a)) = Len(a) - 1
    BY <1>1
  <1> DEFINE b == Tail(a)
  <1>3. b \in Seq(S) /\ Len(b) = 0
    BY <1>2
  <1> HIDE DEF b
  <1>4. b = << >>
    BY <1>3
  <1> QED BY <1>4 DEF b

\* The piece that begins after q whole ones.
LEMMA PieceFrom ==
  ASSUME NEW l \in Seq(Param), NEW q \in Nat, q <= Len(l) \div LineRoom, NEW b, b = Pieces(l)[q + 1]
  PROVE  /\ b \in Seq(Param)
         /\ q < Len(l) \div LineRoom => Len(b) = LineRoom
         /\ q = Len(l) \div LineRoom => Len(b) = Len(l) % LineRoom
         /\ \A i \in 1..Len(b) : b[i] = l[(LineRoom * q) + i]
  <1> DEFINE d == Len(l) \div LineRoom
  <1>1. d \in Nat
    BY LengthIsNat, Assumed, DivMod
  <1> HIDE DEF d
  <1>2. q <= d
    BY DEF d
  <1>3. PICK k \in 1..d + 1 : k = q + 1 /\ k - 1 = q
    BY <1>1, <1>2
  <1>4. b = Pieces(l)[k]
    BY <1>3
  <1>5. /\ b \in Seq(Param)
        /\ k <= d => Len(b) = LineRoom
        /\ k = d + 1 => Len(b) = Len(l) % LineRoom
        /\ \A i \in 1..Len(b) : b[i] = l[(LineRoom * (k - 1)) + i]
    <2>0. k \in 1..(Len(l) \div LineRoom) + 1
      BY DEF d
    <2>1. Pieces(l)[k] \in Seq(Param)
      BY <2>0, PieceOf
    <2>2. k <= Len(l) \div LineRoom => Len(Pieces(l)[k]) = LineRoom
      BY <2>0, PieceOf
    <2>3. k = (Len(l) \div LineRoom) + 1 => Len(Pieces(l)[k]) = Len(l) % LineRoom
      BY <2>0, PieceOf
    <2>4. \A i \in 1..Len(Pieces(l)[k]) : Pieces(l)[k][i] = l[(LineRoom * (k - 1)) + i]
      BY <2>0, PieceOf
    <2> QED BY <1>4, <2>1, <2>2, <2>3, <2>4 DEF d
  <1>6. \A i \in 1..Len(b) : b[i] = l[(LineRoom * q) + i]
    BY <1>3, <1>5, Zenon
  <1>7. (q < d => k <= d) /\ (q = d => k = d + 1)
    BY <1>1, <1>3
  <1> QED BY <1>5, <1>6, <1>7 DEF d

LEMMA PushedSame ==
  ASSUME NEW s, NEW t, NEW n \in Nat, \A i \in 1..n : s[i] = t[i], Pushed(s, n)
  PROVE  Pushed(t, n)
  <1>1. \A j \in 0..n : GoodAmong(t, j) = GoodAmong(s, j)
    BY GoodAmongSame
  <1>2. \A j \in 0..n : Place(t, j) = Place(s, j)
    BY <1>1, Zenon DEF Place
  <1>3. n \in 0..n /\ \A j \in 1..n : j \in 0..n
    OBVIOUS
  <1> SUFFICES ASSUME \A i \in 1..n : Defined(t[i])
               PROVE  /\ Len(cmds) = Least(Place(t, n), CmdCap)
                      /\ \A i \in DOMAIN before : cmds[i] = before[i]
                      /\ \A j \in 1..n : GoodLine(t[j]) /\ Place(t, j) <= CmdCap
                                            => Means(t[j], Len(t[j]), cmds[Place(t, j)])
                      /\ n > 0 => (ret = 0 <=> GoodLine(t[n]) /\ Place(t, n) <= CmdCap)
    BY DEF Pushed
  <1>4. \A i \in 1..n : Defined(s[i])
    BY Zenon
  <1>5. /\ Len(cmds) = Least(Place(s, n), CmdCap)
        /\ \A i \in DOMAIN before : cmds[i] = before[i]
        /\ \A j \in 1..n : GoodLine(s[j]) /\ Place(s, j) <= CmdCap
                              => Means(s[j], Len(s[j]), cmds[Place(s, j)])
        /\ n > 0 => (ret = 0 <=> GoodLine(s[n]) /\ Place(s, n) <= CmdCap)
    BY <1>4 DEF Pushed
  <1>6. \A j \in 1..n : GoodLine(t[j]) /\ Place(t, j) <= CmdCap
                           => Means(t[j], Len(t[j]), cmds[Place(t, j)])
    BY <1>2, <1>3, <1>5, Zenon
  <1>7. n > 0 => (ret = 0 <=> GoodLine(t[n]) /\ Place(t, n) <= CmdCap)
    <2> SUFFICES ASSUME n > 0 PROVE ret = 0 <=> GoodLine(t[n]) /\ Place(t, n) <= CmdCap
      OBVIOUS
    <2>1. n \in 1..n
      OBVIOUS
    <2> QED BY <1>2, <1>3, <1>5, <2>1, Zenon
  <1> QED BY <1>2, <1>3, <1>5, <1>6, <1>7, Zenon

LEMMA TakeTextBatch ==
  ASSUME TypeInv, TakeText
  PROVE  BatchInv'
  <1>1. PICK t \in Texts : text' = t /\ unread' = t.lines
    BY DEF TakeText
  <1> DEFINE s == t.lines
  <1>2. s \in Seq(Seq(Param)) /\ Len(s) \in Nat \ {0} /\ s # << >>
    BY CmdAssumption, Assumed
  <1>3. /\ before' = cmds /\ pc' = "read" /\ aline' = << >> /\ cmds' = cmds
        /\ text'.lines = s /\ unread' = s
    BY <1>1 DEF TakeText
  <1>4. Len(before') <= CmdCap /\ Len(before') \in Nat
    BY <1>3 DEF TypeInv, TypeOK
  <1> HIDE DEF s
  <1>5. Gone' = 0
    BY <1>2, <1>3 DEF Gone
  <1>6. Line' = s[1] /\ s[1] \in Seq(Param) /\ Len(s[1]) \in Nat
    BY <1>2, <1>3, <1>5 DEF Line
  <1>7. Taken' = 0
    BY <1>2, <1>3, <1>6 DEF Taken
  <1>8. 0 \div LineRoom = 0 /\ 0 % LineRoom = 0
    BY Assumed
  <1>9. Cut' = 0
    <2>1. Len(PiecesUpTo(s)[0]) = 0
      BY <1>2, UpToStep, EmptySequences
    <2> QED BY <1>3, <1>5, <1>7, <1>8, <2>1 DEF Cut
  <1>10. UnreadInv'
    <2>1. \A i \in 1..Len(unread'[1]) : unread'[1][i] = Line'[Taken' + i]
      BY <1>3, <1>6, <1>7
    <2>2. \A i \in 2..Len(unread') : unread'[i] = text'.lines[Gone' + i]
      BY <1>3, <1>5
    <2>3. text' \in Texts /\ unread' # << >>
      BY <1>1, <1>2, <1>3
    <2>4. Len(unread') <= Len(text'.lines) /\ Len(unread'[1]) <= Len(Line')
      BY <1>2, <1>3, <1>6
    <2> QED BY <2>1, <2>2, <2>3, <2>4, Zenon DEF UnreadInv
  <1>11. PieceInv'
    BY <1>3, <1>7, <1>8 DEF PieceInv
  <1>12. Pushed(AllPieces, Cut)'
    <2>1. GoodAmong(AllPieces', 0) = 0
      BY GoodAmongStep
    <2>2. Place(AllPieces, 0)' = Len(cmds)
      BY <1>3, <1>4, <2>1 DEF Place
    <2>3. Len(cmds) = Least(Len(cmds), CmdCap)
      BY <1>3, <1>4, Assumed DEF Least
    <2> QED BY <1>3, <1>9, <2>2, <2>3 DEF Pushed
  <1> QED BY <1>3, <1>4, <1>10, <1>11, <1>12 DEF BatchInv

\* One parameter more of the line.
LEMMA ReadParamUnread ==
  ASSUME TypeInv, BatchInv, ReadParam
  PROVE  /\ UnreadInv' /\ Gone' = Gone /\ Line' = Line /\ Taken' = Taken + 1
         /\ Taken + 1 <= Len(Line) /\ unread # << >>
         /\ aline' \in Seq(Param) /\ Len(aline') = Len(aline) + 1
         /\ \A i \in 1..Len(aline') : aline'[i] = Line[LineRoom * (Taken \div LineRoom) + i]
  <1>0. pc = "read" /\ UnreadInv /\ PieceInv
    BY DEF ReadParam, BatchInv
  <1>1. /\ unread # << >> /\ unread[1] # << >> /\ text' = text
        /\ unread' = [unread EXCEPT ![1] = Tail(unread[1])]
        /\ aline' = Append(aline, Head(unread[1]))
    BY DEF ReadParam
  <1>2. /\ unread \in Seq(Seq(Param)) /\ unread[1] \in Seq(Param) /\ Line \in Seq(Param)
        /\ Taken = Len(Line) - Len(unread[1]) /\ Taken \in Nat /\ Gone \in Nat
    BY <1>0, <1>1, TextLines
  <1>3. 1 \in 1..Len(unread)
    BY <1>1, <1>2
  <1>4. /\ unread' \in Seq(Seq(Param)) /\ Len(unread') = Len(unread) /\ unread' # << >>
        /\ unread'[1] = Tail(unread[1]) /\ \A i \in 2..Len(unread) : unread'[i] = unread[i]
    BY <1>1, <1>2, <1>3
  <1> DEFINE rest == unread[1]
  <1>5. rest \in Seq(Param) /\ rest # << >>
    BY <1>1, <1>2
  <1>6. /\ Len(unread[1]) \in Nat \ {0} /\ Len(unread'[1]) = Len(unread[1]) - 1
        /\ Head(unread[1]) = unread[1][1] /\ Head(unread[1]) \in Param
        /\ \A i \in 1..Len(unread'[1]) : unread'[1][i] = unread[1][i + 1]
    <2> HIDE DEF rest
    <2>1. /\ Len(rest) \in Nat \ {0} /\ Len(Tail(rest)) = Len(rest) - 1
          /\ Head(rest) = rest[1] /\ Head(rest) \in Param
          /\ \A i \in 1..Len(Tail(rest)) : Tail(rest)[i] = rest[i + 1]
      BY <1>5
    <2> QED BY <1>4, <2>1 DEF rest
  <1>7. Gone' = Gone /\ Line' = Line
    BY <1>1, <1>4 DEF Gone, Line
  <1>8. Taken' = Taken + 1 /\ Taken + 1 <= Len(Line)
    <2>1. PICK a \in Nat, b \in Nat : a = Len(Line) /\ b = Len(unread[1])
      BY <1>2, LengthIsNat
    <2>2. Taken' = Len(Line) - Len(unread'[1])
      BY <1>4, <1>7 DEF Taken
    <2>3. Taken' = a - (b - 1) /\ Taken = a - b /\ b > 0
      BY <1>2, <1>6, <2>1, <2>2
    <2> QED BY <2>1, <2>3
  <1>9. \A i \in 1..Len(unread[1]) : unread[1][i] = Line[Taken + i]
    BY <1>0, <1>1 DEF UnreadInv
  <1>10. UnreadInv'
    <2>1. ASSUME NEW i \in 1..Len(unread'[1]) PROVE unread'[1][i] = Line'[Taken' + i]
      <3>1. i + 1 \in 1..Len(unread[1]) /\ Taken' + i = Taken + (i + 1)
        BY <1>2, <1>6, <1>8
      <3>2. unread[1][i + 1] = Line[Taken + (i + 1)]
        BY <1>9, <3>1
      <3>3. unread'[1][i] = unread[1][i + 1]
        BY <1>6
      <3> QED BY <1>7, <3>1, <3>2, <3>3
    <2>2. Len(unread'[1]) <= Len(Line')
      <3>1. PICK a \in Nat, b \in Nat : a = Len(Line) /\ b = Len(unread[1])
        BY <1>2, LengthIsNat
      <3>2. b <= a /\ Len(unread'[1]) = b - 1
        BY <1>0, <1>1, <1>6, <3>1 DEF UnreadInv
      <3> QED BY <1>7, <3>1, <3>2
    <2>3. \A i \in 2..Len(unread') : unread'[i] = text'.lines[Gone' + i]
      BY <1>0, <1>1, <1>4, <1>7 DEF UnreadInv
    <2>4. text' \in Texts /\ Len(unread') <= Len(text'.lines)
      BY <1>0, <1>1, <1>4 DEF UnreadInv
    <2> QED BY <1>4, <2>1, <2>2, <2>3, <2>4 DEF UnreadInv
  <1>11. aline \in Seq(Param) /\ Len(aline) \in Nat
    BY DEF TypeInv, TypeOK
  <1>12. /\ aline' \in Seq(Param) /\ Len(aline') = Len(aline) + 1
         /\ \A i \in 1..Len(aline) : aline'[i] = aline[i]
         /\ aline'[Len(aline) + 1] = unread[1][1]
    <2>1. PICK x \in Param : x = Head(unread[1])
      BY <1>6
    <2> QED BY <1>1, <1>6, <1>11, <2>1
  <1>13. \A i \in 1..Len(aline') : aline'[i] = Line[LineRoom * (Taken \div LineRoom) + i]
    <2> SUFFICES ASSUME NEW i \in 1..Len(aline')
                 PROVE  aline'[i] = Line[LineRoom * (Taken \div LineRoom) + i]
      OBVIOUS
    <2>1. CASE i \in 1..Len(aline)
      BY <1>0, <1>12, <2>1 DEF PieceInv
    <2>2. CASE i = Len(aline) + 1
      <3>1. Len(aline) = Taken % LineRoom
        BY <1>0 DEF PieceInv
      <3>2. Taken = (LineRoom * (Taken \div LineRoom)) + (Taken % LineRoom)
            /\ Taken \div LineRoom \in Nat
        BY <1>2, Assumed, DivMod
      <3>3. LineRoom * (Taken \div LineRoom) + i = Taken + 1
        <4>1. PICK a \in Int : a = LineRoom * (Taken \div LineRoom)
          BY <3>2, Assumed
        <4>2. Taken = a + Len(aline)
          BY <3>1, <3>2, <4>1
        <4> QED BY <1>11, <2>2, <4>1, <4>2
      <3>4. unread[1][1] = Line[Taken + 1]
        BY <1>6, <1>9
      <3> QED BY <1>12, <2>2, <3>3, <3>4
    <2> QED BY <1>11, <1>12, <2>1, <2>2
  <1> QED BY <1>1, <1>7, <1>8, <1>10, <1>12, <1>13

LEMMA ReadParamBatch ==
  ASSUME TypeInv, BatchInv, ReadParam
  PROVE  BatchInv'
  <1> DEFINE base == Len(PiecesUpTo(text.lines)[Gone])
             q == Taken \div LineRoom
  <1>1. /\ pc = "read" /\ UnreadInv /\ PieceInv /\ Pushed(AllPieces, Cut) /\ Len(before) <= CmdCap
    BY DEF ReadParam, BatchInv
  <1>2. /\ UnreadInv' /\ Gone' = Gone /\ Line' = Line /\ Taken' = Taken + 1
        /\ Taken + 1 <= Len(Line) /\ unread # << >>
        /\ aline' \in Seq(Param) /\ Len(aline') = Len(aline) + 1
        /\ \A i \in 1..Len(aline') : aline'[i] = Line[LineRoom * q + i]
    BY ReadParamUnread
  <1>3. UNCHANGED <<text, before, ret, cmds>> /\ AllPieces' = AllPieces
    BY DEF ReadParam, AllPieces
  <1>4. /\ Taken \in Nat /\ LineRoom \in Nat \ {0} /\ Line \in Seq(Param) /\ Len(Line) \in Nat
        /\ q \in Nat
    <2>1. Taken \in Nat /\ Line \in Seq(Param)
      BY <1>1, <1>2, TextLines
    <2> QED BY <2>1, Assumed, LengthIsNat, DivMod
  <1>5. Pushed(AllPieces, Cut)' <=> Pushed(AllPieces, Cut')
    BY <1>3 DEF Pushed, Place
  <1>6. Len(aline) = Taken % LineRoom /\ Len(aline) < LineRoom /\ Len(aline) \in Nat
    BY <1>1 DEF PieceInv, TypeInv, TypeOK
  <1>7. Cut = base + q /\ Cut' = base + ((Taken + 1) \div LineRoom)
    BY <1>2, <1>3 DEF Cut
  <1>8. Cut \in Nat
    BY <1>1, CutAt
  <1>9. CASE LineFull(aline')
    <2>1. (Taken % LineRoom) + 1 = LineRoom
      BY <1>2, <1>6, <1>9 DEF LineFull
    <2>2. (Taken + 1) \div LineRoom = q + 1 /\ (Taken + 1) % LineRoom = 0
      BY <1>4, <2>1, DivNext
    <2>3. q + 1 \in 1..(Len(Line) \div LineRoom)
      <3>1. (Taken + 1) \div LineRoom <= Len(Line) \div LineRoom
        <4>1. Taken + 1 \in Nat
          BY <1>4
        <4> QED BY <1>2, <1>4, <4>1, DivGrows, Zenon
      <3>2. Len(Line) \div LineRoom \in Nat
        BY <1>4, DivMod
      <3> QED BY <1>4, <2>2, <3>1, <3>2
    <2>4. q + 1 \in 1..(Len(Line) \div LineRoom) + 1
      <3>1. Len(Line) \div LineRoom \in Nat
        BY <1>4, DivMod
      <3> QED BY <2>3, <3>1
    <2> HIDE DEF q, base
    <2>5. base + (q + 1) \in 1..Len(AllPieces) /\ AllPieces[base + (q + 1)] = Pieces(Line)[q + 1]
      BY <1>1, <1>2, <2>4, CutAt DEF base
    <2>6. Cut' = base + (q + 1)
      BY <1>7, <2>2 DEF q
    <2>7. Cut' = Cut + 1 /\ Cut' - 1 = Cut
      <3>1. base \in Nat
        <4>1. PICK m \in 0..Len(text.lines) : m = Gone
          BY <1>1, TextLines
        <4>2. text.lines \in Seq(Seq(Param))
          BY <1>1, TextLines
        <4>3. PiecesUpTo(text.lines)[m] \in Seq(Seq(Param))
          BY <4>2, UpToStep
        <4> QED BY <4>1, <4>3, LengthIsNat DEF base
      <3> QED BY <1>4, <1>7, <2>6, <3>1
    <2>8. aline' = AllPieces[Cut']
      <3>1. q <= Len(Line) \div LineRoom /\ q < Len(Line) \div LineRoom
        <4>1. Len(Line) \div LineRoom \in Nat
          BY <1>4, DivMod
        <4> QED BY <1>4, <2>3, <4>1
      <3>3. Len(aline') = LineRoom
        BY <1>9 DEF LineFull
      <3>4. PICK b : b = Pieces(Line)[q + 1]
        OBVIOUS
      <3>5. b \in Seq(Param) /\ Len(b) = LineRoom /\ \A i \in 1..LineRoom : b[i] = Line[LineRoom * q + i]
        <4>1. /\ b \in Seq(Param) /\ (q < Len(Line) \div LineRoom => Len(b) = LineRoom)
              /\ \A i \in 1..Len(b) : b[i] = Line[(LineRoom * q) + i]
          <5>1. Line \in Seq(Param) /\ q \in Nat
            BY <1>4
          <5> QED BY <3>1, <3>4, <5>1, PieceFrom, SMTT(20)
        <4> QED BY <3>1, <4>1
      <3>6. aline' = b
        BY <1>2, <3>3, <3>5, SameSequence DEF q
      <3> QED BY <2>5, <2>6, <3>4, <3>6
    <2>9. pc' = "params" /\ at' = 1
      BY <1>9 DEF ReadParam, ParseLine
    <2>10. PieceInv'
      <3>1. Taken' % LineRoom = 0
        BY <1>2, <2>2
      <3>2. at' <= Len(aline') + 1
        BY <1>2, <1>6, <2>9
      <3> QED BY <1>3, <2>5, <2>6, <2>8, <2>9, <3>1, <3>2 DEF PieceInv
    <2>11. Pushed(AllPieces, Cut - 1)'
      <3>1. Pushed(AllPieces, Cut' - 1)
        BY <1>1, <2>7
      <3> QED BY <1>3, <3>1 DEF Pushed, Place
    <2> QED BY <1>1, <1>2, <1>3, <2>9, <2>10, <2>11 DEF BatchInv
  <1>10. CASE ~LineFull(aline')
    <2>1. (Taken % LineRoom) + 1 < LineRoom
      BY <1>2, <1>4, <1>6, <1>10 DEF LineFull
    <2>2. (Taken + 1) \div LineRoom = q /\ (Taken + 1) % LineRoom = (Taken % LineRoom) + 1
      BY <1>4, <2>1, DivNext
    <2>3. pc' = "read"
      BY <1>1, <1>10 DEF ReadParam
    <2> HIDE DEF q, base
    <2>4. Cut' = Cut
      BY <1>7, <2>2
    <2>5. PieceInv'
      BY <1>2, <1>6, <2>2, <2>3 DEF PieceInv, q
    <2>6. Pushed(AllPieces, Cut)'
      BY <1>1, <1>5, <2>4
    <2> QED BY <1>1, <1>2, <1>3, <2>3, <2>5, <2>6 DEF BatchInv
  <1> QED BY <1>9, <1>10

\* The characters of a line are over: what is collected is its last piece.
LEMMA LineOver ==
  ASSUME TypeInv, BatchInv, pc = "read", unread # << >>, unread[1] = << >>
  PROVE  /\ Cut \in Nat /\ Cut + 1 \in 1..Len(AllPieces) /\ AllPieces[Cut + 1] = aline
         /\ Len(PiecesUpTo(text.lines)[Gone + 1]) = Cut + 1
         /\ Line # << >> => aline # << >> \/ Cut > 0
  <1> DEFINE base == Len(PiecesUpTo(text.lines)[Gone])
             q == Taken \div LineRoom
  <1>1. UnreadInv /\ PieceInv
    BY DEF BatchInv
  <1>2. /\ text.lines \in Seq(Seq(Param)) /\ Gone \in 0..Len(text.lines) - 1
        /\ Line \in Seq(Param) /\ Taken = Len(Line) - Len(unread[1]) /\ Taken \in Nat
        /\ LineRoom \in Nat \ {0}
    BY <1>1, TextLines, Assumed
  <1>3. Taken = Len(Line) /\ Len(Line) \in Nat
    <2>1. PICK n \in Nat : n = Len(Line)
      BY <1>2, LengthIsNat
    <2>2. Len(unread[1]) = 0
      BY EmptySequences
    <2> QED BY <1>2, <2>1, <2>2
  <1>4. q \in Nat /\ Taken % LineRoom \in 0..(LineRoom - 1) /\ Taken = (LineRoom * q) + (Taken % LineRoom)
    BY <1>2, DivMod
  <1>5. q = Len(Line) \div LineRoom
    BY <1>3
  <1>6. q + 1 \in 1..(Len(Line) \div LineRoom) + 1
    BY <1>4, <1>5
  <1> HIDE DEF q, base
  <1>7. base + (q + 1) \in 1..Len(AllPieces) /\ AllPieces[base + (q + 1)] = Pieces(Line)[q + 1]
    BY <1>1, <1>6, CutAt DEF base
  <1>8. /\ base \in Nat
        /\ Len(PiecesUpTo(text.lines)[Gone + 1]) = base + (Len(Line) \div LineRoom) + 1
    <2>1. q + 1 \in 1..(Len(text.lines[Gone + 1]) \div LineRoom) + 1
      BY <1>6 DEF Line
    <2> QED BY <1>2, <2>1, PieceAt DEF base, Line
  <1>9. Cut = base + q
    BY DEF Cut, base, q
  <1>11. aline = Pieces(Line)[q + 1]
    <2>1. /\ aline \in Seq(Param) /\ Len(aline) = Taken % LineRoom
          /\ \A i \in 1..Len(aline) : aline[i] = Line[LineRoom * q + i]
      BY <1>1 DEF PieceInv, TypeInv, TypeOK, q
    <2>2. q <= Len(Line) \div LineRoom
      BY <1>4, <1>5
    <2>3. PICK b : b = Pieces(Line)[q + 1]
      OBVIOUS
    <2>4. b \in Seq(Param) /\ Len(b) = Len(aline) /\ \A i \in 1..Len(b) : b[i] = Line[LineRoom * q + i]
      <3>1. /\ b \in Seq(Param) /\ (q = Len(Line) \div LineRoom => Len(b) = Len(Line) % LineRoom)
            /\ \A i \in 1..Len(b) : b[i] = Line[(LineRoom * q) + i]
        <4>1. Line \in Seq(Param) /\ q \in Nat
          BY <1>2, <1>4
        <4> QED BY <2>2, <2>3, <4>1, PieceFrom, SMTT(20)
      <3> QED BY <1>3, <1>5, <2>1, <3>1
    <2> QED BY <2>1, <2>3, <2>4, SameSequence
  <1>12. Line # << >> => aline # << >> \/ Cut > 0
    <2> SUFFICES ASSUME aline = << >>, q = 0 PROVE Line = << >>
      BY <1>4, <1>8, <1>9
    <2>1. Taken % LineRoom = 0
      BY <1>1, EmptySequences DEF PieceInv
    <2>2. Len(Line) = 0
      BY <1>2, <1>3, <1>4, <2>1
    <2> QED BY <1>2, <2>2
  <1>13. base + (q + 1) = Cut + 1 /\ base + (Len(Line) \div LineRoom) + 1 = Cut + 1 /\ Cut \in Nat
    BY <1>4, <1>5, <1>8, <1>9
  <1>14. Cut + 1 \in 1..Len(AllPieces) /\ AllPieces[Cut + 1] = aline
    BY <1>7, <1>11, <1>13
  <1>15. Len(PiecesUpTo(text.lines)[Gone + 1]) = Cut + 1
    BY <1>8, <1>13
  <1> QED BY <1>12, <1>13, <1>14, <1>15

\* A newline, or the end of a text that has none, closes the line.
LEMMA EndOfLine ==
  ASSUME TypeInv, BatchInv, pc = "read", unread # << >>, unread[1] = << >>,
         unread' = Tail(unread), ParseLine, UNCHANGED <<text, before, aline, ret, cmds>>,
         Len(unread) = 1 => text.closed \/ aline # << >>
  PROVE  BatchInv'
  <1>1. /\ UnreadInv /\ PieceInv /\ Pushed(AllPieces, Cut) /\ Len(before) <= CmdCap
    BY DEF BatchInv
  <1>2. /\ text.lines \in Seq(Seq(Param)) /\ Len(text.lines) \in Nat \ {0}
        /\ unread \in Seq(Seq(Param)) /\ Len(unread) \in 1..Len(text.lines)
        /\ Gone \in 0..Len(text.lines) - 1 /\ LineRoom \in Nat \ {0}
    <2>1. Len(unread) # 0 /\ unread \in Seq(Seq(Param)) /\ Len(unread) \in 0..Len(text.lines)
      BY <1>1, TextLines
    <2>2. Len(text.lines) \in Nat
      BY <1>1, TextLines
    <2>3. Len(unread) \in 1..Len(text.lines)
      BY <2>1, <2>2
    <2> QED BY <1>1, <2>3, TextLines, Assumed
  <1>3. /\ Cut \in Nat /\ Cut + 1 \in 1..Len(AllPieces) /\ AllPieces[Cut + 1] = aline
        /\ Len(PiecesUpTo(text.lines)[Gone + 1]) = Cut + 1
    BY LineOver
  <1>4. UNCHANGED <<text, before, aline, ret, cmds>> /\ AllPieces' = AllPieces
    BY DEF AllPieces
  <1>5. /\ unread' \in Seq(Seq(Param)) /\ Len(unread') = Len(unread) - 1
        /\ \A i \in 1..Len(unread') : unread'[i] = unread[i + 1]
    BY <1>2
  <1>6. Gone' = Gone + 1
    <2>1. PICK a, b \in Nat : a = Len(text.lines) /\ b = Len(unread)
      BY <1>2
    <2> QED BY <1>4, <1>5, <2>1 DEF Gone
  <1>7. unread' # << >> => unread'[1] = Line'
    <2> SUFFICES ASSUME unread' # << >> PROVE unread'[1] = Line'
      OBVIOUS
    <2>1. 1 \in 1..Len(unread') /\ 1 + 1 \in 2..Len(unread)
      BY <1>2, <1>5
    <2>2. unread'[1] = unread[2]
      BY <1>5, <2>1
    <2>3. unread[2] = text.lines[Gone + 2]
      BY <1>1, <2>1 DEF UnreadInv
    <2>4. Gone' + 1 = Gone + 2
      BY <1>2, <1>6
    <2> QED BY <1>4, <2>2, <2>3, <2>4 DEF Line
  <1>8. Taken' = 0
    <2>1. CASE unread' = << >>
      BY <2>1 DEF Taken
    <2>2. CASE unread' # << >>
      <3>1. Len(unread'[1]) \in Nat
        <4>1. 1 \in 1..Len(unread')
          BY <1>5, <2>2
        <4>2. unread'[1] \in Seq(Param)
          BY <1>5, <4>1
        <4> QED BY <4>2, LengthIsNat
      <3> QED BY <1>7, <2>2, <3>1 DEF Taken
    <2> QED BY <2>1, <2>2
  <1>9. 0 \div LineRoom = 0 /\ 0 % LineRoom = 0
    BY <1>2
  <1>10. Cut' = Cut + 1 /\ Cut' - 1 = Cut
    BY <1>3, <1>4, <1>6, <1>8, <1>9 DEF Cut
  <1>11. UnreadInv'
    <2>1. text' \in Texts /\ Len(unread') <= Len(text'.lines)
      <3>1. text \in Texts
        BY <1>1 DEF UnreadInv
      <3>2. Len(unread) - 1 <= Len(text.lines)
        BY <1>2
      <3> QED BY <1>4, <1>5, <3>1, <3>2
    <2>2. unread' # << >> =>
            /\ Len(unread'[1]) <= Len(Line')
            /\ \A i \in 1..Len(unread'[1]) : unread'[1][i] = Line'[Taken' + i]
      <3> SUFFICES ASSUME unread' # << >>
                   PROVE  /\ Len(unread'[1]) <= Len(Line')
                          /\ \A i \in 1..Len(unread'[1]) : unread'[1][i] = Line'[Taken' + i]
        OBVIOUS
      <3>1. 1 \in 1..Len(unread')
        BY <1>5
      <3>2. unread'[1] \in Seq(Param)
        BY <1>5, <3>1
      <3>3. Len(unread'[1]) \in Nat
        BY <3>2, LengthIsNat
      <3>4. \A i \in 1..Len(unread'[1]) : Taken' + i = i
        BY <1>8
      <3> QED BY <1>7, <3>3, <3>4
    <2>3. \A i \in 2..Len(unread') : unread'[i] = text'.lines[Gone' + i]
      <3> SUFFICES ASSUME NEW i \in 2..Len(unread') PROVE unread'[i] = text'.lines[Gone' + i]
        OBVIOUS
      <3>1. i \in 1..Len(unread') /\ i + 1 \in 2..Len(unread) /\ Gone' + i = Gone + (i + 1)
        BY <1>2, <1>5, <1>6
      <3>2. unread[i + 1] = text.lines[Gone + (i + 1)]
        BY <1>1, <3>1 DEF UnreadInv
      <3> QED BY <1>4, <1>5, <3>1, <3>2
    <2>4. unread' = << >> => text'.closed \/ AllPieces'[Len(AllPieces')] # << >>
      <3> SUFFICES ASSUME unread' = << >>, ~text.closed PROVE AllPieces[Len(AllPieces)] # << >>
        BY <1>4
      <3>1. Len(unread') = 0
        BY EmptySequences
      <3>2. Len(unread) = 1
        <4>1. PICK n \in Nat : n = Len(unread)
          BY <1>2
        <4> QED BY <1>5, <3>1, <4>1
      <3>3. Gone + 1 = Len(text.lines)
        BY <1>2, <3>2 DEF Gone
      <3>4. Len(AllPieces) = Cut + 1
        BY <1>3, <3>3 DEF AllPieces
      <3> QED BY <1>3, <3>2, <3>4
    <2> QED BY <2>1, <2>2, <2>3, <2>4, Zenon DEF UnreadInv
  <1>12. pc' = "params" /\ at' = 1
    BY DEF ParseLine
  <1>13. PieceInv'
    <2>1. at' <= Len(aline') + 1
      <3>1. Len(aline') \in Nat
        BY <1>4 DEF TypeInv, TypeOK
      <3> QED BY <1>12, <3>1
    <2>2. Cut' \in 1..Len(AllPieces') /\ aline' = AllPieces'[Cut']
      BY <1>3, <1>4, <1>10
    <2> QED BY <1>8, <1>9, <1>12, <2>1, <2>2 DEF PieceInv
  <1>14. Pushed(AllPieces, Cut - 1)'
    <2>1. Pushed(AllPieces, Cut' - 1)
      BY <1>1, <1>10
    <2> QED BY <1>4, <2>1 DEF Pushed, Place
  <1> QED BY <1>1, <1>4, <1>11, <1>12, <1>13, <1>14 DEF BatchInv

LEMMA ReadEndBatch ==
  ASSUME TypeInv, BatchInv, ReadEnd
  PROVE  BatchInv'
  <1>1. /\ pc = "read" /\ UnreadInv /\ PieceInv /\ Pushed(AllPieces, Cut) /\ Len(before) <= CmdCap
        /\ UNCHANGED <<text, before, aline, ret, cmds>> /\ unread' = << >>
    BY DEF ReadEnd, BatchInv
  <1>2. /\ text.lines \in Seq(Seq(Param)) /\ Len(text.lines) \in Nat \ {0}
        /\ unread \in Seq(Seq(Param))
    BY <1>1, TextLines
  <1>3. AllPieces \in Seq(Seq(Param)) /\ Len(AllPieces) \in Nat
    <2>1. PICK n \in 0..Len(text.lines) : n = Len(text.lines)
      BY <1>2
    <2>2. PiecesUpTo(text.lines)[n] \in Seq(Seq(Param))
      BY <1>2, UpToStep
    <2>3. AllPieces \in Seq(Seq(Param))
      BY <2>1, <2>2 DEF AllPieces
    <2> QED BY <2>3, LengthIsNat
  <1>4. ASSUME unread = << >> PROVE ~Unfinished
    <2>1. Taken = 0
      BY <1>4 DEF Taken
    <2>2. 0 % LineRoom = 0
      BY Assumed
    <2>3. Len(aline) = 0
      BY <1>1, <2>1, <2>2 DEF PieceInv
    <2> QED BY <2>3 DEF Unfinished, TypeInv, TypeOK
  <1>5. CASE Unfinished
    <2>1. AtEnd
      BY <1>4, <1>5 DEF ReadEnd
    <2>2. Len(unread) = 1 /\ unread[1] = << >> /\ unread # << >>
      BY <2>1, EmptySequences DEF AtEnd
    <2>3. unread' = Tail(unread)
      BY <1>1, <1>2, <2>2, TailOfOne
    <2>4. ParseLine
      BY <1>5 DEF ReadEnd
    <2>5. aline # << >>
      BY <1>5 DEF Unfinished
    <2> QED BY <1>1, <2>2, <2>3, <2>4, <2>5, EndOfLine
  <1>6. CASE ~Unfinished
    <2>1. pc' = "return" /\ aline = << >>
      BY <1>6 DEF ReadEnd, Unfinished
    <2>2. /\ PiecesOf(text) \in Seq(Seq(Param)) \ {<< >>}
          /\ Pushed(PiecesOf(text), Len(PiecesOf(text)))
      <3>1. CASE unread = << >>
        <4>1. text.closed \/ AllPieces[Len(AllPieces)] # << >>
          BY <1>1, <3>1 DEF UnreadInv
        <4>2. PiecesOf(text) = AllPieces
          BY <4>1 DEF PiecesOf, AllPieces
        <4>3. Cut = Len(AllPieces) /\ Cut # 0
          BY <1>1, <3>1, CutAt
        <4>4. AllPieces # << >>
          BY <4>3, EmptySequences
        <4> QED BY <1>1, <1>3, <4>2, <4>3, <4>4
      <3>2. CASE unread # << >>
        <4>1. Len(unread) = 1 /\ unread[1] = << >> /\ ~text.closed
          BY <3>2 DEF ReadEnd, AtEnd
        <4>2. Gone + 1 = Len(text.lines) /\ Line = text.lines[Len(text.lines)]
          BY <1>2, <4>1 DEF Gone, Line
        <4>3. /\ Cut \in Nat /\ AllPieces[Cut + 1] = aline
              /\ Len(PiecesUpTo(text.lines)[Gone + 1]) = Cut + 1
              /\ Line # << >> => aline # << >> \/ Cut > 0
          BY <1>1, <3>2, <4>1, LineOver
        <4>4. Len(AllPieces) = Cut + 1
          BY <4>2, <4>3 DEF AllPieces
        <4>5. Line # << >>
          <5>1. text \in Texts
            BY <1>1 DEF UnreadInv
          <5> QED BY <4>1, <4>2, <5>1, CmdAssumption
        <4>6. Cut > 0
          BY <2>1, <4>3, <4>5
        <4>7. AllPieces[Len(AllPieces)] = << >>
          BY <2>1, <4>3, <4>4
        <4>8. PiecesOf(text) = SubSeq(AllPieces, 1, Len(AllPieces) - 1)
          BY <4>1, <4>7 DEF PiecesOf, AllPieces
        <4> DEFINE p == SubSeq(AllPieces, 1, Cut)
        <4>9. PiecesOf(text) = p
          BY <4>3, <4>4, <4>8
        <4>10. p \in Seq(Seq(Param)) /\ Len(p) = Cut /\ \A i \in 1..Cut : AllPieces[i] = p[i]
          <5>1. PICK a \in Seq(Seq(Param)) : a = AllPieces
            BY <1>3
          <5>2. PICK c \in Nat : c = Cut
            BY <4>3
          <5>3. Len(a) = c + 1
            BY <4>4, <5>1, <5>2
          <5>4. SubSeq(a, 1, c) \in Seq(Seq(Param)) /\ Len(SubSeq(a, 1, c)) = c
                /\ \A i \in 1..c : a[i] = SubSeq(a, 1, c)[i]
            BY <5>3
          <5> QED BY <5>1, <5>2, <5>4
        <4> HIDE DEF p
        <4>11. Pushed(p, Cut)
          BY <1>1, <4>3, <4>10, PushedSame
        <4>12. p # << >>
          BY <4>6, <4>10, EmptySequences
        <4> QED BY <4>9, <4>10, <4>11, <4>12
      <3> QED BY <3>1, <3>2
    <2>3. PiecesOf(text)' = PiecesOf(text)
      BY <1>1 DEF PiecesOf
    <2>4. Pushed(PiecesOf(text), Len(PiecesOf(text)))'
      BY <1>1, <2>2, <2>3 DEF Pushed, Place
    <2> QED BY <1>1, <2>1, <2>2, <2>3, <2>4 DEF BatchInv
  <1> QED BY <1>5, <1>6

\* A line that is parsed is pushed when it is good and there is room.
LEMMA PushedOneMore ==
  ASSUME NEW s, NEW n \in Nat, Pushed(s, n),
         cmds \in Seq(Command), before \in Seq(Command), Len(before) <= CmdCap, Len(cmds) <= CmdCap,
         UNCHANGED before,
         Defined(s[n + 1]) => (LineGood <=> GoodLine(s[n + 1])),
         Defined(s[n + 1]) /\ LineGood => Means(s[n + 1], Len(s[n + 1]), iuc),
         IF LineGood /\ Len(cmds) < CmdCap THEN cmds' = Append(cmds, iuc) /\ ret' = 0
                                           ELSE cmds' = cmds /\ ret' = -1
  PROVE  (\A i \in 1..n + 1 : Defined(s[i])) =>
            /\ Len(cmds') = Least(Place(s, n + 1), CmdCap)
            /\ \A i \in DOMAIN before : cmds'[i] = before[i]
            /\ \A j \in 1..n + 1 : GoodLine(s[j]) /\ Place(s, j) <= CmdCap
                                      => Means(s[j], Len(s[j]), cmds'[Place(s, j)])
            /\ ret' = 0 <=> GoodLine(s[n + 1]) /\ Place(s, n + 1) <= CmdCap
  <1> SUFFICES ASSUME \A i \in 1..n + 1 : Defined(s[i])
               PROVE  /\ Len(cmds') = Least(Place(s, n + 1), CmdCap)
                      /\ \A i \in DOMAIN before : cmds'[i] = before[i]
                      /\ \A j \in 1..n + 1 : GoodLine(s[j]) /\ Place(s, j) <= CmdCap
                                                => Means(s[j], Len(s[j]), cmds'[Place(s, j)])
                      /\ ret' = 0 <=> GoodLine(s[n + 1]) /\ Place(s, n + 1) <= CmdCap
    OBVIOUS
  <1>1. /\ Len(cmds) = Least(Place(s, n), CmdCap)
        /\ \A i \in DOMAIN before : cmds[i] = before[i]
        /\ \A j \in 1..n : GoodLine(s[j]) /\ Place(s, j) <= CmdCap
                              => Means(s[j], Len(s[j]), cmds[Place(s, j)])
    <2>1. \A i \in 1..n : Defined(s[i])
      <3>1. \A i \in 1..n : i \in 1..n + 1
        OBVIOUS
      <3> QED BY <3>1, Zenon
    <2> QED BY <2>1 DEF Pushed
  <1>2. PICK p \in Nat, room \in Nat : p = Place(s, n) /\ room = CmdCap /\ Len(before) <= p
        /\ Place(s, n + 1) = IF GoodLine(s[n + 1]) THEN p + 1 ELSE p
    <2>1. PICK a \in Nat, g \in Nat : a = Len(before) /\ g = GoodAmong(s, n)
      BY GoodAmongStep, LengthIsNat
    <2>2. GoodAmong(s, n + 1) = IF GoodLine(s[n + 1]) THEN g + 1 ELSE g
      BY <2>1, GoodAmongStep
    <2>3. Place(s, n) = a + g /\ Place(s, n + 1) = IF GoodLine(s[n + 1]) THEN a + g + 1 ELSE a + g
      BY <2>1, <2>2 DEF Place
    <2>4. a + g \in Nat /\ a <= a + g
      BY <2>1
    <2> QED BY <2>1, <2>3, <2>4, Assumed
  <1>3. PICK b \in Nat, c \in Nat : b = Len(before) /\ c = Len(cmds)
    BY LengthIsNat
  <1>4. c = (IF p < room THEN p ELSE room) /\ b <= c /\ b <= p
    <2>1. c = IF p < room THEN p ELSE room
      BY <1>1, <1>2, <1>3 DEF Least
    <2> QED BY <1>2, <1>3, <2>1
  <1>5. \A j \in 1..n : GoodLine(s[j]) => Place(s, j) \in 1..p
    <2> SUFFICES ASSUME NEW j \in 1..n, GoodLine(s[j]) PROVE Place(s, j) \in 1..p
      OBVIOUS
    <2>1. PICK i \in Nat : j = i + 1 /\ j \in 0..n
      <3>1. j - 1 \in Nat /\ j = j - 1 + 1 /\ j \in 0..n
        OBVIOUS
      <3> QED BY <3>1
    <2>2. GoodAmong(s, j) = GoodAmong(s, i) + 1 /\ GoodAmong(s, i) \in Nat
      BY <2>1, GoodAmongStep
    <2>3. GoodAmong(s, j) <= GoodAmong(s, n) /\ GoodAmong(s, n) \in Nat
      BY <2>1, GoodAmongGrows
    <2>4. PICK g \in Nat, h \in Nat : g = GoodAmong(s, j) /\ h = GoodAmong(s, n) /\ 0 < g /\ g <= h
      BY <2>2, <2>3
    <2>5. Place(s, j) = b + g /\ p = b + h
      BY <1>2, <1>3, <2>4 DEF Place
    <2> QED BY <1>3, <2>4, <2>5
  <1>6. Defined(s[n + 1])
    <2>1. n + 1 \in 1..n + 1
      OBVIOUS
    <2> QED BY <2>1, Zenon
  <1>7. \A j \in 1..n + 1 : j \in 1..n \/ j = n + 1
    OBVIOUS
  <1>8. DOMAIN before = 1..b
    BY <1>3
  <1>9. CASE LineGood /\ Len(cmds) < CmdCap
    <2>1. cmds' = Append(cmds, iuc) /\ ret' = 0 /\ GoodLine(s[n + 1]) /\ Means(s[n + 1], Len(s[n + 1]), iuc)
      BY <1>6, <1>9
    <2>2. c = p /\ Place(s, n + 1) = p + 1 /\ p < room
      BY <1>2, <1>3, <1>4, <1>9, <2>1
    <2>3. Len(cmds') = c + 1 /\ (\A i \in 1..c : cmds'[i] = cmds[i]) /\ cmds'[c + 1] = iuc
      BY <1>3, <2>1
    <2>4. Len(cmds') = Least(Place(s, n + 1), CmdCap)
      BY <1>2, <2>2, <2>3 DEF Least
    <2>5. \A i \in DOMAIN before : cmds'[i] = before[i]
      BY <1>1, <1>4, <1>8, <2>3
    <2>6. ASSUME NEW j \in 1..n + 1, GoodLine(s[j]), Place(s, j) <= CmdCap
          PROVE  Means(s[j], Len(s[j]), cmds'[Place(s, j)])
      <3>1. CASE j \in 1..n
        <4>1. Means(s[j], Len(s[j]), cmds[Place(s, j)])
          BY <1>1, <2>6, <3>1
        <4>2. Place(s, j) \in 1..c
          BY <1>5, <2>2, <2>6, <3>1
        <4>3. cmds'[Place(s, j)] = cmds[Place(s, j)]
          BY <2>3, <4>2
        <4> QED BY <4>1, <4>3
      <3>2. CASE j = n + 1
        <4>1. cmds'[Place(s, n + 1)] = iuc
          BY <2>2, <2>3
        <4> QED BY <2>1, <3>2, <4>1
      <3> QED BY <1>7, <3>1, <3>2
    <2>7. ret' = 0 /\ GoodLine(s[n + 1]) /\ Place(s, n + 1) <= CmdCap
      BY <1>2, <2>1, <2>2
    <2> QED BY <2>4, <2>5, <2>6, <2>7
  <1>10. CASE ~(LineGood /\ Len(cmds) < CmdCap)
    <2>1. cmds' = cmds /\ ret' = -1
      BY <1>10
    <2>2. ~(GoodLine(s[n + 1]) /\ Place(s, n + 1) <= CmdCap)
      BY <1>2, <1>3, <1>4, <1>6, <1>10
    <2>3. Len(cmds) = Least(Place(s, n + 1), CmdCap)
      BY <1>2, <1>3, <1>4, <2>2 DEF Least
    <2>4. ASSUME NEW j \in 1..n + 1, GoodLine(s[j]), Place(s, j) <= CmdCap
          PROVE  Means(s[j], Len(s[j]), cmds[Place(s, j)])
      <3>1. j \in 1..n
        BY <1>7, <2>2, <2>4
      <3> QED BY <1>1, <2>4, <3>1
    <2> QED BY <1>1, <2>1, <2>2, <2>3, <2>4
  <1> QED BY <1>9, <1>10

LEMMA EndLineBatch ==
  ASSUME TypeInv, LineInv, BatchInv, EndLine
  PROVE  BatchInv'
  <1>1. /\ pc = "params" /\ at > Len(aline) /\ UnreadInv /\ PieceInv /\ Pushed(AllPieces, Cut - 1)
        /\ Len(before) <= CmdCap
    BY DEF EndLine, BatchInv
  <1>2. UNCHANGED <<text, unread, before>> /\ pc' = "read" /\ aline' = << >>
    BY DEF EndLine, readVars
  <1>3. AllPieces' = AllPieces /\ Cut' = Cut /\ Taken' = Taken /\ UnreadInv'
    BY <1>1, <1>2 DEF AllPieces, Cut, Taken, Gone, Line, UnreadInv
  <1>4. Taken % LineRoom = 0 /\ Cut \in 1..Len(AllPieces) /\ aline = AllPieces[Cut]
        /\ at - 1 = Len(aline)
    <2>1. Len(aline) \in Nat /\ at \in Nat
      BY DEF TypeInv, TypeOK
    <2>2. at <= Len(aline) + 1
      BY <1>1 DEF PieceInv
    <2> QED BY <1>1, <2>1, <2>2 DEF PieceInv
  <1>5. PieceInv'
    BY <1>2, <1>3, <1>4, EmptySequences DEF PieceInv
  <1>6. PICK n \in Nat : n = Cut - 1 /\ Cut = n + 1
    BY <1>4
  <1>7. aline = AllPieces[n + 1]
    BY <1>4, <1>6
  <1>8. ASSUME Defined(aline)
        PROVE  /\ LineGood <=> GoodLine(aline)
               /\ LineGood => Means(aline, Len(aline), iuc)
    <2>1. /\ found <=> Counted(aline, Len(aline)) # {}
          /\ errors = 0 <=> AllAccepted(aline, Len(aline))
          /\ errors = 0 => Means(aline, Len(aline), iuc)
      BY <1>1, <1>4, <1>8, Zenon DEF LineInv
    <2> QED BY <2>1, Zenon DEF LineGood, GoodLine
  <1>9. Pushed(AllPieces, n + 1)'
    <2> DEFINE s == AllPieces
    <2>1. /\ cmds \in Seq(Command) /\ before \in Seq(Command) /\ Len(cmds) <= CmdCap
      BY DEF TypeInv, TypeOK
    <2>2. /\ Defined(s[n + 1]) => (LineGood <=> GoodLine(s[n + 1]))
          /\ Defined(s[n + 1]) /\ LineGood => Means(s[n + 1], Len(s[n + 1]), iuc)
      BY <1>7, <1>8, Zenon
    <2>3. IF LineGood /\ Len(cmds) < CmdCap THEN cmds' = Append(cmds, iuc) /\ ret' = 0
                                            ELSE cmds' = cmds /\ ret' = -1
      BY DEF EndLine
    <2>4. Pushed(s, n)
      BY <1>1, <1>6
    <2> HIDE DEF s
    <2>5. (\A i \in 1..n + 1 : Defined(s[i])) =>
            /\ Len(cmds') = Least(Place(s, n + 1), CmdCap)
            /\ \A i \in DOMAIN before : cmds'[i] = before[i]
            /\ \A j \in 1..n + 1 : GoodLine(s[j]) /\ Place(s, j) <= CmdCap
                                      => Means(s[j], Len(s[j]), cmds'[Place(s, j)])
            /\ ret' = 0 <=> GoodLine(s[n + 1]) /\ Place(s, n + 1) <= CmdCap
      BY <1>1, <1>2, <2>1, <2>2, <2>3, <2>4, PushedOneMore
    <2>6. s' = s
      BY <1>3 DEF s
    <2> QED BY <1>2, <2>5, <2>6 DEF Pushed, Place, s
  <1>10. Pushed(AllPieces, Cut)'
    BY <1>3, <1>6, <1>9
  <1> QED BY <1>1, <1>2, <1>3, <1>5, <1>10 DEF BatchInv

LEMMA Step_Batch ==
  ASSUME TypeInv, LineInv, BatchInv, [Next]_vars
  PROVE  BatchInv'
  <1>1. CASE ReadNewline
    <2>1. /\ pc = "read" /\ unread # << >> /\ unread[1] = << >> /\ ~AtEnd
          /\ unread' = Tail(unread) /\ ParseLine /\ UNCHANGED <<text, before, aline, ret, cmds>>
      BY <1>1 DEF ReadNewline
    <2>2. Len(unread) = 1 => text.closed
      BY <2>1 DEF AtEnd
    <2> QED BY <2>1, <2>2, EndOfLine
  <1>2. CASE TakeParam
    <2>1. /\ pc = "params" /\ at <= Len(aline) /\ at' = at + 1
          /\ UNCHANGED <<pc, text, unread, before, aline, ret, cmds>>
      BY <1>2 DEF TakeParam, readVars
    <2>2. at' <= Len(aline') + 1
      BY <2>1 DEF TypeInv, TypeOK
    <2>3. /\ AllPieces' = AllPieces /\ Cut' = Cut /\ Taken' = Taken
          /\ Line' = Line /\ Gone' = Gone
      BY <2>1 DEF AllPieces, Cut, Taken, Gone, Line
    <2>6. UnreadInv /\ PieceInv /\ Pushed(AllPieces, Cut - 1) /\ Len(before) <= CmdCap
      BY <2>1 DEF BatchInv
    <2>7. UnreadInv'
      BY <2>1, <2>3, <2>6 DEF UnreadInv
    <2>4. PieceInv'
      BY <2>1, <2>2, <2>3, <2>6 DEF PieceInv
    <2>5. Pushed(AllPieces, Cut - 1)'
      BY <2>1, <2>3, <2>6 DEF Pushed, Place
    <2> QED BY <2>1, <2>6, <2>7, <2>4, <2>5 DEF BatchInv
  <1>3. CASE Return \/ WriteCommand \/ WriteComplete
    <2>1. pc' \in {"idle", "write"}
      BY <1>3 DEF Return, WriteCommand, WriteComplete
    <2> QED BY <2>1 DEF BatchInv
  <1>4. CASE UNCHANGED vars
    <2>1. UNCHANGED <<pc, text, unread, before, aline, at, ret, cmds>>
      BY <1>4 DEF vars, readVars, lineVars
    <2>2. /\ AllPieces' = AllPieces /\ Cut' = Cut /\ Taken' = Taken /\ Line' = Line /\ Gone' = Gone
          /\ PiecesOf(text)' = PiecesOf(text)
      BY <2>1 DEF AllPieces, Cut, Taken, Gone, Line, PiecesOf
    <2>3. UnreadInv <=> UnreadInv'
      BY <2>1, <2>2 DEF UnreadInv
    <2>4. PieceInv <=> PieceInv'
      BY <2>1, <2>2 DEF PieceInv
    <2>5. /\ Pushed(AllPieces, Cut) <=> Pushed(AllPieces, Cut)'
          /\ Pushed(AllPieces, Cut - 1) <=> Pushed(AllPieces, Cut - 1)'
          /\ Pushed(PiecesOf(text), Len(PiecesOf(text))) <=> Pushed(PiecesOf(text), Len(PiecesOf(text)))'
      BY <2>1, <2>2 DEF Pushed, Place
    <2> QED BY <2>1, <2>2, <2>3, <2>4, <2>5 DEF BatchInv
  <1> QED BY <1>1, <1>2, <1>3, <1>4, TakeTextBatch, ReadParamBatch, ReadEndBatch, EndLineBatch
          DEF Next

LEMMA BatchHolds == Spec => []BatchInv
  <1>1. Init => BatchInv
    BY DEF Init, BatchInv
  <1> QED BY <1>1, Step_Batch, TypeHolds, LineHolds, PTL DEF Spec

-----------------------------------------------------------------------------
(* The properties *)

\* iracc_cmd_parse and the write loop keep every variable in its type: a line never
\* grows past aline, the commands never past writeCommands, and every unit id,
\* level, mode and temperature that is stored is one of the protocol's.
THEOREM TypeCorrect == Spec => []TypeOK
  BY TypeHolds, PTL DEF TypeInv

\* _iracc_cmd_parse_aline makes of every line, of any length and with its keys in
\* any order, the command that the last parameter with each key says, and counts
\* an error exactly when one of them is not accepted.
THEOREM LineMeansCommand == Spec => []LineIsCommand
  <1>1. LineInv => LineIsCommand
    BY DEF LineInv, LineIsCommand
  <1> QED BY <1>1, LineHolds, PTL

\* The conversions of _iracc_cmd_assign_value and of the write loop take at most a
\* tenth from every temperature that a text may hold, once and for all.
THEOREM TemperatureKept == Spec => []TemperatureWithinTenth
  <1>1. LineInv => TemperatureWithinTenth
    <2>1. SUFFICES ASSUME LineInv, pc = "params", Defined(aline), errors = 0
                   PROVE  TemperatureWithinTenth
      BY DEF TemperatureWithinTenth
    <2>2. MeansTemp(aline, at - 1, iuc) /\ TempAccepted(aline, at - 1)
      BY <2>1 DEF LineInv
    <2>3. CASE ~Says(aline, at - 1, "temp")
      BY <2>2, <2>3 DEF MeansTemp, TemperatureWithinTenth
    <2>4. CASE Says(aline, at - 1, "temp")
      <3>1. PICK n \in Int : n = Said(aline, at - 1, "temp").num /\ iuc.temp = Hundredths(n)
        BY <2>2, <2>4 DEF MeansTemp, TempAccepted, InRange, Value
      <3> QED BY <2>4, <3>1, WithinTenth DEF TemperatureWithinTenth
    <2> QED BY <2>3, <2>4
  <1> QED BY <1>1, LineHolds, PTL

\* When iracc.c has written all commands, every unit has the wind level and the
\* power that the lines set last, of texts that failed too, and no other unit
\* has changed.
THEOREM SettingsReachUnits == Spec => []SettingsReach
  <1>1. TypeInv /\ SettingInv => SettingsReach
    <2>1. SUFFICES ASSUME TypeInv, SettingInv, pc = "idle", cmds = << >>, NEW u \in Devices
                   PROVE  /\ setting[u].windLevel \in {Unclaimed, iu[u].windLevel}
                          /\ setting[u].power \in {Unclaimed, iu[u].power}
      BY DEF SettingsReach
    <2>2. written = 0 /\ Len(cmds) = 0
      BY <2>1 DEF SettingInv
    <2>3. WindWaiting(u) = {} /\ PowerWaiting(u) = {}
      BY <2>2, NoneWaiting
    <2> QED BY <2>1, <2>3 DEF SettingInv, WindInv, PowerInv
  <1> QED BY <1>1, TypeHolds, SettingHolds, PTL

\* iracc_cmd_parse makes of every text, of any number of lines of any length, the
\* batch that Iracc.tla takes it for: of its lines, as they are cut where they do
\* not fit, the commands of the good ones are pushed in their order while there is
\* room, and the text succeeds when its last line does.
THEOREM TextIsItsBatch == Spec => []TextIsBatch
  <1>1. TypeInv /\ BatchInv => TextIsBatch
    <2> DEFINE lines == PiecesOf(text)
    <2> SUFFICES ASSUME TypeInv, BatchInv, pc = "return", \A i \in DOMAIN lines : Defined(lines[i])
                 PROVE  /\ Len(cmds) = Least(Place(lines, Len(lines)), CmdCap)
                        /\ \A i \in DOMAIN before : cmds[i] = before[i]
                        /\ \A j \in DOMAIN lines : GoodLine(lines[j]) /\ Place(lines, j) <= CmdCap
                              => Means(lines[j], Len(lines[j]), cmds[Place(lines, j)])
                        /\ ret = 0 <=> GoodLine(lines[Len(lines)]) /\ Place(lines, Len(lines)) <= CmdCap
      BY DEF TextIsBatch, Place
    <2>1. /\ lines \in Seq(Seq(Param)) \ {<< >>} /\ Pushed(lines, Len(lines))
      BY DEF BatchInv
    <2> HIDE DEF lines
    <2>2. Len(lines) \in Nat \ {0} /\ DOMAIN lines = 1..Len(lines)
      BY <2>1
    <2>3. (\A i \in DOMAIN lines : Defined(lines[i])) /\ Len(lines) > 0
      BY <2>2
    <2>4. \A i \in 1..Len(lines) : Defined(lines[i])
      BY <2>2, <2>3, Zenon
    <2>5. /\ Len(cmds) = Least(Place(lines, Len(lines)), CmdCap)
          /\ \A i \in DOMAIN before : cmds[i] = before[i]
          /\ \A j \in 1..Len(lines) : GoodLine(lines[j]) /\ Place(lines, j) <= CmdCap
                => Means(lines[j], Len(lines[j]), cmds[Place(lines, j)])
          /\ Len(lines) > 0 =>
                (ret = 0 <=> GoodLine(lines[Len(lines)]) /\ Place(lines, Len(lines)) <= CmdCap)
      BY <2>1, <2>4, Zenon DEF Pushed
    <2> QED BY <2>2, <2>3, <2>5, Zenon
  <1> QED BY <1>1, TypeHolds, BatchHolds, PTL
=============================================================================
